----------------------------- MODULE MCTcpConn -----------------------------
EXTENDS TcpConn

Symmetry == Permutations(Ctx) \cup Permutations(Esp)
=============================================================================
