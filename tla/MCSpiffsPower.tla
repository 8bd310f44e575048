--------------------------- MODULE MCSpiffsPower ---------------------------
EXTENDS MCSpiffs, SpiffsPower
MCSupplies == 0 .. 25
=============================================================================
