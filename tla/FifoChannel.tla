---------------------------- MODULE FifoChannel ----------------------------
(***************************************************************************)
(* What an ordered channel promises: the messages accepted so far, and how *)
(* many of them have been delivered.  A message is delivered at most once, *)
(* in the order of acceptance, and an accepted message is never taken      *)
(* back.  A step may accept several messages: delivering one can make the  *)
(* receiver send others.                                                   *)
(***************************************************************************)
EXTENDS Naturals, Sequences

CONSTANT Msg

VARIABLES
    accepted,      \* sequence of the messages the channel took responsibility for
    delivered      \* sequence of the messages handed to their receiver

vars == <<accepted, delivered>>

TypeOK ==
    /\ accepted \in Seq(Msg)
    /\ delivered \in Seq(Msg)

Init ==
    /\ accepted = <<>>
    /\ delivered = <<>>

(* The sender gives the channel a new message. *)
Accept ==
    /\ \E m \in Msg : accepted' = Append(accepted, m)
    /\ UNCHANGED delivered

(* The oldest undelivered message reaches its receiver. *)
Deliver ==
    /\ Len(delivered) < Len(accepted)
    /\ delivered' = Append(delivered, accepted[Len(delivered) + 1])
    /\ UNCHANGED accepted

Next == Accept \/ Deliver

Spec == Init /\ [][Next]_vars
=============================================================================
