---------------------------- MODULE MessageQueue ----------------------------
(***************************************************************************)
(* What an SBE queue promises its users: a producer publishes messages, a  *)
(* consumer takes each of them once, in the order of publication.          *)
(***************************************************************************)
EXTENDS Naturals, Sequences

CONSTANT Messages

VARIABLES published, consumed

vars == <<published, consumed>>

Init == published = <<>> /\ consumed = <<>>

Publish ==
  /\ \E m \in Messages : published' = Append(published, m)
  /\ UNCHANGED consumed

Take ==
  /\ Len(consumed) < Len(published)
  /\ consumed' = Append(consumed, published[Len(consumed) + 1])
  /\ UNCHANGED published

Next == Publish \/ Take

Spec == Init /\ [][Next]_vars

(* A consumer that keeps asking gets what is there.                        *)
FairSpec == Spec /\ WF_vars(Take)
=============================================================================
