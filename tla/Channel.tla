------------------------------- MODULE Channel -------------------------------
(***************************************************************************)
(* What one direction of a connection promises: the other end receives the *)
(* messages that were sent, unchanged, in the order they were sent, each   *)
(* at most once, none left out between two that arrive.                    *)
(***************************************************************************)
EXTENDS Naturals, Sequences

CONSTANT Messages

VARIABLES
  sent,       \* all messages given to Send
  received    \* all messages given to the handler of the other end

vars == <<sent, received>>

Init == sent = <<>> /\ received = <<>>

Send(m) ==
  /\ sent' = Append(sent, m)
  /\ UNCHANGED received

Receive ==
  /\ Len(received) < Len(sent)
  /\ received' = Append(received, sent[Len(received) + 1])
  /\ UNCHANGED sent

Next == Receive \/ \E m \in Messages : Send(m)

Spec == Init /\ [][Next]_vars

=============================================================================
