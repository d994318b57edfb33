----------------------------- MODULE BoundedFifo -----------------------------
(***************************************************************************)
(* What a keystroke buffer promises: characters come out in the order they *)
(* went in, each once, and one that finds the buffer full is dropped.      *)
(***************************************************************************)
EXTENDS Naturals, Sequences

CONSTANTS Values, Capacity

VARIABLES
  queue,   \* the characters waiting
  got      \* the character the last reader was given

Put(c) ==
  /\ Len(queue) < Capacity
  /\ queue' = Append(queue, c)
  /\ UNCHANGED got

Get ==
  /\ queue # << >>
  /\ queue' = Tail(queue)
  /\ got' = Head(queue)

Init == queue = << >> /\ got \notin Values
Next == Get \/ \E c \in Values : Put(c)
Spec == Init /\ [][Next]_<<queue, got>>
=============================================================================
