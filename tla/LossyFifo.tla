------------------------------ MODULE LossyFifo ------------------------------
(***************************************************************************)
(* What a websocket connection promises about the messages that are        *)
(* written to it: they arrive at the client in the order they were         *)
(* accepted in, each at most once. A message is refused only while         *)
(* Capacity others are waiting, and when the connection ends the ones that *)
(* wait are gone.                                                          *)
(***************************************************************************)
EXTENDS Naturals, Sequences

CONSTANTS Messages, Capacity

VARIABLES
  queue,    \* accepted and not arrived
  got,      \* arrived, in order
  lost,     \* refused
  ended     \* the connection is over

vars == <<queue, got, lost, ended>>

Init == queue = <<>> /\ got = <<>> /\ lost = {} /\ ended = FALSE

\* The messages that were accepted or refused before
Seen == {queue[i] : i \in DOMAIN queue} \cup {got[i] : i \in DOMAIN got} \cup lost

Accept(m) ==
  /\ ~ended /\ Len(queue) < Capacity /\ m \notin Seen
  /\ queue' = Append(queue, m)
  /\ UNCHANGED <<got, lost, ended>>

Refuse(m) ==
  /\ ~ended /\ Len(queue) = Capacity /\ m \notin Seen
  /\ lost' = lost \cup {m}
  /\ UNCHANGED <<queue, got, ended>>

Arrive ==
  /\ ~ended /\ queue # <<>>
  /\ got' = Append(got, Head(queue)) /\ queue' = Tail(queue)
  /\ UNCHANGED <<lost, ended>>

End ==
  /\ ended' = TRUE /\ queue' = <<>>
  /\ UNCHANGED <<got, lost>>

Next == (\E m \in Messages : Accept(m) \/ Refuse(m)) \/ Arrive \/ End

Spec == Init /\ [][Next]_vars
=============================================================================
