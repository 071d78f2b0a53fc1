----------------------------- MODULE KvRegister -----------------------------
(***************************************************************************)
(* What the key-value stores promise: a map in which a put may take effect *)
(* any number of times while it is under way, at least once if it is       *)
(* answered with true, and nothing but a put changes a value.              *)
(***************************************************************************)
CONSTANTS Keys, Values, None, Reqs

VARIABLES
  store,   \* the value of a key, None if it has none
  puts,    \* the puts under way
  acked    \* keys of which a put was answered with true

vars == <<store, puts, acked>>

Init ==
  /\ store = [k \in Keys |-> None] /\ puts = [r \in Reqs |-> None]
  /\ acked = {}

Begin(r, k, v) ==
  /\ puts[r] = None /\ puts' = [puts EXCEPT ![r] = [key |-> k, val |-> v]]
  /\ UNCHANGED <<store, acked>>

\* The put takes effect, and may do so again.
Effect(r) ==
  /\ puts[r] # None
  /\ store' = [store EXCEPT ![puts[r].key] = puts[r].val]
  /\ UNCHANGED <<puts, acked>>

\* The put takes effect and is answered with true.
EffectAndEnd(r) ==
  /\ puts[r] # None
  /\ store' = [store EXCEPT ![puts[r].key] = puts[r].val]
  /\ puts' = [puts EXCEPT ![r] = None] /\ acked' = acked \cup {puts[r].key}

\* An error says neither that the put took effect nor that it did not.
Fail(r) ==
  /\ puts[r] # None /\ puts' = [puts EXCEPT ![r] = None]
  /\ UNCHANGED <<store, acked>>

Next ==
  \E r \in Reqs :
    \/ \E k \in Keys, v \in Values : Begin(r, k, v)
    \/ Effect(r) \/ EffectAndEnd(r) \/ Fail(r)

Spec == Init /\ [][Next]_vars
=============================================================================
