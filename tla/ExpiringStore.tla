---------------------------- MODULE ExpiringStore ----------------------------
(***************************************************************************)
(* What utility::timedmap promises to its users: a key that was put can be *)
(* read for at least Lifetime, with the value of the first put, and no     *)
(* longer than Slack after that. When exactly it goes, and with which      *)
(* others, is open.                                                        *)
(***************************************************************************)
EXTENDS Integers

CONSTANTS Keys, Values, Lifetime, Slack

VARIABLES
  now,    \* time_clock::steady_clock::now()
  stor,   \* the entries: key, value, insert_time
  oldest  \* the greatest age at which a value was read

vars == <<now, stor, oldest>>

Entries == [key: Keys, value: Values, at: Int]

Age(e) == now - e.at

Init == now = 0 /\ stor = {} /\ oldest = 0

\* A key that is present keeps its value and its time.
Put(k, v) ==
  /\ stor' = IF \E e \in stor : e.key = k THEN stor
             ELSE stor \cup {[key |-> k, value |-> v, at |-> now]}
  /\ UNCHANGED <<now, oldest>>

\* What is read is in the store.
Read(k) ==
  /\ \E e \in stor : /\ e.key = k
                     /\ oldest' = IF Age(e) > oldest THEN Age(e) ELSE oldest
  /\ UNCHANGED <<now, stor>>

\* Entries leave after their lifetime.
Expire(gone) ==
  /\ gone \subseteq stor /\ \A e \in gone : Age(e) >= Lifetime
  /\ stor' = stor \ gone
  /\ UNCHANGED <<now, oldest>>

\* No time passes that would leave an entry in the store beyond the slack.
Tick ==
  /\ \A e \in stor : Age(e) + 1 < Lifetime + Slack
  /\ now' = now + 1
  /\ UNCHANGED <<stor, oldest>>

Next ==
  \/ \E k \in Keys, v \in Values : Put(k, v)
  \/ \E k \in Keys : Read(k)
  \/ \E gone \in SUBSET stor : Expire(gone)
  \/ Tick

Spec == Init /\ [][Next]_vars
=============================================================================
