------------------------------- MODULE KvStore -------------------------------
(***************************************************************************)
(* The key-value stores of the users, cmall_3rd_kv_store and               *)
(* cmall_3rd_public_kv_store. user_3rd_kv_put(_pubkey) calls upset, which  *)
(* reloads the row and updates it, or inserts it if there is none, in one  *)
(* transaction; rows are never removed. The id of a row is its key, so     *)
(* that the second of two inserts is refused. A transaction whose          *)
(* connection is lost is repeated, whether it was committed or not.        *)
(***************************************************************************)
EXTENDS Naturals

CONSTANTS
  Keys,       \* store, user and key
  Values,
  None,       \* no value, no handler
  Reqs,       \* handlers in flight
  MaxPuts,    \* bound: puts
  MaxRepeats  \* bound: how often a put is repeated (25 in the code)

ASSUME ConstantsAssumption ==
  /\ None \notin Values /\ MaxPuts \in Nat /\ MaxRepeats \in Nat

VARIABLES
  store,   \* the rows
  req,     \* the puts in flight
  made,    \* how many puts were made
  last,    \* history: the value of the last put of a key
  acked,   \* history: keys of which a put was answered with true
  unsure   \* history: keys of which two puts have overlapped or one failed

vars == <<store, req, made, last, acked, unsure>>

Handler == [pc: {"reload", "update", "persist"}, key: Keys, val: Values,
            repeats: 0..MaxRepeats]

ASSUME NoneAssumption ==
  None \notin Handler /\ None \notin [key: Keys, val: Values]

InFlight(k) == \E q \in Reqs : req[q] # None /\ req[q].key = k

\* A put arrives.
Put(r, k, v) ==
  /\ made < MaxPuts /\ made' = made + 1 /\ req[r] = None
  /\ req' = [req EXCEPT ![r] = [pc |-> "reload", key |-> k, val |-> v,
                                repeats |-> 0]]
  /\ last' = [last EXCEPT ![k] = v]
  /\ unsure' = IF InFlight(k) THEN unsure \cup {k} ELSE unsure
  /\ UNCHANGED <<store, acked>>

\* reload finds the row or throws object_not_persistent.
Reload(r) ==
  /\ req[r] # None /\ req[r].pc = "reload"
  /\ req' = [req EXCEPT ![r].pc =
               IF store[req[r].key] # None THEN "update" ELSE "persist"]
  /\ UNCHANGED <<store, made, last, acked, unsure>>

Applicable(r) ==
  req[r].pc = "update" \/ (req[r].pc = "persist" /\ store[req[r].key] = None)

Apply(r) == store' = [store EXCEPT ![req[r].key] = req[r].val]

\* Mutant of Commit: a row that is there is left as it is.
Commit_KeepsOld(r) ==
  /\ req[r] # None /\ Applicable(r)
  /\ store' = IF req[r].pc = "update" THEN store
              ELSE [store EXCEPT ![req[r].key] = req[r].val]
  /\ req' = [req EXCEPT ![r] = None] /\ acked' = acked \cup {req[r].key}
  /\ UNCHANGED <<made, last, unsure>>

\* The transaction is committed and the put is answered with true.
Commit(r) ==
  /\ req[r] # None /\ Applicable(r) /\ Apply(r)
  /\ req' = [req EXCEPT ![r] = None] /\ acked' = acked \cup {req[r].key}
  /\ UNCHANGED <<made, last, unsure>>

\* The connection is lost, before or after the commit, and retry_database_op
\* does it again.
Repeat(r) ==
  /\ req[r] # None /\ req[r].pc # "reload" /\ req[r].repeats < MaxRepeats
  /\ \/ Applicable(r) /\ Apply(r)
     \/ UNCHANGED store
  /\ req' = [req EXCEPT ![r].pc = "reload", ![r].repeats = @ + 1]
  /\ UNCHANGED <<made, last, acked, unsure>>

\* An insert that is refused, or another error, ends the put.
Fails(r) ==
  /\ req[r] # None /\ req' = [req EXCEPT ![r] = None]
  /\ unsure' = unsure \cup {req[r].key}
  /\ UNCHANGED <<store, made, last, acked>>

Init ==
  /\ store = [k \in Keys |-> None] /\ req = [r \in Reqs |-> None] /\ made = 0
  /\ last = [k \in Keys |-> None] /\ acked = {} /\ unsure = {}

Next ==
  \E r \in Reqs :
    \/ \E k \in Keys, v \in Values : Put(r, k, v)
    \/ Reload(r) \/ Commit(r) \/ Repeat(r) \/ Fails(r)

Spec == Init /\ [][Next]_vars

-----------------------------------------------------------------------------
(* Properties *)

\* Type correctness
TypeOK ==
  /\ store \in [Keys -> Values \cup {None}]
  /\ req \in [Reqs -> Handler \cup {None}]
  /\ last \in [Keys -> Values \cup {None}]
  /\ made \in Nat /\ acked \subseteq Keys /\ unsure \subseteq Keys

\* user_3rd_kv_get never says kv_store_key_not_found of a key that a put was
\* answered for with true, and an update never meets a row that is gone.
AckedIsFound ==
  /\ \A k \in acked : store[k] # None
  /\ \A r \in Reqs : req[r] # None /\ req[r].pc = "update" =>
                       store[req[r].key] # None

\* The last put wins, unless puts of the key have overlapped or one failed: a
\* put that is repeated may bring its value back after a later one.
LastPutWins ==
  \A k \in Keys : InFlight(k) \/ k \in unsure \/ store[k] = last[k]

Map == INSTANCE KvRegister
         WITH puts <- [r \in Reqs |->
                        IF req[r] = None THEN None
                        ELSE [key |-> req[r].key, val |-> req[r].val]]

\* The handlers implement the map of KvRegister.
MapSpec == Map!Spec
=============================================================================
