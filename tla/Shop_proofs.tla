----------------------------- MODULE Shop_proofs -----------------------------
(***************************************************************************)
(* What buyers and administrators keep and choose, for every value of the  *)
(* constants: the safety properties of KvStore, and that it implements     *)
(* KvRegister; the positions of the index page and what a set leaves of    *)
(* it; the rows of carts and favourites and what the clients show of them; *)
(* and what an order is made of.                                           *)
(***************************************************************************)
EXTENDS Shop, FiniteSetTheorems, TLAPS

\* A put of a key that is not in doubt is alone with it and brings the last
\* value.
Alone ==
  \A r \in Reqs : req[r] # None /\ req[r].key \notin unsure =>
    /\ req[r].val = last[req[r].key]
    /\ \A q \in Reqs \ {r} : req[q] # None => req[q].key # req[r].key

\* The inductive invariant
PutInv == TypeOK /\ AckedIsFound /\ Alone /\ LastPutWins

-----------------------------------------------------------------------------
\* What a handler that is at work looks like.
LEMMA AtWork ==
  ASSUME TypeOK, NEW r \in Reqs, req[r] # None
  PROVE  /\ req[r] \in Handler /\ req[r].key \in Keys /\ req[r].val \in Values
         /\ req[r].pc \in {"reload", "update", "persist"}
         /\ req[r].repeats \in 0..MaxRepeats
  BY DEF TypeOK, Handler

\* What a put writes when it arrives.
LEMMA PutFacts ==
  ASSUME TypeOK, NEW r \in Reqs, NEW k \in Keys, NEW v \in Values, Put(r, k, v)
  PROVE  /\ req' \in [Reqs -> Handler \cup {None}] /\ req[r] = None
         /\ req'[r] # None /\ req'[r].pc = "reload"
         /\ req'[r].key = k /\ req'[r].val = v
         /\ \A q \in Reqs \ {r} : req'[q] = req[q]
         /\ last' \in [Keys -> Values \cup {None}] /\ last'[k] = v
         /\ \A j \in Keys \ {k} : last'[j] = last[j]
<1> DEFINE new == [pc |-> "reload", key |-> k, val |-> v, repeats |-> 0]
<1>1. 0 \in 0..MaxRepeats
  BY ConstantsAssumption
<1>2. new \in Handler
  BY <1>1 DEF Handler
<1>3. new.pc = "reload" /\ new.key = k /\ new.val = v /\ new # None
  BY <1>2, NoneAssumption
<1>4. req' = [req EXCEPT ![r] = new] /\ req[r] = None
  BY DEF Put
<1> HIDE DEF new
<1>5. /\ req' \in [Reqs -> Handler \cup {None}] /\ req'[r] = new
      /\ \A q \in Reqs \ {r} : req'[q] = req[q]
  BY <1>2, <1>4 DEF TypeOK
<1>6. /\ last' \in [Keys -> Values \cup {None}] /\ last'[k] = v
      /\ \A j \in Keys \ {k} : last'[j] = last[j]
  BY DEF Put, TypeOK
<1> QED
  BY <1>3, <1>4, <1>5, <1>6

\* A handler that goes on keeps its key and its value.
LEMMA GoOnFacts ==
  ASSUME TypeOK, NEW r \in Reqs, Reload(r) \/ Repeat(r)
  PROVE  /\ req' \in [Reqs -> Handler \cup {None}] /\ req[r] # None
         /\ req'[r] # None /\ req'[r].key = req[r].key /\ req'[r].val = req[r].val
         /\ req'[r].pc = "update" => store[req[r].key] # None /\ Reload(r)
         /\ \A q \in Reqs \ {r} : req'[q] = req[q]
<1>1. req[r] # None /\ req[r] \in Handler
  BY AtWork DEF Reload, Repeat
<1>2. CASE Reload(r)
  <2> DEFINE to == IF store[req[r].key] # None THEN "update" ELSE "persist"
             new == [req[r] EXCEPT !.pc = to]
  <2>1. req' = [req EXCEPT ![r] = new]
    BY <1>2 DEF Reload
  <2>2. new \in Handler /\ new.key = req[r].key /\ new.val = req[r].val /\ new.pc = to
    BY <1>1 DEF Handler
  <2>3. to = "update" => store[req[r].key] # None
    OBVIOUS
  <2>4. new # None
    BY <2>2, NoneAssumption
  <2> HIDE DEF to, new
  <2>5. /\ req' \in [Reqs -> Handler \cup {None}] /\ req'[r] = new
        /\ \A q \in Reqs \ {r} : req'[q] = req[q]
    BY <2>1, <2>2 DEF TypeOK
  <2> QED
    BY <1>1, <1>2, <2>2, <2>3, <2>4, <2>5
<1>3. CASE Repeat(r)
  <2> DEFINE new == [req[r] EXCEPT !.pc = "reload", !.repeats = @ + 1]
  <2>1. req' = [req EXCEPT ![r] = new]
    BY <1>3 DEF Repeat
  <2>2. req[r].repeats + 1 \in 0..MaxRepeats
    BY <1>1, <1>3, AtWork, ConstantsAssumption DEF Repeat
  <2>3. new \in Handler /\ new.key = req[r].key /\ new.val = req[r].val
        /\ new.pc = "reload"
    BY <1>1, <2>2 DEF Handler
  <2>4. new # None
    BY <2>3, NoneAssumption
  <2> HIDE DEF new
  <2>5. /\ req' \in [Reqs -> Handler \cup {None}] /\ req'[r] = new
        /\ \A q \in Reqs \ {r} : req'[q] = req[q]
    BY <2>1, <2>3 DEF TypeOK
  <2> QED
    BY <1>1, <2>3, <2>4, <2>5
<1> QED
  BY <1>2, <1>3

\* A handler that ends leaves the others as they are.
LEMMA EndFacts ==
  ASSUME TypeOK, NEW r \in Reqs, Commit(r) \/ Fails(r)
  PROVE  /\ req' \in [Reqs -> Handler \cup {None}] /\ req[r] # None
         /\ req'[r] = None
         /\ \A q \in Reqs \ {r} : req'[q] = req[q]
  BY DEF Commit, Fails, TypeOK

\* A write changes the row of the handler's key to a value.
LEMMA ApplyFacts ==
  ASSUME TypeOK, NEW r \in Reqs, req[r] # None, Apply(r)
  PROVE  /\ store' \in [Keys -> Values \cup {None}]
         /\ store'[req[r].key] = req[r].val /\ store'[req[r].key] # None
         /\ \A k \in Keys \ {req[r].key} : store'[k] = store[k]
  BY AtWork, ConstantsAssumption DEF Apply, TypeOK

-----------------------------------------------------------------------------
\* A step keeps the types.
LEMMA TypeStep == TypeOK /\ [Next]_vars => TypeOK'
<1> SUFFICES ASSUME TypeOK, [Next]_vars PROVE TypeOK'
  OBVIOUS
<1>1. CASE UNCHANGED vars
  BY <1>1 DEF vars, TypeOK
<1>2. ASSUME NEW r \in Reqs, NEW k \in Keys, NEW v \in Values, Put(r, k, v)
      PROVE  TypeOK'
  <2>1. unsure' \subseteq Keys /\ made' \in Nat /\ UNCHANGED <<store, acked>>
    BY <1>2 DEF Put, TypeOK
  <2> QED
    BY <1>2, <2>1, PutFacts DEF TypeOK
<1>3. ASSUME NEW r \in Reqs, Reload(r) PROVE TypeOK'
  BY <1>3, GoOnFacts DEF Reload, TypeOK
<1>4. ASSUME NEW r \in Reqs, Repeat(r) PROVE TypeOK'
  <2>1. store' \in [Keys -> Values \cup {None}]
    BY <1>4, ApplyFacts DEF Repeat, TypeOK
  <2> QED
    BY <1>4, <2>1, GoOnFacts DEF Repeat, TypeOK
<1>5. ASSUME NEW r \in Reqs, Commit(r) PROVE TypeOK'
  <2>1. req[r] # None /\ req[r].key \in Keys /\ acked' \subseteq Keys
    BY <1>5, AtWork DEF Commit, TypeOK
  <2> QED
    BY <1>5, <2>1, ApplyFacts, EndFacts DEF Commit, TypeOK
<1>6. ASSUME NEW r \in Reqs, Fails(r) PROVE TypeOK'
  <2>1. req[r].key \in Keys /\ unsure' \subseteq Keys
    BY <1>6, AtWork DEF Fails, TypeOK
  <2> QED
    BY <1>6, <2>1, EndFacts DEF Fails, TypeOK
<1> QED
  BY <1>1, <1>2, <1>3, <1>4, <1>5, <1>6 DEF Next

\* A step keeps what was acknowledged.
LEMMA AckedStep == TypeOK /\ AckedIsFound /\ [Next]_vars => AckedIsFound'
<1> SUFFICES ASSUME TypeOK, AckedIsFound, [Next]_vars PROVE AckedIsFound'
  OBVIOUS
<1> USE DEF AckedIsFound
<1>1. CASE UNCHANGED vars
  BY <1>1 DEF vars
<1>2. ASSUME NEW r \in Reqs, NEW k \in Keys, NEW v \in Values, Put(r, k, v)
      PROVE  AckedIsFound'
  <2>1. UNCHANGED <<store, acked>>
    BY <1>2 DEF Put
  <2> QED
    BY <1>2, <2>1, PutFacts
<1>3. ASSUME NEW r \in Reqs, Reload(r) PROVE AckedIsFound'
  <2>1. UNCHANGED <<store, acked>>
    BY <1>3 DEF Reload
  <2> QED
    BY <1>3, <2>1, GoOnFacts
<1>4. ASSUME NEW r \in Reqs, Repeat(r) PROVE AckedIsFound'
  <2>1. \A k \in Keys : store[k] # None => store'[k] # None
    BY <1>4, ApplyFacts, AtWork DEF Repeat
  <2>2. UNCHANGED acked /\ acked \subseteq Keys
    BY <1>4 DEF Repeat, TypeOK
  <2>3. \A q \in Reqs : req[q] # None => req[q].key \in Keys
    BY AtWork
  <2>4. req'[r].pc = "update" => store[req[r].key] # None /\ req'[r].key = req[r].key
    BY <1>4, GoOnFacts
  <2>5. req[r] # None /\ \A q \in Reqs \ {r} : req'[q] = req[q]
    BY <1>4, GoOnFacts
  <2>6. ASSUME NEW q \in Reqs, req'[q] # None, req'[q].pc = "update"
        PROVE  store'[req'[q].key] # None
    BY <2>1, <2>3, <2>4, <2>5, <2>6
  <2> QED
    BY <2>1, <2>2, <2>6
<1>5. ASSUME NEW r \in Reqs, Commit(r) PROVE AckedIsFound'
  <2>1. store'[req[r].key] # None /\ \A k \in Keys : store[k] # None => store'[k] # None
    BY <1>5, ApplyFacts, AtWork DEF Commit
  <2>2. acked' = acked \cup {req[r].key} /\ acked \subseteq Keys
    BY <1>5 DEF Commit, TypeOK
  <2>3. \A q \in Reqs : req[q] # None => req[q].key \in Keys
    BY AtWork
  <2> QED
    BY <1>5, <2>1, <2>2, <2>3, EndFacts
<1>6. ASSUME NEW r \in Reqs, Fails(r) PROVE AckedIsFound'
  <2>1. UNCHANGED <<store, acked>>
    BY <1>6 DEF Fails
  <2> QED
    BY <1>6, <2>1, EndFacts
<1> QED
  BY <1>1, <1>2, <1>3, <1>4, <1>5, <1>6 DEF Next

\* A step keeps the puts that are alone with their key.
LEMMA AloneStep == TypeOK /\ Alone /\ [Next]_vars => Alone'
<1> SUFFICES ASSUME TypeOK, Alone, [Next]_vars PROVE Alone'
  OBVIOUS
<1>1. CASE UNCHANGED vars
  BY <1>1 DEF vars, Alone
<1>2. ASSUME NEW r \in Reqs, NEW k \in Keys, NEW v \in Values, Put(r, k, v)
      PROVE  Alone'
  <2>1. /\ req'[r] # None /\ req'[r].key = k /\ req'[r].val = v
        /\ \A q \in Reqs \ {r} : req'[q] = req[q]
        /\ last'[k] = v /\ \A j \in Keys \ {k} : last'[j] = last[j]
    BY <1>2, PutFacts
  <2>2. unsure \subseteq unsure'
    BY <1>2 DEF Put
  <2>3. ASSUME NEW q \in Reqs \ {r}, req[q] # None, req[q].key = k
        PROVE  k \in unsure'
    BY <1>2, <2>3 DEF Put, InFlight
  <2>4. \A q \in Reqs : req[q] # None => req[q].key \in Keys
    BY AtWork
  <2>5. ASSUME NEW p \in Reqs, req'[p] # None, req'[p].key \notin unsure'
        PROVE  /\ req'[p].val = last'[req'[p].key]
               /\ \A q \in Reqs \ {p} : req'[q] # None => req'[q].key # req'[p].key
    <3>1. CASE p = r
      BY <2>1, <2>3, <2>5, <3>1
    <3>2. CASE p # r
      <4>1. req'[p] = req[p] /\ req[p].key \in Keys \ {k}
        BY <2>1, <2>3, <2>4, <2>5, <3>2
      <4>2. /\ req[p].val = last[req[p].key]
            /\ \A q \in Reqs \ {p} : req[q] # None => req[q].key # req[p].key
        BY <2>2, <2>5, <4>1 DEF Alone
      <4> QED
        BY <2>1, <4>1, <4>2
    <3> QED
      BY <3>1, <3>2
  <2> QED
    BY <2>5 DEF Alone
<1>3. ASSUME NEW r \in Reqs, Reload(r) \/ Repeat(r) PROVE Alone'
  <2>1. UNCHANGED <<last, unsure>>
    BY <1>3 DEF Reload, Repeat
  <2>2. /\ req[r] # None
        /\ req'[r] # None /\ req'[r].key = req[r].key /\ req'[r].val = req[r].val
        /\ \A q \in Reqs \ {r} : req'[q] = req[q]
    BY <1>3, GoOnFacts
  <2>3. \A q \in Reqs : /\ (req'[q] # None) <=> (req[q] # None)
                        /\ req'[q].key = req[q].key /\ req'[q].val = req[q].val
    BY <2>2
  <2> QED
    BY <2>1, <2>3 DEF Alone
<1>4. ASSUME NEW r \in Reqs, Commit(r) \/ Fails(r) PROVE Alone'
  <2>1. last' = last /\ unsure \subseteq unsure'
    BY <1>4 DEF Commit, Fails
  <2> QED
    BY <1>4, <2>1, EndFacts DEF Alone
<1> QED
  BY <1>1, <1>2, <1>3, <1>4 DEF Next

\* A step keeps the last put of a key that is not in doubt.
LEMMA LastStep == PutInv /\ [Next]_vars => LastPutWins'
<1> SUFFICES ASSUME PutInv, [Next]_vars, NEW k \in Keys,
                    ~InFlight(k)', k \notin unsure'
             PROVE  store'[k] = last'[k]
  BY DEF LastPutWins
<1> USE DEF PutInv
<1>1. CASE UNCHANGED vars
  BY <1>1 DEF vars, LastPutWins, InFlight
<1>2. ASSUME NEW r \in Reqs, NEW j \in Keys, NEW v \in Values, Put(r, j, v)
      PROVE  store'[k] = last'[k]
  <2>1. k # j /\ ~InFlight(k)
    BY <1>2, PutFacts DEF InFlight
  <2>2. store' = store /\ last'[k] = last[k] /\ k \notin unsure
    BY <1>2, <2>1, PutFacts DEF Put
  <2> QED
    BY <2>1, <2>2 DEF LastPutWins
<1>3. ASSUME NEW r \in Reqs, Reload(r) \/ Repeat(r) PROVE store'[k] = last'[k]
  <2>1. ~InFlight(k) /\ req[r].key # k /\ req[r] # None
    BY <1>3, GoOnFacts DEF InFlight
  <2>2. last' = last /\ unsure' = unsure
    BY <1>3 DEF Reload, Repeat
  <2>3. store'[k] = store[k]
    BY <1>3, <2>1, ApplyFacts DEF Reload, Repeat
  <2> QED
    BY <2>1, <2>2, <2>3 DEF LastPutWins
<1>4. ASSUME NEW r \in Reqs, Commit(r) PROVE store'[k] = last'[k]
  <2>1. last' = last /\ unsure' = unsure /\ req[r] # None /\ Apply(r)
    BY <1>4 DEF Commit
  <2>2. CASE req[r].key = k
    BY <2>1, <2>2, ApplyFacts DEF Alone
  <2>3. CASE req[r].key # k
    <3>1. ~InFlight(k)
      BY <1>4, <2>3, EndFacts DEF InFlight
    <3> QED
      BY <2>1, <2>3, <3>1, ApplyFacts DEF LastPutWins
  <2> QED
    BY <2>2, <2>3
<1>5. ASSUME NEW r \in Reqs, Fails(r) PROVE store'[k] = last'[k]
  <2>1. /\ last' = last /\ store' = store
        /\ unsure \subseteq unsure' /\ req[r].key # k
    BY <1>5 DEF Fails
  <2>2. ~InFlight(k)
    BY <1>5, <2>1, EndFacts DEF InFlight
  <2> QED
    BY <2>1, <2>2 DEF LastPutWins
<1> QED
  BY <1>1, <1>2, <1>3, <1>4, <1>5 DEF Next

\* The initial states satisfy the inductive invariant.
LEMMA InitInv == Init => PutInv
  BY DEF Init, PutInv, TypeOK, AckedIsFound, Alone, LastPutWins, InFlight

\* Every step keeps the inductive invariant.
LEMMA InvStep == PutInv /\ [Next]_vars => PutInv'
  BY TypeStep, AckedStep, AloneStep, LastStep DEF PutInv

\* The inductive invariant holds throughout.
LEMMA Always == Spec => []PutInv
  BY InitInv, InvStep, PTL DEF Spec

-----------------------------------------------------------------------------
\* The rows, handlers and histories keep their types.
THEOREM TypeCorrect == Spec => []TypeOK
<1>1. PutInv => TypeOK
  BY DEF PutInv
<1> QED
  BY Always, <1>1, PTL

\* user_3rd_kv_get finds every key of which a put was answered with true.
THEOREM AckedKeysAreFound == Spec => []AckedIsFound
<1>1. PutInv => AckedIsFound
  BY DEF PutInv
<1> QED
  BY Always, <1>1, PTL

\* Without overlapping or failed puts of a key its value is the last one put,
\* however often a put is repeated.
THEOREM LastPutsWin == Spec => []LastPutWins
<1>1. PutInv => LastPutWins
  BY DEF PutInv
<1> QED
  BY Always, <1>1, PTL

-----------------------------------------------------------------------------
\* The put under way that a handler stands for.
Shown(r) == IF req[r] = None THEN None ELSE [key |-> req[r].key, val |-> req[r].val]

\* A handler at work stands for a put.
LEMMA ShownFacts ==
  ASSUME TypeOK, NEW r \in Reqs
  PROVE  /\ (Shown(r) = None) <=> (req[r] = None)
         /\ req[r] # None => Shown(r).key = req[r].key /\ Shown(r).val = req[r].val
<1>1. CASE req[r] = None
  BY <1>1 DEF Shown
<1>2. CASE req[r] # None
  <2> DEFINE put == [key |-> req[r].key, val |-> req[r].val]
  <2>1. put \in [key: Keys, val: Values]
    BY <1>2, AtWork
  <2>2. put # None
    BY <2>1, NoneAssumption
  <2> QED
    BY <1>2, <2>2 DEF Shown
<1> QED
  BY <1>1, <1>2

\* A step of the handlers is a step of the map or none.
LEMMA MapStep == TypeOK /\ [Next]_vars => [Map!Next]_(Map!vars)
<1> DEFINE puts == [r \in Reqs |-> Shown(r)]
<1> SUFFICES ASSUME TypeOK, [Next]_vars PROVE [Map!Next]_(Map!vars)
  OBVIOUS
<1>1. CASE UNCHANGED vars
  BY <1>1 DEF vars, Map!vars
<1>2. ASSUME NEW r \in Reqs, NEW k \in Keys, NEW v \in Values, Put(r, k, v)
      PROVE  Map!Next
  <2>1. puts[r] = None
    BY <1>2, PutFacts DEF Shown
  <2>2. /\ req'[r] # None /\ req'[r].key = k /\ req'[r].val = v
        /\ \A q \in Reqs \ {r} : req'[q] = req[q]
    BY <1>2, PutFacts
  <2>3. Shown(r)' = [key |-> k, val |-> v]
    BY <2>2 DEF Shown
  <2>4. \A q \in Reqs \ {r} : Shown(q)' = Shown(q)
    BY <2>2 DEF Shown
  <2>5. puts' = [puts EXCEPT ![r] = [key |-> k, val |-> v]]
    BY <2>3, <2>4
  <2>6. Map!Begin(r, k, v)
    BY <1>2, <2>1, <2>5 DEF Put, Map!Begin, Shown
  <2> QED
    BY <2>6 DEF Map!Next
<1>3. ASSUME NEW r \in Reqs, Reload(r) \/ Repeat(r) PROVE puts' = puts
  BY <1>3, GoOnFacts DEF Shown
<1>4. ASSUME NEW r \in Reqs, Commit(r) \/ Fails(r)
      PROVE  puts' = [puts EXCEPT ![r] = None]
  BY <1>4, EndFacts DEF Shown
<1>5. ASSUME NEW r \in Reqs, Reload(r) PROVE UNCHANGED Map!vars
  BY <1>3, <1>5 DEF Reload, Map!vars, Shown
<1>6. ASSUME NEW r \in Reqs, Repeat(r) PROVE Map!Next \/ UNCHANGED Map!vars
  <2>1. acked' = acked /\ req[r] # None
    BY <1>6 DEF Repeat
  <2>2. CASE store' = store
    BY <1>3, <1>6, <2>1, <2>2 DEF Map!vars, Shown
  <2>3. CASE Apply(r)
    <3>1. puts[r] # None /\ puts[r].key = req[r].key /\ puts[r].val = req[r].val
      BY <2>1, ShownFacts
    <3>2. Map!Effect(r)
      BY <1>3, <1>6, <2>1, <2>3, <3>1 DEF Map!Effect, Shown, Apply
    <3> QED
      BY <3>2 DEF Map!Next
  <2> QED
    BY <1>6, <2>2, <2>3 DEF Repeat
<1>7. ASSUME NEW r \in Reqs, Commit(r) PROVE Map!Next
  <2>1. req[r] # None /\ Apply(r) /\ acked' = acked \cup {req[r].key}
    BY <1>7 DEF Commit
  <2>2. puts[r] # None /\ puts[r].key = req[r].key /\ puts[r].val = req[r].val
    BY <2>1, ShownFacts
  <2>3. Map!EffectAndEnd(r)
    BY <1>4, <1>7, <2>1, <2>2 DEF Map!EffectAndEnd, Shown, Apply
  <2> QED
    BY <2>3 DEF Map!Next
<1>8. ASSUME NEW r \in Reqs, Fails(r) PROVE Map!Next
  <2>1. req[r] # None /\ UNCHANGED <<store, acked>>
    BY <1>8 DEF Fails
  <2>2. puts[r] # None
    BY <2>1, ShownFacts
  <2>3. Map!Fail(r)
    BY <1>4, <1>8, <2>1, <2>2 DEF Map!Fail, Shown
  <2> QED
    BY <2>3 DEF Map!Next
<1> QED
  BY <1>1, <1>2, <1>5, <1>6, <1>7, <1>8 DEF Next

\* The handlers implement the map: whatever the repetitions and failures, a
\* value is there because of a put under way, and an answer with true means
\* that the put took effect.
THEOREM ImplementsMap == Spec => MapSpec
<1>1. Init => Map!Init
  BY DEF Init, Map!Init
<1> QED
  BY <1>1, TypeCorrect, MapStep, PTL DEF Spec, MapSpec, Map!Spec

-----------------------------------------------------------------------------
(* IndexPage *)

\* A set of naturals has a least element.
LEMMA Least ==
  ASSUME NEW T, T \subseteq Nat, T # {}
  PROVE  \E x \in T : \A y \in T : x <= y
<1> DEFINE R == OpToRel(<, Nat)
<1>1. IsWellFoundedOn(R, Nat)
  BY NatLessThanWellFounded, Zenon
<1>2. \A x, y \in Nat : x < y => <<x, y>> \in R
  BY DEF OpToRel
<1> HIDE DEF R
<1>3. PICK x \in T : \A y \in T : ~(<<y, x>> \in R)
  BY <1>1, WFMin
<1>4. ASSUME NEW y \in T PROVE x <= y
  <2>1. ~(y < x) /\ x \in Nat /\ y \in Nat
    BY <1>2, <1>3
  <2> QED
    BY <2>1
<1> QED
  BY <1>4

\* A set of naturals that is bounded has a greatest element, which is the
\* least of its bounds: what load_max_order reads is there.
LEMMA Greatest ==
  ASSUME NEW T, T \subseteq Nat, T # {}, NEW n \in Nat, \A x \in T : x <= n
  PROVE  Pg!Max(T) \in T /\ \A x \in T : x <= Pg!Max(T)
<1> DEFINE U == {m \in Nat : \A x \in T : x <= m}
<1>1. U \subseteq Nat /\ U # {}
  OBVIOUS
<1>2. PICK m \in U : \A y \in U : m <= y
  BY <1>1, Least
<1>3. m \in Nat /\ \A x \in T : x <= m /\ x \in Nat
  OBVIOUS
<1>4. m \in T
  <2> SUFFICES ASSUME m \notin T PROVE FALSE
    OBVIOUS
  <2>1. \A x \in T : x < m
    BY <1>3
  <2>2. PICK x \in T : TRUE
    OBVIOUS
  <2>3. m - 1 \in Nat /\ \A y \in T : y <= m - 1
    BY <1>3, <2>1, <2>2
  <2>4. m - 1 \in U /\ ~(m <= m - 1)
    BY <1>3, <2>3
  <2> QED
    BY <1>2, <2>4
<1>5. \E x \in T : \A y \in T : x >= y
  BY <1>3, <1>4
<1>6. PICK x \in T : x = Pg!Max(T) /\ \A y \in T : x >= y
  BY <1>5 DEF Pg!Max
<1> QED
  BY <1>3, <1>6

\* What handler h knows of the rows R when n ids are given: the place of an
\* add is above all of them until others are inserted, and a set means to
\* delete all of them but the ones that have come since.
Knows(h, R, n) ==
  /\ h.pc \in {"max", "add"} => h.list # <<>>
  /\ h.pc = "insert" => h.op = "set"
  /\ h.pc = "add" => h.order <= n + 1
  /\ h.pc = "add" /\ h.since = {} /\ ~h.tried => \A x \in R : x.order < h.order
  /\ h.pc \in {"delete", "insert"} /\ h.op = "set" =>
       \A x \in R \ h.seen : x.id \in h.since

\* No row has an id or a position that was not given.
RowsBounded == \A x \in page : x.id <= pageId /\ x.order <= pageId

\* The inductive invariant
PageInv ==
  /\ Pg!TypeOK /\ RowsBounded /\ Pg!PositionsDistinct
  /\ \A r \in Reqs : Knows(pageReq[r], page, pageId)

LEMMA PgIdle ==
  /\ Pg!Idle \in Pg!Handler /\ Pg!Idle.pc = "idle"
  /\ \A R, n : Knows(Pg!Idle, R, n)
<1>1. Pg!Idle \in Pg!Handler
  BY DEF Pg!Idle, Pg!Handler
<1> QED
  BY <1>1 DEF Pg!Idle, Knows

LEMMA PgParts ==
  ASSUME PageInv
  PROVE  /\ pageReq \in [Reqs -> Pg!Handler] /\ page \subseteq Pg!Row /\ pageId \in Nat
         /\ \A r \in Reqs : pageReq[r] \in Pg!Handler /\ Knows(pageReq[r], page, pageId)
         /\ \A x \in page : /\ x.id \in Nat /\ x.order \in Nat
                            /\ x.id <= pageId /\ x.order <= pageId
<1>1. pageReq \in [Reqs -> Pg!Handler] /\ page \subseteq Pg!Row /\ pageId \in Nat
  BY DEF PageInv, Pg!TypeOK
<1> QED
  BY <1>1 DEF PageInv, RowsBounded, Pg!Row

\* Rows go: what a handler knows of the others stays true.
LEMMA FewerRows ==
  ASSUME NEW h \in Pg!Handler, NEW R, NEW S \in SUBSET R, NEW n \in Nat, Knows(h, R, n)
  PROVE  Knows(h, S, n)
  BY DEF Knows

\* Rows come, and the handler takes notice of their ids.
LEMMA MoreRows ==
  ASSUME NEW h \in Pg!Handler, NEW R, NEW N, NEW S, S \subseteq R \cup N,
         NEW ids, ids \subseteq Nat, \A x \in N : x.id \in ids,
         NEW n \in Nat, NEW m \in Nat, n <= m, Knows(h, R, n)
  PROVE  LET k == [h EXCEPT !.since = @ \cup ids]
         IN  k \in Pg!Handler /\ k.pc = h.pc /\ Knows(k, S, m)
<1> DEFINE k == [h EXCEPT !.since = @ \cup ids]
<1>1. /\ k \in Pg!Handler /\ k.pc = h.pc /\ k.op = h.op /\ k.list = h.list /\ k.seen = h.seen
      /\ k.order = h.order /\ k.tried = h.tried /\ k.since = h.since \cup ids
      /\ h.order \in Nat
  BY DEF Pg!Handler
<1> HIDE DEF k
<1>2. k.since = {} => h.since = {} /\ S \subseteq R
  BY <1>1
<1>3. k.pc = "add" => k.order <= m + 1
  BY <1>1 DEF Knows
<1>4. k.pc = "add" /\ k.since = {} /\ ~k.tried => \A x \in S : x.order < k.order
  BY <1>1, <1>2 DEF Knows
<1>5. k.pc \in {"delete", "insert"} /\ k.op = "set" =>
        \A x \in S \ k.seen : x.id \in k.since
  BY <1>1 DEF Knows
<1>6. Knows(k, S, m)
  BY <1>1, <1>3, <1>4, <1>5 DEF Knows
<1> QED
  BY <1>1, <1>6 DEF k

\* Handler r becomes h, and no row comes.
LEMMA PgTurns ==
  ASSUME PageInv, NEW r \in Reqs, NEW h \in Pg!Handler, pageReq' = [pageReq EXCEPT ![r] = h],
         page' \subseteq page, UNCHANGED <<pageId, crowded>>, Knows(h, page', pageId),
         offered' \subseteq Goods, pageCalls' \in Nat
  PROVE  PageInv'
<1>1. /\ pageReq' \in [Reqs -> Pg!Handler] /\ pageReq'[r] = h
      /\ \A q \in Reqs \ {r} : pageReq'[q] = pageReq[q]
  BY PgParts
<1>2. \A q \in Reqs : Knows(pageReq'[q], page', pageId)
  BY <1>1, PgParts, FewerRows
<1>3. \A q \in Reqs : Knows(pageReq[q], page, pageId)'
  BY <1>2 DEF Knows
<1>4. Pg!TypeOK'
  BY <1>1 DEF PageInv, Pg!TypeOK
<1>5. RowsBounded' /\ Pg!PositionsDistinct'
  BY DEF PageInv, RowsBounded, Pg!PositionsDistinct
<1> QED
  BY <1>3, <1>4, <1>5 DEF PageInv

LEMMA PgArrive ==
  ASSUME PageInv, NEW r \in Reqs, NEW op \in {"set", "add", "remove"},
         NEW pc \in {"delete", "max"}, NEW list \in Seq(Goods), NEW seen \in SUBSET page,
         pc = "max" => list # <<>>, op = "set" => seen = page, Pg!Arrive(r, op, pc, list, seen)
  PROVE  PageInv'
<1> DEFINE h == [Pg!Idle EXCEPT !.pc = pc, !.op = op, !.list = list, !.seen = seen]
<1>1. seen \in SUBSET Pg!Row
  BY PgParts
<1>2. h \in Pg!Handler /\ h.pc = pc /\ h.op = op /\ h.list = list /\ h.seen = seen
  BY <1>1 DEF Pg!Handler, Pg!Idle
<1>3. /\ pageReq' = [pageReq EXCEPT ![r] = h] /\ UNCHANGED <<page, pageId, offered, crowded>>
      /\ pageCalls' = pageCalls + 1
  BY DEF Pg!Arrive
<1> HIDE DEF h
<1>4. Knows(h, page', pageId)
  BY <1>2, <1>3 DEF Knows
<1>5. offered' \subseteq Goods /\ pageCalls' \in Nat
  BY <1>3 DEF PageInv, Pg!TypeOK
<1> QED
  BY <1>2, <1>3, <1>4, <1>5, PgTurns

LEMMA PgFinish ==
  ASSUME PageInv, NEW r \in Reqs, Pg!Finish(r), page' \subseteq page,
         UNCHANGED <<pageId, offered, pageCalls, crowded>>
  PROVE  PageInv'
<1>1. offered' \subseteq Goods /\ pageCalls' \in Nat
  BY DEF PageInv, Pg!TypeOK
<1> QED
  BY <1>1, PgIdle, PgTurns DEF Pg!Finish

LEMMA PgDeleteAll ==
  ASSUME PageInv, NEW r \in Reqs, Pg!DeleteAll(r)
  PROVE  PageInv'
<1> DEFINE h == pageReq[r]
           k == [h EXCEPT !.pc = "insert", !.seen = @ \cap page]
<1>1. /\ h \in Pg!Handler /\ h.pc = "delete" /\ h.op = "set" /\ Knows(h, page, pageId)
      /\ UNCHANGED <<page, pageId, offered, pageCalls, crowded>>
  BY PgParts DEF Pg!DeleteAll
<1>2. pageReq' = [pageReq EXCEPT ![r] = k] \/ pageReq' = [pageReq EXCEPT ![r] = Pg!Idle]
  BY DEF Pg!DeleteAll
<1>3. /\ k \in Pg!Handler /\ k.pc = "insert" /\ k.op = "set" /\ k.seen = h.seen \cap page
      /\ k.since = h.since
  BY <1>1 DEF Pg!Handler
<1> HIDE DEF k
<1>4. Knows(k, page', pageId)
  BY <1>1, <1>3 DEF Knows
<1>5. offered' \subseteq Goods /\ pageCalls' \in Nat
  BY <1>1 DEF PageInv, Pg!TypeOK
<1> QED
  BY <1>1, <1>2, <1>3, <1>4, <1>5, PgIdle, PgTurns

\* The position that is read is above all of the rows.
LEMMA PgLoadMaxOrder ==
  ASSUME PageInv, NEW r \in Reqs, Pg!LoadMaxOrder(r)
  PROVE  PageInv'
<1> DEFINE h == pageReq[r]
           T == {x.order : x \in page} \cup {0}
           k == [h EXCEPT !.pc = "add", !.since = {}, !.order = Pg!Max(T) + 1]
<1>1. /\ h \in Pg!Handler /\ h.pc = "max" /\ Knows(h, page, pageId) /\ pageId \in Nat
      /\ UNCHANGED <<page, pageId, offered, pageCalls, crowded>>
      /\ pageReq' = [pageReq EXCEPT ![r] = k]
  BY PgParts DEF Pg!LoadMaxOrder
<1>2. T \subseteq Nat /\ T # {} /\ \A x \in T : x <= pageId
  BY <1>1, PgParts
<1>3. Pg!Max(T) \in T /\ \A x \in T : x <= Pg!Max(T)
  BY <1>1, <1>2, Greatest
<1>4. \A x \in page : x.order \in T
  OBVIOUS
<1> HIDE DEF T
<1>5. /\ Pg!Max(T) + 1 \in Nat /\ Pg!Max(T) + 1 <= pageId + 1
      /\ \A x \in page : x.order < Pg!Max(T) + 1
  BY <1>1, <1>2, <1>3, <1>4, PgParts
<1>6. /\ k \in Pg!Handler /\ k.pc = "add" /\ k.list = h.list /\ k.since = {}
      /\ k.order = Pg!Max(T) + 1
  BY <1>1, <1>5 DEF Pg!Handler
<1> HIDE DEF k
<1>7. Knows(k, page', pageId)
  BY <1>1, <1>5, <1>6 DEF Knows
<1>8. offered' \subseteq Goods /\ pageCalls' \in Nat
  BY <1>1 DEF PageInv, Pg!TypeOK
<1> QED
  BY <1>1, <1>6, <1>7, <1>8, PgTurns

\* Rows N come to the rows that stay, and the others take notice of it.
LEMMA PgNoticed ==
  ASSUME PageInv, NEW r \in Reqs, NEW N, NEW S, S \subseteq page \cup N, NEW ids,
         ids \subseteq Nat, \A x \in N : x.id \in ids, NEW m \in Nat, pageId <= m, NEW new \in Pg!Handler,
         Knows(new, S, m), Pg!Noticed(r, ids, new)
  PROVE  pageReq' \in [Reqs -> Pg!Handler] /\ \A q \in Reqs : Knows(pageReq'[q], S, m)
<1>1. ASSUME NEW q \in Reqs PROVE pageReq'[q] \in Pg!Handler /\ Knows(pageReq'[q], S, m)
  <2>1. CASE q = r
    BY <2>1 DEF Pg!Noticed
  <2>2. CASE q # r /\ pageReq[q].pc = "idle"
    BY <2>2, PgIdle DEF Pg!Noticed
  <2>3. CASE q # r /\ pageReq[q].pc # "idle"
    <3>1. pageReq'[q] = [pageReq[q] EXCEPT !.since = @ \cup ids]
      BY <2>3 DEF Pg!Noticed
    <3>2. pageReq[q] \in Pg!Handler /\ Knows(pageReq[q], page, pageId) /\ pageId \in Nat
      BY PgParts
    <3> DEFINE k == [pageReq[q] EXCEPT !.since = @ \cup ids]
    <3>3. k \in Pg!Handler /\ Knows(k, S, m)
      BY <3>2, MoreRows
    <3> QED
      BY <3>1, <3>3
  <2> QED
    BY <2>1, <2>2, <2>3
<1>2. pageReq' = [q \in Reqs |-> pageReq'[q]]
  BY DEF Pg!Noticed
<1> QED
  BY <1>1, <1>2

\* The rows of a list have new ids and different positions.
LEMMA RowsOfFacts ==
  ASSUME NEW list \in Seq(Goods), NEW n \in Nat
  PROVE  LET N == Pg!RowsOf(list, n)
         IN  /\ N \subseteq Pg!Row
             /\ \A x \in N : /\ x.id \in Nat /\ x.id > n /\ x.id <= n + Len(list)
                             /\ x.order \in Nat /\ x.order <= n + Len(list)
             /\ \A x, y \in N : x.id = y.id \/ x.order = y.order => x = y
<1> DEFINE N == Pg!RowsOf(list, n)
           R(i) == [id |-> n + i, goods |-> list[i], order |-> i - 1]
<1>1. Len(list) \in Nat /\ DOMAIN list = 1..Len(list)
  OBVIOUS
<1>2. ASSUME NEW i \in DOMAIN list
      PROVE  /\ R(i) \in Pg!Row /\ R(i).id = n + i /\ R(i).order = i - 1
             /\ i \in Nat /\ i >= 1 /\ i <= Len(list)
  <2>1. i \in Nat /\ i >= 1 /\ i <= Len(list) /\ list[i] \in Goods
    BY <1>1
  <2>2. n + i \in Nat /\ i - 1 \in Nat
    BY <2>1
  <2> QED
    BY <2>1, <2>2 DEF Pg!Row
<1>3. N = {R(i) : i \in DOMAIN list}
  BY DEF Pg!RowsOf
<1> HIDE DEF N, R
<1>4. N \subseteq Pg!Row
  BY <1>2, <1>3
<1>5. \A x \in N : /\ x.id \in Nat /\ x.id > n /\ x.id <= n + Len(list)
                   /\ x.order \in Nat /\ x.order <= n + Len(list)
  BY <1>1, <1>2, <1>3
<1>6. \A x, y \in N : x.id = y.id \/ x.order = y.order => x = y
  <2> SUFFICES ASSUME NEW i \in DOMAIN list, NEW j \in DOMAIN list,
                      R(i).id = R(j).id \/ R(i).order = R(j).order
               PROVE  R(i) = R(j)
    BY <1>3
  <2>1. i = j
    BY <1>2
  <2> QED
    BY <2>1
<1> QED
  BY <1>4, <1>5, <1>6 DEF N

\* Rows with new ids come to the rows that stay.
LEMMA PgRowsCome ==
  ASSUME PageInv, NEW N, N \subseteq Pg!Row, NEW S, S \subseteq page, page' = S \cup N,
         pageId' \in Nat, pageId <= pageId', pageId' <= MaxRows,
         \A x \in N : x.id > pageId /\ x.id <= pageId' /\ x.order <= pageId',
         \A x, y \in N : x.id = y.id => x = y,
         pageReq' \in [Reqs -> Pg!Handler], \A q \in Reqs : Knows(pageReq'[q], page', pageId'),
         UNCHANGED <<offered, pageCalls>>, crowded' \subseteq Nat, Pg!PositionsDistinct'
  PROVE  PageInv'
<1>1. page' \subseteq Pg!Row
  BY PgParts
<1>2. ASSUME NEW x \in page', NEW y \in page', x.id = y.id PROVE x = y
  <2>1. CASE x \in page /\ y \in page
    BY <1>2, <2>1 DEF PageInv, Pg!TypeOK
  <2>2. CASE x \in N /\ y \in N
    BY <1>2, <2>2
  <2>3. CASE (x \in page /\ y \in N) \/ (x \in N /\ y \in page)
    <3>1. x.id \in Nat /\ y.id \in Nat
      BY <1>1 DEF Pg!Row
    <3> QED
      BY <1>2, <2>3, <3>1, PgParts
  <2> QED
    BY <2>1, <2>2, <2>3
<1>3. RowsBounded'
  <2>1. ASSUME NEW x \in page' PROVE x.id <= pageId' /\ x.order <= pageId'
    <3>1. CASE x \in N
      BY <3>1
    <3>2. CASE x \in page
      BY <3>2, PgParts
    <3> QED
      BY <3>1, <3>2
  <2> QED
    BY <2>1 DEF RowsBounded
<1>4. \A q \in Reqs : Knows(pageReq[q], page, pageId)'
  BY DEF Knows
<1>5. pageId' \in 0..MaxRows
  <2>1. pageId \in 0..MaxRows
    BY DEF PageInv, Pg!TypeOK
  <2> QED
    BY <2>1
<1>6. Pg!TypeOK'
  BY <1>1, <1>2, <1>5 DEF PageInv, Pg!TypeOK
<1> QED
  BY <1>3, <1>4, <1>6 DEF PageInv

LEMMA PgCommitSet ==
  ASSUME PageInv, NEW r \in Reqs, Pg!CommitSet(r)
  PROVE  PageInv'
<1> DEFINE h == pageReq[r]
           S == page \ h.seen
           N == Pg!RowsOf(h.list, pageId)
           m == pageId + Len(h.list)
           ids == {x.id : x \in N}
           left == {x.id : x \in S}
<1>1. /\ h \in Pg!Handler /\ h.list \in Seq(Goods) /\ pageId \in Nat /\ Len(h.list) \in Nat
  BY PgParts DEF Pg!Handler
<1>2. /\ m <= MaxRows /\ page' = S \cup N /\ pageId' = m /\ Pg!Noticed(r, ids, Pg!Idle)
      /\ crowded' = crowded \cup left /\ UNCHANGED <<offered, pageCalls>>
  BY DEF Pg!CommitSet
<1>3. /\ N \subseteq Pg!Row
      /\ \A x \in N : /\ x.id \in Nat /\ x.id > pageId /\ x.id <= m
                      /\ x.order \in Nat /\ x.order <= m
      /\ \A x, y \in N : x.id = y.id \/ x.order = y.order => x = y
  BY <1>1, RowsOfFacts
<1>4. m \in Nat /\ pageId <= m
  BY <1>1
<1>5. ids \subseteq Nat /\ \A x \in N : x.id \in ids
  BY <1>3
<1>6. left \subseteq Nat /\ \A x \in S : x.id \in left
  BY PgParts
<1> HIDE DEF N, m, ids, left
<1>7. pageReq' \in [Reqs -> Pg!Handler] /\ \A q \in Reqs : Knows(pageReq'[q], page', m)
  <2>1. page' \subseteq page \cup N
    BY <1>2
  <2> QED
    BY <1>2, <1>4, <1>5, <2>1, PgIdle, PgNoticed
<1>8. Pg!PositionsDistinct'
  <2> SUFFICES ASSUME NEW x \in page', NEW y \in page', x.order = y.order, x # y
               PROVE  x.id \in crowded' \/ y.id \in crowded'
    BY DEF Pg!PositionsDistinct
  <2> QED
    BY <1>2, <1>3, <1>6
<1>9. crowded' \subseteq Nat
  BY <1>2, <1>6 DEF PageInv, Pg!TypeOK
<1> QED
  BY <1>2, <1>3, <1>4, <1>7, <1>8, <1>9, PgRowsCome

LEMMA PgInsertOne ==
  ASSUME Pg!ConstantsAssumption, PageInv, NEW r \in Reqs, Pg!InsertOne(r)
  PROVE  PageInv'
<1> DEFINE h == pageReq[r]
           n == pageId + 1
           x == [id |-> n, goods |-> h.list[1], order |-> h.order]
           k == [h EXCEPT !.tried = TRUE]
<1>1. /\ h \in Pg!Handler /\ h.pc = "add" /\ pageId \in Nat /\ n \in Nat /\ pageId < n
      /\ Knows(h, page, pageId) /\ h.list \in Seq(Goods) /\ h.order \in Nat
  BY PgParts DEF Pg!InsertOne, Pg!Handler
<1>2. h.list # <<>> /\ h.order <= n
  BY <1>1 DEF Knows
<1>3. h.list[1] \in Goods
  BY <1>1, <1>2
<1>4. x \in Pg!Row /\ x.id = n /\ x.order = h.order
  BY <1>1, <1>3 DEF Pg!Row
<1>5. /\ pageId < MaxRows /\ pageId' = n /\ page' = page \cup {x}
      /\ Pg!Noticed(r, {x.id}, Pg!Idle) \/ Pg!Noticed(r, {x.id}, k)
      /\ crowded' = IF h.since = {} /\ ~h.tried THEN crowded ELSE crowded \cup {x.id}
      /\ UNCHANGED <<offered, pageCalls>>
  BY DEF Pg!InsertOne
<1>6. /\ k \in Pg!Handler /\ k.pc = "add" /\ k.list = h.list /\ k.order = h.order
      /\ k.tried = TRUE
  BY <1>1 DEF Pg!Handler
<1> HIDE DEF x, k
<1>7. Knows(k, page', n)
  <2>1. k.order <= n + 1
    BY <1>1, <1>2, <1>6
  <2> QED
    BY <1>2, <1>6, <2>1 DEF Knows
<1>8. pageReq' \in [Reqs -> Pg!Handler] /\ \A q \in Reqs : Knows(pageReq'[q], page', n)
  <2>1. /\ page' \subseteq page \cup {x} /\ {x.id} \subseteq Nat /\ \A y \in {x} : y.id \in {x.id}
        /\ pageId <= n
    BY <1>1, <1>4, <1>5
  <2> QED
    BY <1>1, <1>5, <1>6, <1>7, <2>1, PgIdle, PgNoticed
<1>9. Pg!PositionsDistinct'
  <2> SUFFICES ASSUME NEW y \in page', NEW z \in page', y.order = z.order, y # z
               PROVE  y.id \in crowded' \/ z.id \in crowded'
    BY DEF Pg!PositionsDistinct
  <2>1. CASE y \in page /\ z \in page
    BY <1>5, <2>1 DEF PageInv, Pg!PositionsDistinct
  <2>2. CASE y = x \/ z = x
    <3>1. CASE h.since = {} /\ ~h.tried
      <4>1. \A w \in page : w.order < x.order
        BY <1>1, <1>4, <3>1 DEF Knows
      <4> QED
        BY <1>5, <1>1, <1>4, <2>2, <4>1, PgParts
    <3>2. CASE ~(h.since = {} /\ ~h.tried)
      BY <1>5, <2>2, <3>2
    <3> QED
      BY <3>1, <3>2
  <2> QED
    BY <1>5, <2>1, <2>2
<1>10. crowded' \subseteq Nat
  BY <1>1, <1>4, <1>5 DEF PageInv, Pg!TypeOK
<1>11. n <= MaxRows
  BY <1>1, <1>5 DEF Pg!ConstantsAssumption
<1>12. /\ {x} \subseteq Pg!Row /\ page \subseteq page /\ page' = page \cup {x}
       /\ \A y \in {x} : y.id > pageId /\ y.id <= n /\ y.order <= n
       /\ \A y, z \in {x} : y.id = z.id => y = z
  BY <1>1, <1>2, <1>4, <1>5
<1> HIDE DEF n, h
<1>13. pageId' = n
  BY <1>5
<1>14. pageId' \in Nat /\ pageId <= pageId' /\ pageId' <= MaxRows
  BY <1>1, <1>11, <1>13
<1>15. \A y \in {x} : y.id > pageId /\ y.id <= pageId' /\ y.order <= pageId'
  BY <1>12, <1>13
<1>16. \A q \in Reqs : Knows(pageReq'[q], page', pageId')
  BY <1>8, <1>13
<1> QED
  BY <1>5, <1>8, <1>9, <1>10, <1>12, <1>14, <1>15, <1>16, PgRowsCome

LEMMA PageInvariant == Pg!ConstantsAssumption /\ Pg!Spec => []PageInv
<1> SUFFICES ASSUME Pg!ConstantsAssumption PROVE Pg!Spec => []PageInv
  OBVIOUS
<1>1. Pg!Init => PageInv
  <2> SUFFICES ASSUME Pg!Init PROVE PageInv
    OBVIOUS
  <2>1. /\ pageReq \in [Reqs -> Pg!Handler] /\ \A r \in Reqs : pageReq[r] = Pg!Idle
        /\ page = {} /\ pageId = 0
    BY PgIdle DEF Pg!Init
  <2>2. pageId \in 0..MaxRows
    BY <2>1 DEF Pg!ConstantsAssumption
  <2>3. Pg!TypeOK
    BY <2>1, <2>2 DEF Pg!Init, Pg!TypeOK
  <2>4. \A r \in Reqs : Knows(pageReq[r], page, pageId)
    BY <2>1, PgIdle
  <2> QED
    BY <2>1, <2>3, <2>4 DEF PageInv, RowsBounded, Pg!PositionsDistinct
<1>2. PageInv /\ [Pg!Next]_(Pg!vars) => PageInv'
  <2> SUFFICES ASSUME PageInv, [Pg!Next]_(Pg!vars) PROVE PageInv'
    OBVIOUS
  <2>1. ASSUME NEW r \in Reqs, NEW l \in Lists, Pg!SetIndexGoods(r, l) PROVE PageInv'
    <3>1. l \in Seq(Goods) /\ page \in SUBSET page
      BY DEF Pg!ConstantsAssumption
    <3> QED
      BY <2>1, <3>1, PgArrive DEF Pg!SetIndexGoods
  <2>2. ASSUME NEW r \in Reqs, NEW g \in Goods, Pg!RemoveIndexGoods(r, g) PROVE PageInv'
    <3>1. <<g>> \in Seq(Goods) /\ {x \in page : x.goods = g} \in SUBSET page
      OBVIOUS
    <3> QED
      BY <2>2, <3>1, PgArrive DEF Pg!RemoveIndexGoods
  <2>3. ASSUME NEW r \in Reqs, NEW g \in Goods, Pg!AddIndexGoods(r, g) PROVE PageInv'
    <3>1. <<g>> \in Seq(Goods) /\ <<g>> # <<>> /\ {} \in SUBSET page
      OBVIOUS
    <3> QED
      BY <2>3, <3>1, PgArrive DEF Pg!AddIndexGoods
  <2>4. ASSUME NEW r \in Reqs, Pg!DeleteOne(r) PROVE PageInv'
    BY <2>4, PgFinish DEF Pg!DeleteOne
  <2>5. ASSUME NEW r \in Reqs, Pg!Throws(r) PROVE PageInv'
    BY <2>5, PgFinish DEF Pg!Throws
  <2>6. ASSUME NEW g \in Goods, Pg!Push(g) PROVE PageInv'
    <3>1. offered' \subseteq Goods /\ UNCHANGED <<page, pageId, pageReq, pageCalls, crowded>>
      BY <2>6 DEF Pg!Push, PageInv, Pg!TypeOK
    <3> QED
      BY <3>1 DEF PageInv, Pg!TypeOK, RowsBounded, Pg!PositionsDistinct, Knows
  <2>7. CASE UNCHANGED Pg!vars
    BY <2>7 DEF PageInv, Pg!TypeOK, RowsBounded, Pg!PositionsDistinct, Knows, Pg!vars
  <2> QED
    BY <2>1, <2>2, <2>3, <2>4, <2>5, <2>6, <2>7, PgDeleteAll, PgCommitSet, PgLoadMaxOrder,
       PgInsertOne
    DEF Pg!Next
<1> QED
  BY <1>1, <1>2, PTL DEF Pg!Spec

\* admin_add_index_goods: two goods have the same position on the index page
\* only if one of them was added while others came or the page was set, or
\* was inserted twice, for any number of goods, lists and handlers.
THEOREM PagePositions == Pg!Spec => []PositionsDistinct
<1>1. PageInv => PositionsDistinct
  BY DEF PageInv, PositionsDistinct
<1> QED
  BY <1>1, PageInvariant, ShopAssumption, PTL

\* admin_set_index_goods: a set that is committed leaves its list and rows
\* that were inserted while it was under way, and none of an older set,
\* whatever deletes, sets and adds overlap it.
THEOREM SetsReplace == Pg!Spec => SetReplaces
<1> DEFINE A == \A r \in Reqs :
                  pageReq[r].pc = "insert" /\ page' # page /\ pageReq'[r].pc = "idle" =>
                    \A x \in page' : x.id <= pageId => x.id \in pageReq[r].since
<1>1. PageInv /\ [Pg!Next]_(Pg!vars) => [A]_(Pg!vars)
  <2> SUFFICES ASSUME PageInv, Pg!Next, NEW r \in Reqs, pageReq[r].pc = "insert", page' # page,
                      pageReq'[r].pc = "idle", NEW x \in page', x.id <= pageId
               PROVE  x.id \in pageReq[r].since
    BY DEF A
  <2>1. PICK q \in Reqs : Pg!DeleteOne(q) \/ Pg!CommitSet(q) \/ Pg!InsertOne(q)
    BY DEF Pg!Next, Pg!SetIndexGoods, Pg!RemoveIndexGoods, Pg!AddIndexGoods, Pg!Arrive,
           Pg!DeleteAll, Pg!LoadMaxOrder, Pg!Throws, Pg!Push
  <2>2. q = r
    <3> SUFFICES ASSUME q # r PROVE FALSE
      OBVIOUS
    <3>1. pageReq[r] \in Pg!Handler /\ pageReq \in [Reqs -> Pg!Handler]
      BY PgParts
    <3>2. CASE Pg!DeleteOne(q)
      BY <3>1, <3>2 DEF Pg!DeleteOne, Pg!Finish
    <3>3. ASSUME NEW ids, NEW new, Pg!Noticed(q, ids, new) PROVE FALSE
      <4>1. pageReq'[r] = [pageReq[r] EXCEPT !.since = @ \cup ids]
        BY <3>3 DEF Pg!Noticed
      <4> QED
        BY <3>1, <4>1 DEF Pg!Handler
    <3> QED
      BY <2>1, <3>2, <3>3 DEF Pg!CommitSet, Pg!InsertOne
  <2>3. Pg!CommitSet(r)
    BY <2>1, <2>2 DEF Pg!DeleteOne, Pg!InsertOne
  <2>4. pageReq[r].list \in Seq(Goods) /\ pageId \in Nat /\ Knows(pageReq[r], page, pageId)
    BY PgParts DEF Pg!Handler
  <2>5. \A y \in Pg!RowsOf(pageReq[r].list, pageId) : y.id \in Nat /\ y.id > pageId
    BY <2>4, RowsOfFacts
  <2>6. x \in page \ pageReq[r].seen
    BY <2>3, <2>4, <2>5 DEF Pg!CommitSet
  <2> QED
    BY <2>4, <2>6 DEF Knows
<1>2. [][A]_(Pg!vars) => SetReplaces
  BY DEF SetReplaces, Pg!SetReplaces
<1> QED
  BY <1>1, <1>2, PageInvariant, ShopAssumption, PTL DEF Pg!Spec

-----------------------------------------------------------------------------
(* Cart *)

\* What handler h looks like when n ids are given: it works for the owner of
\* its connection, on the table of its call and for a count that is allowed.
Fits(h, n) ==
  /\ h.row.uid = Owner[h.c]
  /\ h.pc \in {"update", "load", "mod", "del"} => h.row.tab = "cart" /\ h.row.id <= n
  /\ h.pc = "erase" => h.row.tab = "fav"
  /\ h.pc \in {"list", "check"} => h.op = "list"
  /\ h.op = "list" => h.pc \in {"idle", "list", "check"}
  /\ h.pc = "list" /\ ~h.tried => h.loaded = {}
  /\ h.pc \in {"find", "insert", "update", "mod"} => h.row.count > 0
  /\ h.pc = "load" /\ h.op = "mod" => h.row.count > 0

\* What handler h knows of the rows R, whatever was done since it has read
\* them: a row that is written back is of the same item, or gone, and a row
\* that is changed by its id is in a cart of the owner.
KnowsRows(h, R) ==
  /\ h.pc = "insert" /\ ~h.stale => \A y \in R : ~Ct!SameItem(h.row, y)
  /\ h.pc = "update" => \A y \in R : y.id = h.row.id => Ct!SameItem(h.row, y)
  /\ h.pc \in {"mod", "del"} =>
       \A y \in R : y.id = h.row.id => y.tab = "cart" /\ y.uid = Owner[h.c]

\* Handler h has changed a cart, or may have, and has not sent cart_changed.
Owes(h) ==
  \/ h.pc = "notify"
  \/ h.tried /\ h.pc \in {"insert", "update", "mod"} /\ h.row.tab = "cart"

\* Handler h lists the cart for connection c.
Listing(h, c) == h.pc \in {"list", "check"} /\ h.row.tab = "cart" /\ h.c = c

\* Handler h has loaded rows.
HasRows(h) == h.pc = "check" \/ h.tried

OneList == \A c \in Conns : \A q, r \in Reqs : Listing(cartReq[q], c) /\ Listing(cartReq[r], c) => q = r

\* Nobody owes cart_changed to connection c.
Settled(c) ==
  /\ c \notin dirty /\ c \notin missed /\ Owner[c] \notin failed
  /\ \A r \in Reqs : Owes(cartReq[r]) => Owner[cartReq[r].c] # Owner[c]

CartIn(R, u) == {x \in R : x.tab = "cart" /\ x.uid = u}

\* S is the cart of the user of c among the rows R, but for the rows with an
\* id of W.
Current(S, c, W, R) == {x \in S : x.id \notin W} = CartIn(R, Owner[c])

\* A client that nobody owes cart_changed shows the cart or is about to.
Shows(c) ==
  Settled(c) =>
    /\ (\A r \in Reqs : ~Listing(cartReq[r], c)) => Current(view[c], c, wiped, cartRows)
    /\ \A r \in Reqs : Listing(cartReq[r], c) /\ HasRows(cartReq[r]) =>
                         Current(cartReq[r].loaded, c, wiped, cartRows)

\* The inductive invariant
CartInv ==
  /\ Ct!TypeOK /\ Ct!RowsAsAsked /\ OneList
  /\ \A r \in Reqs : Fits(cartReq[r], cartId) /\ KnowsRows(cartReq[r], cartRows)
  /\ \A c \in Conns : Shows(c)

LEMMA CtIdle ==
  ASSUME Ct!ConstantsAssumption
  PROVE  /\ Ct!Idle \in Ct!Request /\ Ct!Idle.pc = "idle"
         /\ \A n, R : Fits(Ct!Idle, n) /\ KnowsRows(Ct!Idle, R)
<1> DEFINE c == CHOOSE c \in Conns : TRUE
           i == CHOOSE i \in Items : TRUE
           x == [id |-> 0, tab |-> "cart", uid |-> Owner[c], item |-> i, count |-> 1]
<1>1. c \in Conns /\ i \in Items /\ Owner[c] \in Users
  BY DEF Ct!ConstantsAssumption
<1>2. Ct!Idle = [pc |-> "idle", op |-> "list", c |-> c, row |-> x, loaded |-> {}, todo |-> {},
                 vanished |-> {}, stale |-> FALSE, tried |-> FALSE]
  BY DEF Ct!Idle, Ct!Start, Ct!NewRow, Ct!NoItem
<1> HIDE DEF c, i
<1>3. x \in Ct!Row /\ x.uid = Owner[c]
  BY <1>1 DEF Ct!Row, Ct!Tables
<1> HIDE DEF x
<1>4. Ct!Idle \in Ct!Request /\ Ct!Idle.pc = "idle" /\ Ct!Idle.row = x /\ Ct!Idle.c = c
  BY <1>1, <1>2, <1>3 DEF Ct!Request, Ct!Pcs
<1> QED
  BY <1>3, <1>4 DEF Fits, KnowsRows

LEMMA RequestParts ==
  ASSUME NEW h \in Ct!Request
  PROVE  /\ h.pc \in Ct!Pcs /\ h.op \in {"add", "mod", "del", "list"} /\ h.c \in Conns
         /\ h.row \in Ct!Row /\ h.loaded \subseteq Ct!Row /\ h.todo \subseteq Merchants
         /\ h.vanished \subseteq Merchants /\ h.stale \in BOOLEAN /\ h.tried \in BOOLEAN
  BY DEF Ct!Request

LEMMA RowParts ==
  ASSUME NEW x \in Ct!Row
  PROVE  /\ x.id \in Nat /\ x.tab \in {"cart", "fav"} /\ x.uid \in Users /\ x.item \in Items
         /\ x.count \in Nat
  BY DEF Ct!Row, Ct!Tables

LEMMA CtParts ==
  ASSUME CartInv
  PROVE  /\ cartReq \in [Reqs -> Ct!Request] /\ cartRows \subseteq Ct!Row /\ cartId \in Nat
         /\ \A r \in Reqs : /\ cartReq[r] \in Ct!Request /\ Fits(cartReq[r], cartId)
                            /\ KnowsRows(cartReq[r], cartRows)
         /\ \A x \in cartRows : x.id \in Nat /\ x.id >= 1 /\ x.id <= cartId /\ x.id \notin gone
                                /\ x.count > 0
         /\ \A x, y \in cartRows : x.id = y.id => x = y
         /\ \A x \in cartRows : x.id \notin wiped
<1>1. /\ cartReq \in [Reqs -> Ct!Request] /\ cartRows \subseteq Ct!Row /\ cartId \in Nat
      /\ \A x \in cartRows : x.id \in 1..cartId /\ x.count > 0
      /\ \A x, y \in cartRows : x.id = y.id => x = y
      /\ \A x \in cartRows : x.id \notin gone
      /\ wiped \subseteq gone
  BY DEF CartInv, Ct!TypeOK, Ct!RowsAsAsked, Ct!GoneStaysGone
<1> QED
  BY <1>1 DEF CartInv

\* Handler r becomes h.
CtTurns(r, h) ==
  /\ cartReq' \in [Reqs -> Ct!Request] /\ cartReq'[r] = h
  /\ \A q \in Reqs \ {r} : cartReq'[q] = cartReq[q]

LEMMA CtExcept ==
  ASSUME CartInv, NEW r \in Reqs, NEW h \in Ct!Request, cartReq' = [cartReq EXCEPT ![r] = h]
  PROVE  CtTurns(r, h)
  BY CtParts DEF CtTurns

\* The rows S are some of the rows R, with other counts.
Recounts(S, R) == \A y \in S : \E x \in R : x.id = y.id /\ Ct!SameItem(x, y)

LEMMA FewerRecounts ==
  ASSUME NEW R, NEW S, S \subseteq R
  PROVE  Recounts(S, R)
  BY DEF Recounts, Ct!SameItem

LEMMA KnowsRecounts ==
  ASSUME NEW h, NEW R, NEW S, Recounts(S, R), KnowsRows(h, R)
  PROVE  KnowsRows(h, S)
<1>1. ASSUME h.pc = "insert", ~h.stale, NEW y \in S PROVE ~Ct!SameItem(h.row, y)
  BY <1>1 DEF Recounts, KnowsRows, Ct!SameItem
<1>2. ASSUME h.pc = "update", NEW y \in S, y.id = h.row.id PROVE Ct!SameItem(h.row, y)
  BY <1>2 DEF Recounts, KnowsRows, Ct!SameItem
<1>3. ASSUME h.pc \in {"mod", "del"}, NEW y \in S, y.id = h.row.id
      PROVE  y.tab = "cart" /\ y.uid = Owner[h.c]
  BY <1>3 DEF Recounts, KnowsRows, Ct!SameItem
<1> QED
  BY <1>1, <1>2, <1>3 DEF KnowsRows

\* What is left of the tables
TableOK(R) ==
  /\ R \subseteq Ct!Row /\ \A x, y \in R : x.id = y.id => x = y
  /\ \A x \in R : x.count > 0

\* Handler r becomes h, and rows go or are counted.
LEMMA CtStep ==
  ASSUME CartInv, NEW r \in Reqs, NEW h, CtTurns(r, h), Recounts(cartRows', cartRows), TableOK(cartRows'),
         \A y \in cartRows' : y.id \notin gone',
         gone' \subseteq 1..cartId, wiped' \subseteq gone', UNCHANGED <<cartId, merchants, raced>>,
         Fits(h, cartId), KnowsRows(h, cartRows'),
         view' \in [Conns -> SUBSET Ct!Row], dirty' \subseteq Conns, missed' \subseteq Conns, failed' \subseteq Users,
         OneList', \A c \in Conns : Shows(c)'
  PROVE  CartInv'
<1>1. \A q \in Reqs : Fits(cartReq'[q], cartId) /\ KnowsRows(cartReq'[q], cartRows')
  BY CtParts, KnowsRecounts DEF CtTurns
<1>2. \A q \in Reqs : Fits(cartReq[q], cartId)' /\ KnowsRows(cartReq[q], cartRows)'
  BY <1>1 DEF Fits, KnowsRows, Ct!SameItem
<1>3. \A y \in cartRows' : y.id \in 1..cartId'
  BY CtParts DEF Recounts
<1>4. Ct!TypeOK'
  BY <1>3 DEF CartInv, Ct!TypeOK, CtTurns, TableOK
<1>5. Ct!GoneStaysGone'
  BY DEF Ct!GoneStaysGone
<1>6. Ct!TwiceOnlyIfRaced'
  <2> SUFFICES ASSUME NEW x \in cartRows', NEW y \in cartRows', Ct!SameItem(x, y), x # y
               PROVE  Ct!Key(x) \in raced
    BY DEF Ct!TwiceOnlyIfRaced, Ct!SameItem, Ct!Key
  <2>1. PICK x0 \in cartRows : x0.id = x.id /\ Ct!SameItem(x0, x)
    BY DEF Recounts
  <2>2. PICK y0 \in cartRows : y0.id = y.id /\ Ct!SameItem(y0, y)
    BY DEF Recounts
  <2>3. x0 # y0
    BY <2>1, <2>2 DEF TableOK
  <2>4. Ct!SameItem(x0, y0) /\ Ct!Key(x0) = Ct!Key(x)
    BY <2>1, <2>2 DEF Ct!SameItem, Ct!Key
  <2> QED
    BY <2>3, <2>4 DEF CartInv, Ct!RowsAsAsked, Ct!TwiceOnlyIfRaced
<1> QED
  BY <1>2, <1>4, <1>5, <1>6 DEF CartInv, Ct!RowsAsAsked

\* For the views h is as k.
Alike(h, k) ==
  h.pc = k.pc /\ h.c = k.c /\ h.row = k.row /\ h.loaded = k.loaded /\ h.tried = k.tried

\* A step of a handler that is not listing the cart: whoever changes a cart
\* owes cart_changed for it, until it is sent or the handler fails.
LEMMA WorkShows ==
  ASSUME CartInv, NEW r \in Reqs, NEW h, cartReq'[r] = h,
         \A q \in Reqs \ {r} : Alike(cartReq'[q], cartReq[q]),
         \A c \in Conns : ~Listing(cartReq[r], c) /\ ~Listing(h, c),
         UNCHANGED <<view, wiped>>, dirty \subseteq dirty', missed \subseteq missed', failed \subseteq failed',
         Owes(cartReq[r]) => \/ Owes(h) /\ h.c = cartReq[r].c
                         \/ Owner[cartReq[r].c] \in failed'
                         \/ \A c \in Conns : Owner[c] = Owner[cartReq[r].c] => c \in dirty' \cup missed',
         \A u : \/ CartIn(cartRows', u) = CartIn(cartRows, u) \/ u \in failed'
                \/ Owes(h) /\ Owner[h.c] = u
  PROVE  OneList' /\ \A c \in Conns : Shows(c)'
<1>1. ASSUME NEW c \in Conns, NEW q \in Reqs
      PROVE  /\ Listing(cartReq'[q], c) => Listing(cartReq[q], c) /\ q # r
             /\ Listing(cartReq[q], c) => Listing(cartReq'[q], c) /\ q # r
             /\ q # r => (HasRows(cartReq'[q]) <=> HasRows(cartReq[q])) /\ cartReq'[q].loaded = cartReq[q].loaded
  BY DEF Listing, Alike, HasRows
<1>2. OneList'
  <2>1. \A c \in Conns : \A p, q \in Reqs : Listing(cartReq'[p], c) /\ Listing(cartReq'[q], c) => p = q
    BY <1>1 DEF CartInv, OneList
  <2> QED
    BY <2>1 DEF OneList, Listing
<1>3. ASSUME NEW c \in Conns PROVE Shows(c)'
  <2> SUFFICES ASSUME Settled(c)'
               PROVE  /\ (\A q \in Reqs : ~Listing(cartReq'[q], c)) =>
                           Current(view[c], c, wiped, cartRows')
                      /\ \A q \in Reqs : Listing(cartReq'[q], c) /\ HasRows(cartReq'[q]) =>
                                           Current(cartReq'[q].loaded, c, wiped, cartRows')
    BY DEF Shows, Listing, Current, CartIn
  <2>1. /\ c \notin dirty' /\ c \notin missed' /\ Owner[c] \notin failed'
        /\ \A q \in Reqs : Owes(cartReq'[q]) => Owner[cartReq'[q].c] # Owner[c]
    BY DEF Settled, Owes
  <2>2. ASSUME NEW q \in Reqs, Owes(cartReq[q]) PROVE Owner[cartReq[q].c] # Owner[c]
    <3>1. CASE q = r
      BY <2>1, <2>2, <3>1
    <3>2. CASE q # r
      BY <2>1, <2>2, <3>2 DEF Owes, Alike
    <3> QED
      BY <3>1, <3>2
  <2>3. Settled(c)
    BY <2>1, <2>2 DEF Settled
  <2>4. CartIn(cartRows', Owner[c]) = CartIn(cartRows, Owner[c])
    BY <2>1
  <2>5. \A S : Current(S, c, wiped, cartRows) => Current(S, c, wiped, cartRows')
    BY <2>4 DEF Current
  <2>6. /\ (\A q \in Reqs : ~Listing(cartReq[q], c)) => Current(view[c], c, wiped, cartRows)
        /\ \A q \in Reqs : Listing(cartReq[q], c) /\ HasRows(cartReq[q]) =>
                             Current(cartReq[q].loaded, c, wiped, cartRows)
    BY <2>3 DEF CartInv, Shows
  <2> QED
    BY <1>1, <2>5, <2>6
<1> QED
  BY <1>2, <1>3

\* A step of handler r that leaves the tables as they are and is not about a
\* list of the cart.
LEMMA CtQuiet ==
  ASSUME CartInv, NEW r \in Reqs, NEW h \in Ct!Request, cartReq' = [cartReq EXCEPT ![r] = h],
         Fits(h, cartId), KnowsRows(h, cartRows),
         \A c \in Conns : ~Listing(cartReq[r], c) /\ ~Listing(h, c),
         UNCHANGED <<cartRows, cartId, merchants, view, raced, gone, wiped>>,
         dirty \subseteq dirty', missed \subseteq missed', dirty' \subseteq Conns, missed' \subseteq Conns, failed \subseteq failed',
         failed' \subseteq Users,
         Owes(cartReq[r]) => \/ Owes(h) /\ h.c = cartReq[r].c
                         \/ Owner[cartReq[r].c] \in failed'
                         \/ \A c \in Conns : Owner[c] = Owner[cartReq[r].c] => c \in dirty' \cup missed'
  PROVE  CartInv'
<1>1. CtTurns(r, h)
  BY CtExcept
<1>2. \A q \in Reqs \ {r} : Alike(cartReq'[q], cartReq[q])
  BY <1>1 DEF CtTurns, Alike
<1>3. \A u : CartIn(cartRows', u) = CartIn(cartRows, u)
  OBVIOUS
<1>4. OneList' /\ \A c \in Conns : Shows(c)'
  BY <1>1, <1>2, <1>3, WorkShows DEF CtTurns
<1>5. /\ Recounts(cartRows', cartRows) /\ TableOK(cartRows') /\ \A y \in cartRows' : y.id \notin gone'
      /\ gone' \subseteq 1..cartId /\ wiped' \subseteq gone'
      /\ view' \in [Conns -> SUBSET Ct!Row] /\ KnowsRows(h, cartRows')
  BY CtParts, FewerRecounts DEF TableOK, CartInv, Ct!TypeOK
<1> QED
  BY <1>1, <1>4, <1>5, CtStep

\* A call arrives.
LEMMA CtArrive ==
  ASSUME CartInv, NEW r \in Reqs, NEW c \in Conns,
         NEW op \in {"add", "mod", "del", "list"}, NEW pc \in {"find", "load", "erase", "list"},
         NEW x \in Ct!Row, x.uid = Owner[c],
         pc = "load" => x.tab = "cart" /\ x.id <= cartId, pc = "erase" => x.tab = "fav",
         pc = "list" => op = "list" /\ x.tab = "fav", op = "list" => pc = "list",
         pc = "find" \/ op = "mod" => x.count > 0,
         Ct!Arrive(r, c, op, pc, x), UNCHANGED dirty
  PROVE  CartInv'
<1> DEFINE h == Ct!Start(c, op, pc, x)
<1>0. pc \in Ct!Pcs
  BY DEF Ct!Pcs
<1>1. /\ h \in Ct!Request /\ h.c = c /\ h.op = op /\ h.pc = pc /\ h.row = x /\ h.tried = FALSE
      /\ h.loaded = {}
  BY <1>0 DEF Ct!Start, Ct!Request
<1>2. /\ cartReq' = [cartReq EXCEPT ![r] = h] /\ cartReq[r].pc = "idle"
      /\ UNCHANGED <<cartRows, cartId, merchants, view, missed, raced, gone, wiped, failed>>
  BY DEF Ct!Arrive, Ct!history
<1> HIDE DEF h
<1>3. Fits(h, cartId) /\ KnowsRows(h, cartRows)
  BY <1>1 DEF Fits, KnowsRows
<1>4. \A d \in Conns : ~Listing(cartReq[r], d) /\ ~Listing(h, d)
  BY <1>1, <1>2 DEF Listing
<1>5. ~Owes(cartReq[r]) /\ dirty' \subseteq Conns /\ missed' \subseteq Conns /\ failed' \subseteq Users
  BY <1>2 DEF Owes, CartInv, Ct!TypeOK
<1> QED
  BY <1>1, <1>2, <1>3, <1>4, <1>5, CtQuiet

\* Handler r goes to another place.
LEMMA GotoFacts ==
  ASSUME CartInv, NEW r \in Reqs, NEW pc \in Ct!Pcs, Ct!Goto(r, pc)
  PROVE  LET h == [cartReq[r] EXCEPT !.pc = pc]
         IN  /\ cartReq' = [cartReq EXCEPT ![r] = h] /\ h \in Ct!Request /\ h.pc = pc
             /\ h.op = cartReq[r].op /\ h.c = cartReq[r].c /\ h.row = cartReq[r].row
             /\ h.stale = cartReq[r].stale /\ h.tried = cartReq[r].tried
<1>1. cartReq[r] \in Ct!Request /\ cartReq \in [Reqs -> Ct!Request]
  BY CtParts
<1> QED
  BY <1>1 DEF Ct!Goto, Ct!Request

LEMMA RepeatsFacts ==
  ASSUME CartInv, NEW r \in Reqs, Ct!Repeats(r)
  PROVE  LET h == [cartReq[r] EXCEPT !.tried = TRUE]
         IN  /\ cartReq' = [cartReq EXCEPT ![r] = h] /\ h \in Ct!Request /\ h.pc = cartReq[r].pc
             /\ h.op = cartReq[r].op /\ h.c = cartReq[r].c /\ h.row = cartReq[r].row
             /\ h.loaded = cartReq[r].loaded /\ h.stale = cartReq[r].stale /\ h.tried = TRUE
<1>1. cartReq[r] \in Ct!Request /\ cartReq \in [Reqs -> Ct!Request]
  BY CtParts
<1> QED
  BY <1>1 DEF Ct!Repeats, Ct!Request

\* A handler that is not listing the cart ends without having changed
\* anything; when it has before, its user is not sure of the view.
LEMMA CtEnds ==
  ASSUME Ct!ConstantsAssumption, CartInv, NEW r \in Reqs, Ct!Finish(r),
         \A c \in Conns : ~Listing(cartReq[r], c),
         UNCHANGED <<cartRows, cartId, merchants, view, raced, gone, wiped>>,
         dirty \subseteq dirty', missed \subseteq missed', dirty' \subseteq Conns,
         missed' \subseteq Conns, failed' = failed \/ failed' = failed \cup {Owner[cartReq[r].c]},
         Owes(cartReq[r]) => \/ Owner[cartReq[r].c] \in failed'
                         \/ \A c \in Conns : Owner[c] = Owner[cartReq[r].c] => c \in dirty' \cup missed'
  PROVE  CartInv'
<1>1. /\ Ct!Idle \in Ct!Request /\ Fits(Ct!Idle, cartId) /\ KnowsRows(Ct!Idle, cartRows)
      /\ \A c \in Conns : ~Listing(Ct!Idle, c)
      /\ cartReq' = [cartReq EXCEPT ![r] = Ct!Idle]
  BY CtIdle DEF Listing, Ct!Finish
<1>2. Owner[cartReq[r].c] \in Users /\ failed \subseteq Users
  BY CtParts, RequestParts DEF Ct!ConstantsAssumption, CartInv, Ct!TypeOK
<1> QED
  BY <1>1, <1>2, CtQuiet

LEMMA CtFind ==
  ASSUME Ct!ConstantsAssumption, CartInv, NEW r \in Reqs, Ct!Find(r)
  PROVE  CartInv'
<1> DEFINE x == cartReq[r].row
<1>1. /\ cartReq[r] \in Ct!Request /\ cartReq[r].pc = "find" /\ Fits(cartReq[r], cartId) /\ x \in Ct!Row
      /\ UNCHANGED <<cartRows, cartId, merchants, view, dirty, missed, raced, gone, wiped, failed>>
      /\ dirty \subseteq Conns /\ missed \subseteq Conns /\ failed \subseteq Users
  BY CtParts, RequestParts DEF Ct!Find, Ct!history, CartInv, Ct!TypeOK
<1>2. ~Owes(cartReq[r]) /\ \A c \in Conns : ~Listing(cartReq[r], c)
  BY <1>1 DEF Owes, Listing
<1>3. CASE Ct!Finish(r)
  BY <1>1, <1>2, <1>3, CtEnds
<1>4. CASE (\A y \in cartRows : ~Ct!SameItem(x, y)) /\ Ct!Goto(r, "insert")
  <2> DEFINE h == [cartReq[r] EXCEPT !.pc = "insert"]
  <2>0. "insert" \in Ct!Pcs
    BY DEF Ct!Pcs
  <2>1. /\ cartReq' = [cartReq EXCEPT ![r] = h] /\ h \in Ct!Request /\ h.pc = "insert"
        /\ h.c = cartReq[r].c /\ h.row = x /\ h.op = cartReq[r].op
    BY <1>4, <2>0, GotoFacts
  <2> HIDE DEF h
  <2>2. Fits(h, cartId) /\ KnowsRows(h, cartRows) /\ \A c \in Conns : ~Listing(h, c)
    BY <1>1, <1>4, <2>1 DEF Fits, KnowsRows, Listing
  <2> QED
    BY <1>1, <1>2, <2>1, <2>2, CtQuiet
<1>5. ASSUME NEW y \in cartRows, Ct!SameItem(x, y), x.tab # "fav",
             cartReq' = [cartReq EXCEPT ![r].pc = "update", ![r].row = [y EXCEPT !.count = @ + 1]]
      PROVE  CartInv'
  <2> DEFINE z == [y EXCEPT !.count = @ + 1]
             h == [cartReq[r] EXCEPT !.pc = "update", !.row = z]
  <2>1. y \in Ct!Row /\ y.id <= cartId /\ y.count + 1 \in Nat
    BY CtParts, RowParts
  <2>2. /\ z \in Ct!Row /\ z.id = y.id /\ z.tab = y.tab /\ z.uid = y.uid /\ z.item = y.item
        /\ z.count = y.count + 1 /\ z.count > 0
    BY <2>1, RowParts DEF Ct!Row
  <2>3. cartReq' = [cartReq EXCEPT ![r] = h]
    BY <1>5, CtParts
  <2> HIDE DEF z
  <2>4. h \in Ct!Request /\ h.pc = "update" /\ h.c = cartReq[r].c /\ h.row = z
        /\ h.tried = cartReq[r].tried /\ h.op = cartReq[r].op
    BY <1>1, <2>2 DEF Ct!Request, Ct!Pcs
  <2> HIDE DEF h
  <2>5. z.tab = "cart" /\ z.uid = Owner[h.c] /\ Ct!SameItem(z, y)
    BY <1>1, <1>5, <2>2, <2>4, RowParts DEF Fits, Ct!SameItem
  <2>6. \A w \in cartRows : w.id = z.id => Ct!SameItem(z, w)
    BY <2>2, <2>5, CtParts
  <2>7. Fits(h, cartId) /\ KnowsRows(h, cartRows) /\ \A c \in Conns : ~Listing(h, c)
    BY <1>1, <2>1, <2>2, <2>4, <2>5, <2>6 DEF Fits, KnowsRows, Listing
  <2> QED
    BY <1>1, <1>2, <2>3, <2>4, <2>7, CtQuiet
<1> QED
  BY <1>1, <1>3, <1>4, <1>5 DEF Ct!Find

LEMMA CtLoad ==
  ASSUME Ct!ConstantsAssumption, CartInv, NEW r \in Reqs, Ct!Load(r)
  PROVE  CartInv'
<1> DEFINE to == IF cartReq[r].op = "mod" THEN "mod" ELSE "del"
           h == [cartReq[r] EXCEPT !.pc = to]
<1>1. /\ cartReq[r] \in Ct!Request /\ cartReq[r].pc = "load" /\ Fits(cartReq[r], cartId)
      /\ UNCHANGED <<cartRows, cartId, merchants, view, dirty, missed, raced, gone, wiped, failed>>
      /\ dirty \subseteq Conns /\ missed \subseteq Conns /\ failed \subseteq Users
  BY CtParts DEF Ct!Load, Ct!history, CartInv, Ct!TypeOK
<1>2. ~Owes(cartReq[r]) /\ \A c \in Conns : ~Listing(cartReq[r], c)
  BY <1>1 DEF Owes, Listing
<1>3. CASE Ct!Finish(r)
  BY <1>1, <1>2, <1>3, CtEnds
<1>4. ASSUME NEW y \in cartRows, y.tab = "cart", y.id = cartReq[r].row.id, y.uid = Owner[cartReq[r].c],
             Ct!Goto(r, to)
      PROVE  CartInv'
  <2>1. to \in Ct!Pcs /\ to \in {"mod", "del"} /\ (to = "mod" => cartReq[r].op = "mod")
    BY DEF Ct!Pcs
  <2> HIDE DEF to
  <2>2. /\ cartReq' = [cartReq EXCEPT ![r] = h] /\ h \in Ct!Request /\ h.pc = to
        /\ h.c = cartReq[r].c /\ h.row = cartReq[r].row /\ h.op = cartReq[r].op
    BY <1>4, <2>1, GotoFacts
  <2> HIDE DEF h
  <2>3. \A w \in cartRows : w.id = y.id => w = y
    BY CtParts
  <2>4. Fits(h, cartId) /\ KnowsRows(h, cartRows) /\ \A c \in Conns : ~Listing(h, c)
    BY <1>1, <1>4, <2>1, <2>2, <2>3 DEF Fits, KnowsRows, Listing
  <2> QED
    BY <1>1, <1>2, <2>2, <2>4, CtQuiet
<1> QED
  BY <1>3, <1>4 DEF Ct!Load

\* cart_changed is sent to all connections of the user, and the ones whose
\* queue is full are on record.
LEMMA CtNotify ==
  ASSUME Ct!ConstantsAssumption, CartInv, NEW r \in Reqs, Ct!Notify(r)
  PROVE  CartInv'
<1> DEFINE to == {c \in Conns : Owner[c] = Owner[cartReq[r].c]}
<1>1. /\ cartReq[r].pc = "notify" /\ Ct!Finish(r)
      /\ UNCHANGED <<cartRows, cartId, merchants, view, raced, gone, wiped, failed>>
      /\ dirty \subseteq Conns /\ missed \subseteq Conns
  BY DEF Ct!Notify, Ct!history, CartInv, Ct!TypeOK
<1>2. PICK full \in SUBSET to : dirty' = dirty \cup (to \ full) /\ missed' = missed \cup full
  BY DEF Ct!Notify
<1>3. /\ dirty \subseteq dirty' /\ missed \subseteq missed' /\ dirty' \subseteq Conns
      /\ missed' \subseteq Conns
      /\ \A c \in Conns : Owner[c] = Owner[cartReq[r].c] => c \in dirty' \cup missed'
  BY <1>1, <1>2
<1>4. \A c \in Conns : ~Listing(cartReq[r], c)
  BY <1>1 DEF Listing
<1> QED
  BY <1>1, <1>3, <1>4, CtEnds

\* A handler that is not listing the cart removes rows or counts them: a cart
\* that is changed by it is the one of its user, to whom it then owes
\* cart_changed.
LEMMA CtChange ==
  ASSUME Ct!ConstantsAssumption, CartInv, NEW r \in Reqs, NEW h \in Ct!Request,
         cartReq' = [cartReq EXCEPT ![r] = h], Recounts(cartRows', cartRows), TableOK(cartRows'),
         \A y \in cartRows' : y.id \notin gone', gone' \subseteq 1..cartId, gone \subseteq gone',
         UNCHANGED <<cartId, merchants, view, dirty, missed, raced, wiped>>,
         Fits(h, cartId), KnowsRows(h, cartRows'),
         \A c \in Conns : ~Listing(cartReq[r], c) /\ ~Listing(h, c),
         failed' = failed \/ failed' = failed \cup {Owner[cartReq[r].c]},
         Owes(cartReq[r]) => (Owes(h) /\ h.c = cartReq[r].c) \/ Owner[cartReq[r].c] \in failed',
         \A u : \/ CartIn(cartRows', u) = CartIn(cartRows, u) \/ u \in failed'
                \/ Owes(h) /\ Owner[h.c] = u
  PROVE  CartInv'
<1>1. CtTurns(r, h)
  BY CtExcept
<1>2. \A q \in Reqs \ {r} : Alike(cartReq'[q], cartReq[q])
  BY <1>1 DEF CtTurns, Alike
<1>3. Owner[cartReq[r].c] \in Users /\ failed \subseteq Users
  BY CtParts, RequestParts DEF Ct!ConstantsAssumption, CartInv, Ct!TypeOK
<1>4. OneList' /\ \A c \in Conns : Shows(c)'
  BY <1>1, <1>2, WorkShows DEF CtTurns
<1>5. /\ wiped' \subseteq gone' /\ view' \in [Conns -> SUBSET Ct!Row] /\ dirty' \subseteq Conns
      /\ missed' \subseteq Conns /\ failed' \subseteq Users
  BY <1>3 DEF CartInv, Ct!TypeOK
<1> QED
  BY <1>1, <1>4, <1>5, CtStep

LEMMA CtUpdate ==
  ASSUME Ct!ConstantsAssumption, CartInv, NEW r \in Reqs, Ct!Update(r)
  PROVE  CartInv'
<1> DEFINE x == cartReq[r].row
           h1 == [cartReq[r] EXCEPT !.pc = "notify"]
           h2 == [cartReq[r] EXCEPT !.tried = TRUE]
<1>1. /\ cartReq[r] \in Ct!Request /\ cartReq[r].pc = "update" /\ Fits(cartReq[r], cartId) /\ x \in Ct!Row
      /\ KnowsRows(cartReq[r], cartRows)
      /\ UNCHANGED <<cartId, merchants, view, dirty, missed, raced, gone, wiped>>
      /\ dirty \subseteq Conns /\ missed \subseteq Conns /\ failed \subseteq Users
  BY CtParts, RequestParts DEF Ct!Update, CartInv, Ct!TypeOK
<1>2. \A c \in Conns : ~Listing(cartReq[r], c)
  BY <1>1 DEF Listing
<1>3. x.tab = "cart" /\ x.uid = Owner[cartReq[r].c] /\ x.count > 0
      /\ \A y \in cartRows : y.id = x.id => Ct!SameItem(x, y)
  BY <1>1 DEF Fits, KnowsRows
<1>4. CASE Ct!Fails(r, cartReq[r].tried) /\ UNCHANGED cartRows
  <2>1. Ct!Finish(r) /\ (failed' = IF cartReq[r].tried THEN failed \cup {Owner[cartReq[r].c]} ELSE failed)
    BY <1>4 DEF Ct!Fails
  <2>2. Owes(cartReq[r]) => Owner[cartReq[r].c] \in failed'
    BY <1>1, <2>1 DEF Owes
  <2> QED
    BY <1>1, <1>2, <1>4, <2>1, <2>2, CtEnds
<1>5. ASSUME NEW y0 \in cartRows, y0.id = x.id, cartRows' = {y \in cartRows : y.id # x.id} \cup {x},
             Ct!Goto(r, "notify") \/ Ct!Repeats(r), UNCHANGED failed
      PROVE  CartInv'
  <2>0. "notify" \in Ct!Pcs
    BY DEF Ct!Pcs
  <2>1. /\ Ct!Goto(r, "notify") => /\ cartReq' = [cartReq EXCEPT ![r] = h1] /\ h1 \in Ct!Request
                                   /\ h1.pc = "notify" /\ h1.c = cartReq[r].c /\ h1.row = x
                                   /\ h1.op = cartReq[r].op
        /\ Ct!Repeats(r) => /\ cartReq' = [cartReq EXCEPT ![r] = h2] /\ h2 \in Ct!Request
                            /\ h2.pc = "update" /\ h2.c = cartReq[r].c /\ h2.row = x /\ h2.tried
                            /\ h2.op = cartReq[r].op
    BY <1>1, <2>0, GotoFacts, RepeatsFacts
  <2> HIDE DEF h1, h2
  <2>2. PICK h \in Ct!Request : /\ cartReq' = [cartReq EXCEPT ![r] = h] /\ h.c = cartReq[r].c /\ h.row = x
                                /\ h.op = cartReq[r].op
                                /\ h.pc = "notify" \/ (h.pc = "update" /\ h.tried)
    BY <1>5, <2>1
  <2>3. Owes(h) /\ \A c \in Conns : ~Listing(h, c)
    BY <1>3, <2>2 DEF Owes, Listing
  <2>4. Ct!SameItem(x, y0) /\ Ct!SameItem(y0, x)
    BY <1>3, <1>5 DEF Ct!SameItem
  <2>5. Recounts(cartRows', cartRows)
    BY <1>5, <2>4 DEF Recounts, Ct!SameItem
  <2>6. TableOK(cartRows')
    BY <1>1, <1>3, <1>5, CtParts DEF TableOK
  <2>7. \A y \in cartRows' : y.id \notin gone'
    BY <1>1, <1>5, CtParts
  <2>8. Fits(h, cartId) /\ KnowsRows(h, cartRows')
    <3>1. \A y \in cartRows' : y.id = x.id => Ct!SameItem(x, y)
      BY <1>3, <1>5 DEF Ct!SameItem
    <3> QED
      BY <1>1, <2>2, <3>1 DEF Fits, KnowsRows
  <2>9. ASSUME NEW u, u # Owner[h.c] PROVE CartIn(cartRows', u) = CartIn(cartRows, u)
    BY <1>3, <1>5, <2>2, <2>9 DEF CartIn, Ct!SameItem
  <2>10. gone' \subseteq 1..cartId
    BY <1>1 DEF CartInv, Ct!TypeOK
  <2> QED
    BY <1>1, <1>2, <1>5, <2>2, <2>3, <2>5, <2>6, <2>7, <2>8, <2>9, <2>10, CtChange
<1> QED
  BY <1>4, <1>5 DEF Ct!Update

LEMMA CtMod ==
  ASSUME Ct!ConstantsAssumption, CartInv, NEW r \in Reqs, Ct!Mod(r)
  PROVE  CartInv'
<1> DEFINE x == cartReq[r].row
           N(y) == IF y.id = x.id THEN [y EXCEPT !.count = x.count] ELSE y
           h1 == [cartReq[r] EXCEPT !.pc = "notify"]
           h2 == [cartReq[r] EXCEPT !.tried = TRUE]
<1>1. /\ cartReq[r] \in Ct!Request /\ cartReq[r].pc = "mod" /\ Fits(cartReq[r], cartId) /\ x \in Ct!Row
      /\ KnowsRows(cartReq[r], cartRows) /\ x.count \in Nat
      /\ UNCHANGED <<cartId, merchants, view, dirty, missed, raced, gone, wiped, failed>>
      /\ cartRows' = {N(y) : y \in cartRows}
      /\ Ct!Goto(r, "notify") \/ Ct!Repeats(r)
  BY CtParts, RequestParts, RowParts DEF Ct!Mod, Ct!history
<1>2. \A c \in Conns : ~Listing(cartReq[r], c)
  BY <1>1 DEF Listing
<1>3. /\ x.tab = "cart" /\ x.count > 0
      /\ \A y \in cartRows : y.id = x.id => y.tab = "cart" /\ y.uid = Owner[cartReq[r].c]
  BY <1>1 DEF Fits, KnowsRows
<1>4. \A y \in cartRows : /\ N(y) \in Ct!Row /\ N(y).id = y.id /\ N(y).tab = y.tab
                      /\ N(y).uid = y.uid /\ N(y).item = y.item /\ (y.id # x.id => N(y) = y)
                      /\ N(y).count > 0
  <2> SUFFICES ASSUME NEW y \in cartRows
               PROVE  /\ N(y) \in Ct!Row /\ N(y).id = y.id /\ N(y).tab = y.tab
                      /\ N(y).uid = y.uid /\ N(y).item = y.item /\ (y.id # x.id => N(y) = y)
                      /\ N(y).count > 0
    OBVIOUS
  <2>1. y \in Ct!Row /\ y.count > 0
    BY CtParts
  <2> QED
    BY <1>1, <1>3, <2>1 DEF Ct!Row
<1> HIDE DEF N
<1>5. "notify" \in Ct!Pcs
  BY DEF Ct!Pcs
<1>6. /\ Ct!Goto(r, "notify") => /\ cartReq' = [cartReq EXCEPT ![r] = h1] /\ h1 \in Ct!Request
                                 /\ h1.pc = "notify" /\ h1.c = cartReq[r].c /\ h1.row = x
                                 /\ h1.op = cartReq[r].op
      /\ Ct!Repeats(r) => /\ cartReq' = [cartReq EXCEPT ![r] = h2] /\ h2 \in Ct!Request
                          /\ h2.pc = "mod" /\ h2.c = cartReq[r].c /\ h2.row = x /\ h2.tried
                          /\ h2.op = cartReq[r].op
  BY <1>1, <1>5, GotoFacts, RepeatsFacts
<1> HIDE DEF h1, h2
<1>7. PICK h \in Ct!Request : /\ cartReq' = [cartReq EXCEPT ![r] = h] /\ h.c = cartReq[r].c /\ h.row = x
                              /\ h.op = cartReq[r].op
                              /\ h.pc = "notify" \/ (h.pc = "mod" /\ h.tried)
  BY <1>1, <1>6
<1>8. Owes(h) /\ \A c \in Conns : ~Listing(h, c)
  BY <1>3, <1>7 DEF Owes, Listing
<1>9. Recounts(cartRows', cartRows)
  BY <1>1, <1>4 DEF Recounts, Ct!SameItem
<1>10. TableOK(cartRows')
  <2>1. \A y, z \in cartRows : N(y).id = N(z).id => N(y) = N(z)
    BY <1>4, CtParts
  <2> QED
    BY <1>1, <1>4, <2>1 DEF TableOK
<1>11. \A y \in cartRows' : y.id \notin gone'
  BY <1>1, <1>4, CtParts
<1>12. Fits(h, cartId) /\ KnowsRows(h, cartRows')
  <2>1. \A y \in cartRows' : y.id = x.id => y.tab = "cart" /\ y.uid = Owner[cartReq[r].c]
    BY <1>1, <1>3, <1>4
  <2> QED
    BY <1>1, <1>7, <2>1 DEF Fits, KnowsRows
<1>13. ASSUME NEW u, u # Owner[h.c] PROVE CartIn(cartRows', u) = CartIn(cartRows, u)
  <2>1. ASSUME NEW z \in CartIn(cartRows', u) PROVE z \in CartIn(cartRows, u)
    <3>1. PICK y \in cartRows : z = N(y)
      BY <1>1 DEF CartIn
    <3>2. y.tab = "cart" /\ y.uid = u
      BY <1>4, <3>1 DEF CartIn
    <3>3. y.id # x.id
      BY <1>3, <1>7, <1>13, <3>2
    <3> QED
      BY <1>4, <3>1, <3>2, <3>3 DEF CartIn
  <2>2. ASSUME NEW y \in CartIn(cartRows, u) PROVE y \in CartIn(cartRows', u)
    <3>1. y \in cartRows /\ y.tab = "cart" /\ y.uid = u
      BY DEF CartIn
    <3>2. y.id # x.id
      BY <1>3, <1>7, <1>13, <3>1
    <3>3. y \in cartRows'
      BY <1>1, <1>4, <3>1, <3>2
    <3> QED
      BY <3>1, <3>3 DEF CartIn
  <2> QED
    BY <2>1, <2>2
<1>14. gone' \subseteq 1..cartId
  BY <1>1 DEF CartInv, Ct!TypeOK
<1> QED
  BY <1>1, <1>2, <1>7, <1>8, <1>9, <1>10, <1>11, <1>12, <1>13, <1>14, CtChange

\* Rows are removed.
LEMMA RemovedFacts ==
  ASSUME CartInv, NEW old, old \subseteq cartRows, cartRows' = cartRows \ old,
         gone' = gone \cup {y.id : y \in old}
  PROVE  /\ Recounts(cartRows', cartRows) /\ TableOK(cartRows') /\ gone \subseteq gone'
         /\ \A y \in cartRows' : y.id \notin gone'
         /\ gone' \subseteq 1..cartId
<1>1. Recounts(cartRows', cartRows)
  BY FewerRecounts
<1>2. TableOK(cartRows')
  BY CtParts DEF TableOK
<1>3. \A y \in cartRows' : y.id \notin gone'
  BY CtParts
<1>4. gone' \subseteq 1..cartId
  <2>1. gone \subseteq 1..cartId
    BY DEF CartInv, Ct!TypeOK
  <2>2. \A y \in old : y.id \in 1..cartId
    BY CtParts
  <2> QED
    BY <2>1, <2>2
<1> QED
  BY <1>1, <1>2, <1>3, <1>4

LEMMA CtDel ==
  ASSUME Ct!ConstantsAssumption, CartInv, NEW r \in Reqs, Ct!Del(r)
  PROVE  CartInv'
<1> DEFINE old == {y \in cartRows : y.id = cartReq[r].row.id}
           h1 == [cartReq[r] EXCEPT !.pc = "notify"]
<1>1. /\ cartReq[r] \in Ct!Request /\ cartReq[r].pc = "del" /\ Fits(cartReq[r], cartId)
      /\ KnowsRows(cartReq[r], cartRows)
      /\ UNCHANGED <<cartId, merchants, view, dirty, missed, raced, wiped>>
      /\ cartRows' = cartRows \ old /\ gone' = gone \cup {y.id : y \in old}
      /\ \/ old # {} /\ Ct!Goto(r, "notify") /\ UNCHANGED failed
         \/ Ct!Fails(r, old # {})
  BY CtParts DEF Ct!Del
<1>2. ~Owes(cartReq[r]) /\ \A c \in Conns : ~Listing(cartReq[r], c)
  BY <1>1 DEF Owes, Listing
<1>3. /\ Recounts(cartRows', cartRows) /\ TableOK(cartRows') /\ gone \subseteq gone'
      /\ \A y \in cartRows' : y.id \notin gone'
      /\ gone' \subseteq 1..cartId
  BY <1>1, RemovedFacts
<1>4. \A y \in old : y.uid = Owner[cartReq[r].c]
  BY <1>1 DEF KnowsRows
<1>5. ASSUME NEW u, u # Owner[cartReq[r].c] \/ old = {} PROVE CartIn(cartRows', u) = CartIn(cartRows, u)
  BY <1>1, <1>4, <1>5 DEF CartIn
<1>6. CASE old # {} /\ Ct!Goto(r, "notify") /\ UNCHANGED failed
  <2>0. "notify" \in Ct!Pcs
    BY DEF Ct!Pcs
  <2>1. /\ cartReq' = [cartReq EXCEPT ![r] = h1] /\ h1 \in Ct!Request
        /\ h1.pc = "notify" /\ h1.c = cartReq[r].c /\ h1.row = cartReq[r].row
        /\ h1.op = cartReq[r].op
    BY <1>6, <2>0, GotoFacts
  <2> HIDE DEF h1, old
  <2>2. /\ Owes(h1) /\ Fits(h1, cartId) /\ KnowsRows(h1, cartRows')
        /\ \A c \in Conns : ~Listing(h1, c)
    BY <1>1, <2>1 DEF Owes, Listing, Fits, KnowsRows
  <2> QED
    BY <1>1, <1>2, <1>3, <1>5, <1>6, <2>1, <2>2, CtChange
<1>7. CASE Ct!Fails(r, old # {})
  <2>1. /\ cartReq' = [cartReq EXCEPT ![r] = Ct!Idle]
        /\ failed' = IF old # {} THEN failed \cup {Owner[cartReq[r].c]} ELSE failed
    BY <1>7 DEF Ct!Fails, Ct!Finish
  <2>2. /\ Ct!Idle \in Ct!Request /\ Fits(Ct!Idle, cartId) /\ KnowsRows(Ct!Idle, cartRows')
        /\ \A c \in Conns : ~Listing(Ct!Idle, c)
    BY CtIdle DEF Listing
  <2> HIDE DEF old
  <2>3. \A u : CartIn(cartRows', u) = CartIn(cartRows, u) \/ u \in failed'
    BY <1>5, <2>1
  <2>4. failed' = failed \/ failed' = failed \cup {Owner[cartReq[r].c]}
    BY <2>1
  <2> QED
    BY <1>1, <1>2, <1>3, <2>1, <2>2, <2>3, <2>4, CtChange
<1> QED
  BY <1>1, <1>6, <1>7

LEMMA CtErase ==
  ASSUME Ct!ConstantsAssumption, CartInv, NEW r \in Reqs, Ct!Erase(r)
  PROVE  CartInv'
<1> DEFINE old == {y \in cartRows : Ct!SameItem(cartReq[r].row, y)}
           h2 == [cartReq[r] EXCEPT !.tried = TRUE]
<1>1. /\ cartReq[r] \in Ct!Request /\ cartReq[r].pc = "erase" /\ Fits(cartReq[r], cartId)
      /\ UNCHANGED <<cartId, merchants, view, dirty, missed, raced, wiped, failed>>
      /\ cartRows' = cartRows \ old /\ gone' = gone \cup {y.id : y \in old}
      /\ Ct!Finish(r) \/ Ct!Repeats(r)
  BY CtParts DEF Ct!Erase
<1>2. ~Owes(cartReq[r]) /\ \A c \in Conns : ~Listing(cartReq[r], c)
  BY <1>1 DEF Owes, Listing
<1>3. /\ Recounts(cartRows', cartRows) /\ TableOK(cartRows') /\ gone \subseteq gone'
      /\ \A y \in cartRows' : y.id \notin gone'
      /\ gone' \subseteq 1..cartId
  BY <1>1, RemovedFacts
<1>4. \A u : CartIn(cartRows', u) = CartIn(cartRows, u)
  <2>1. \A y \in old : y.tab # "cart"
    BY <1>1 DEF Fits, Ct!SameItem
  <2> QED
    BY <1>1, <2>1 DEF CartIn
<1>5. CASE Ct!Finish(r)
  <2>1. /\ Ct!Idle \in Ct!Request /\ Fits(Ct!Idle, cartId) /\ KnowsRows(Ct!Idle, cartRows')
        /\ cartReq' = [cartReq EXCEPT ![r] = Ct!Idle] /\ \A c \in Conns : ~Listing(Ct!Idle, c)
    BY <1>5, CtIdle DEF Listing, Ct!Finish
  <2> QED
    BY <1>1, <1>2, <1>3, <1>4, <2>1, CtChange
<1>6. CASE Ct!Repeats(r)
  <2>1. /\ cartReq' = [cartReq EXCEPT ![r] = h2] /\ h2 \in Ct!Request
        /\ h2.pc = "erase" /\ h2.c = cartReq[r].c /\ h2.row = cartReq[r].row
        /\ h2.op = cartReq[r].op
    BY <1>1, <1>6, RepeatsFacts
  <2> HIDE DEF h2, old
  <2>2. Fits(h2, cartId) /\ KnowsRows(h2, cartRows') /\ \A c \in Conns : ~Listing(h2, c)
    BY <1>1, <2>1 DEF Fits, KnowsRows, Listing
  <2> QED
    BY <1>1, <1>2, <1>3, <1>4, <2>1, <2>2, CtChange
<1> QED
  BY <1>1, <1>5, <1>6

\* The insert: handlers that are about to insert the same item learn of it,
\* and a row that is not the only one of its item is on record.
LEMMA CtInsert ==
  ASSUME Ct!ConstantsAssumption, CartInv, NEW r \in Reqs, Ct!Insert(r)
  PROVE  CartInv'
<1> DEFINE n == cartId + 1
           x == [cartReq[r].row EXCEPT !.id = n]
           over(q) == cartReq[q].pc = "insert" /\ Ct!SameItem(cartReq[q].row, x)
           h1 == [cartReq[r] EXCEPT !.stale = TRUE, !.tried = TRUE]
           h2 == [cartReq[r] EXCEPT !.pc = "notify"]
           after(again) == IF again THEN h1 ELSE IF x.tab = "cart" THEN h2 ELSE Ct!Idle
<1>1. /\ cartReq[r] \in Ct!Request /\ cartReq[r].pc = "insert" /\ Fits(cartReq[r], cartId)
      /\ KnowsRows(cartReq[r], cartRows) /\ cartReq[r].row \in Ct!Row /\ cartId \in Nat
      /\ n \in Nat /\ n > cartId /\ cartReq[r].c \in Conns
  BY CtParts, RequestParts DEF Ct!Insert
<1>2. /\ cartRows' = cartRows \cup {x} /\ cartId' = n
      /\ raced' = IF cartReq[r].stale THEN raced \cup {Ct!Key(x)} ELSE raced
      /\ UNCHANGED <<merchants, view, dirty, missed, gone, wiped, failed>>
  BY DEF Ct!Insert
<1>3. PICK again \in BOOLEAN :
        cartReq' = [q \in Reqs |-> IF q = r THEN after(again)
                               ELSE [cartReq[q] EXCEPT !.stale = @ \/ over(q)]]
  BY DEF Ct!Insert
<1>4. /\ x \in Ct!Row /\ x.id = n /\ x.tab = cartReq[r].row.tab /\ x.uid = cartReq[r].row.uid
      /\ x.item = cartReq[r].row.item /\ x.count = cartReq[r].row.count
  BY <1>1 DEF Ct!Row
<1>5. /\ h1 \in Ct!Request /\ h1.pc = "insert" /\ h1.c = cartReq[r].c /\ h1.row = cartReq[r].row
      /\ h1.stale = TRUE /\ h1.tried = TRUE /\ h1.op = cartReq[r].op
      /\ h2 \in Ct!Request /\ h2.pc = "notify" /\ h2.c = cartReq[r].c /\ h2.row = cartReq[r].row
      /\ h2.op = cartReq[r].op
  BY <1>1 DEF Ct!Request, Ct!Pcs
<1> DEFINE h == after(again)
<1>6. cartReq'[r] = h
  BY <1>3
<1> HIDE DEF x, h1, h2
<1>7. /\ h = h1 \/ (h = h2 /\ x.tab = "cart") \/ (h = Ct!Idle /\ x.tab # "cart")
      /\ h \in Ct!Request
  BY <1>5, CtIdle
<1> HIDE DEF h, after
<1>8. ASSUME NEW q \in Reqs, q # r
      PROVE  /\ cartReq'[q] \in Ct!Request /\ Alike(cartReq'[q], cartReq[q]) /\ cartReq'[q].op = cartReq[q].op
             /\ ~cartReq'[q].stale => ~cartReq[q].stale /\ ~over(q)
  <2> DEFINE b == over(q)
  <2>1. b \in BOOLEAN
    OBVIOUS
  <2>2. cartReq'[q] = [cartReq[q] EXCEPT !.stale = @ \/ b]
    BY <1>3, <1>8
  <2>3. cartReq[q] \in Ct!Request /\ cartReq[q].stale \in BOOLEAN
    BY CtParts, RequestParts
  <2> HIDE DEF b, over
  <2>4. (cartReq[q].stale \/ b) \in BOOLEAN
    BY <2>1, <2>3
  <2>5. /\ cartReq'[q] \in Ct!Request /\ Alike(cartReq'[q], cartReq[q]) /\ cartReq'[q].op = cartReq[q].op
        /\ cartReq'[q].stale = (cartReq[q].stale \/ b)
    BY <2>2, <2>3, <2>4 DEF Ct!Request, Alike
  <2> QED
    BY <2>1, <2>3, <2>5 DEF b
<1> HIDE DEF over
<1>9. cartReq' \in [Reqs -> Ct!Request]
  <2>1. \A q \in Reqs : cartReq'[q] \in Ct!Request
    BY <1>6, <1>7, <1>8
  <2>2. cartReq' = [q \in Reqs |-> cartReq'[q]]
    BY <1>3
  <2> QED
    BY <2>1, <2>2
<1>10. \A c \in Conns : ~Listing(cartReq[r], c) /\ ~Listing(h, c)
  BY <1>1, <1>5, <1>7, CtIdle DEF Listing
<1>11. /\ x.tab = "cart" => Owes(h) /\ h.c = cartReq[r].c
       /\ x.uid = Owner[cartReq[r].c]
  BY <1>1, <1>4, <1>5, <1>7 DEF Owes, Fits
<1>12. \A u : CartIn(cartRows', u) = CartIn(cartRows, u) \/ (Owes(h) /\ Owner[h.c] = u)
  <2>1. ASSUME NEW u, x.tab # "cart" \/ x.uid # u PROVE CartIn(cartRows', u) = CartIn(cartRows, u)
    BY <1>2, <2>1 DEF CartIn
  <2> QED
    BY <1>11, <2>1
<1>13. Owes(cartReq[r]) => Owes(h) /\ h.c = cartReq[r].c
  BY <1>1, <1>4, <1>11 DEF Owes
<1>14. OneList' /\ \A c \in Conns : Shows(c)'
  BY <1>2, <1>6, <1>8, <1>10, <1>12, <1>13, WorkShows
<1>15. ASSUME NEW q \in Reqs PROVE Fits(cartReq'[q], n) /\ KnowsRows(cartReq'[q], cartRows')
  <2>1. CASE q = r
    BY <1>1, <1>5, <1>6, <1>7, <2>1, CtIdle DEF Fits, KnowsRows
  <2>2. CASE q # r
    <3> DEFINE k == cartReq'[q]
    <3>1. /\ k.pc = cartReq[q].pc /\ k.c = cartReq[q].c /\ k.row = cartReq[q].row /\ k.op = cartReq[q].op
          /\ k.tried = cartReq[q].tried /\ k.loaded = cartReq[q].loaded
          /\ ~k.stale => ~cartReq[q].stale /\ ~over(q)
          /\ Fits(cartReq[q], cartId) /\ KnowsRows(cartReq[q], cartRows) /\ cartReq[q].row.id \in Nat
      BY <1>8, <2>2, CtParts, RequestParts, RowParts DEF Alike
    <3> HIDE DEF k
    <3>2. Fits(k, n)
      BY <1>1, <3>1 DEF Fits
    <3>3. k.pc = "insert" /\ ~k.stale => \A y \in cartRows' : ~Ct!SameItem(k.row, y)
      BY <1>2, <3>1 DEF KnowsRows, over
    <3>4. k.pc \in {"update", "mod", "del"} => x.id # k.row.id
      BY <1>1, <1>4, <3>1 DEF Fits
    <3>5. KnowsRows(k, cartRows')
      BY <1>2, <3>1, <3>3, <3>4 DEF KnowsRows
    <3> QED
      BY <3>2, <3>5 DEF k
  <2> QED
    BY <2>1, <2>2
<1>16. \A q \in Reqs : Fits(cartReq[q], cartId)' /\ KnowsRows(cartReq[q], cartRows)'
  BY <1>2, <1>15 DEF Fits, KnowsRows, Ct!SameItem
<1>17. gone \subseteq 1..cartId /\ 1..cartId \subseteq 1..n /\ n \notin 1..cartId /\ n \in 1..n
  BY <1>1 DEF CartInv, Ct!TypeOK
<1>18. ASSUME NEW y \in cartRows PROVE y.id # n /\ y.id \in 1..n
  BY <1>1, CtParts
<1> HIDE DEF n
<1>19. Ct!TypeOK'
  <2>1. Ct!Key(x) \in Ct!Tables \X Users \X Items
    BY <1>4 DEF Ct!Key, Ct!Row
  <2>2. raced' \subseteq Ct!Tables \X Users \X Items
    BY <1>2, <2>1 DEF CartInv, Ct!TypeOK
  <2>0. x.count > 0
    BY <1>1, <1>4 DEF Fits
  <2>3. cartRows' \subseteq Ct!Row /\ \A y \in cartRows' : y.id \in 1..cartId' /\ y.count > 0
    BY <1>2, <1>4, <1>17, <1>18, <2>0, CtParts
  <2>4. \A y, z \in cartRows' : y.id = z.id => y = z
    BY <1>2, <1>4, <1>18, CtParts
  <2>5. gone' \subseteq 1..cartId' /\ cartId' \in Nat
    BY <1>1, <1>2, <1>17
  <2> QED
    BY <1>2, <1>9, <2>2, <2>3, <2>4, <2>5 DEF CartInv, Ct!TypeOK
<1>20. Ct!GoneStaysGone'
  BY <1>2, <1>4, <1>17, CtParts DEF Ct!GoneStaysGone
<1>21. Ct!TwiceOnlyIfRaced'
  <2>1. ASSUME NEW y \in cartRows, Ct!SameItem(x, y) \/ Ct!SameItem(y, x)
        PROVE  Ct!Key(x) \in raced' /\ Ct!Key(y) \in raced'
    <3>1. Ct!SameItem(cartReq[r].row, y) /\ Ct!Key(x) = Ct!Key(y)
      BY <1>4, <2>1 DEF Ct!SameItem, Ct!Key
    <3>2. cartReq[r].stale
      BY <1>1, <3>1 DEF KnowsRows
    <3> QED
      BY <1>2, <3>1, <3>2
  <2>2. ASSUME NEW y \in cartRows', NEW z \in cartRows', Ct!SameItem(y, z), y # z
        PROVE  Ct!Key(y) \in raced'
    <3>1. CASE y \in cartRows /\ z \in cartRows
      BY <1>2, <2>2, <3>1 DEF CartInv, Ct!RowsAsAsked, Ct!TwiceOnlyIfRaced
    <3>2. CASE y = x \/ z = x
      BY <1>2, <2>1, <2>2, <3>2
    <3> QED
      BY <1>2, <3>1, <3>2
  <2> QED
    BY <2>2 DEF Ct!TwiceOnlyIfRaced, Ct!SameItem, Ct!Key
<1> QED
  BY <1>14, <1>16, <1>19, <1>20, <1>21 DEF CartInv, Ct!RowsAsAsked

\* A step of a list: what it has loaded is the cart, or loses the rows that
\* the cart loses.
LEMMA ListShows ==
  ASSUME CartInv, NEW r \in Reqs, NEW h, CtTurns(r, h), cartReq[r].pc \in {"list", "check"},
         h.pc \in {"list", "check"}, h.c = cartReq[r].c, h.row = cartReq[r].row,
         UNCHANGED <<view, dirty, missed, failed>>,
         \A c \in Conns : HasRows(h) /\ Listing(h, c) =>
           \/ h.loaded = cartReq[r].loaded /\ HasRows(cartReq[r])
           \/ Settled(c) => Current(h.loaded, c, wiped', cartRows'),
         \A S : \A c \in Conns : Current(S, c, wiped, cartRows) => Current(S, c, wiped', cartRows')
  PROVE  OneList' /\ \A c \in Conns : Shows(c)'
<1>1. \A c \in Conns : \A q \in Reqs : Listing(cartReq'[q], c) <=> Listing(cartReq[q], c)
  BY DEF Listing, CtTurns
<1>2. \A q \in Reqs : Owes(cartReq'[q]) => Owes(cartReq[q]) /\ cartReq'[q].c = cartReq[q].c
  BY DEF Owes, CtTurns
<1>3. \A q \in Reqs : Owes(cartReq[q]) => Owes(cartReq'[q]) /\ cartReq'[q].c = cartReq[q].c
  BY DEF Owes, CtTurns
<1>4. OneList'
  <2>1. \A c \in Conns : \A p, q \in Reqs : Listing(cartReq'[p], c) /\ Listing(cartReq'[q], c) => p = q
    BY <1>1 DEF CartInv, OneList
  <2> QED
    BY <2>1 DEF OneList, Listing
<1>5. ASSUME NEW c \in Conns PROVE Shows(c)'
  <2> SUFFICES ASSUME Settled(c)'
               PROVE  /\ (\A q \in Reqs : ~Listing(cartReq'[q], c)) =>
                           Current(view[c], c, wiped', cartRows')
                      /\ \A q \in Reqs : Listing(cartReq'[q], c) /\ HasRows(cartReq'[q]) =>
                                           Current(cartReq'[q].loaded, c, wiped', cartRows')
    BY DEF Shows, Listing, Current, CartIn
  <2>1. \A q \in Reqs : Owes(cartReq'[q]) => Owner[cartReq'[q].c] # Owner[c]
    BY DEF Settled, Owes
  <2>2. Settled(c)
    BY <1>3, <2>1 DEF Settled
  <2>3. /\ (\A q \in Reqs : ~Listing(cartReq[q], c)) => Current(view[c], c, wiped, cartRows)
        /\ \A q \in Reqs : Listing(cartReq[q], c) /\ HasRows(cartReq[q]) =>
                             Current(cartReq[q].loaded, c, wiped, cartRows)
    BY <2>2 DEF CartInv, Shows
  <2>4. ASSUME NEW q \in Reqs, Listing(cartReq'[q], c), HasRows(cartReq'[q])
        PROVE  Current(cartReq'[q].loaded, c, wiped', cartRows')
    <3>1. CASE q # r
      BY <1>1, <2>3, <2>4, <3>1 DEF CtTurns
    <3>2. CASE q = r
      BY <1>1, <2>2, <2>3, <2>4, <3>2 DEF CtTurns
    <3> QED
      BY <3>1, <3>2
  <2> QED
    BY <1>1, <2>3, <2>4
<1> QED
  BY <1>4, <1>5

\* A list of the cart for connection d ends: it is shown, or listed again.
LEMMA ListEnds ==
  ASSUME Ct!ConstantsAssumption, CartInv, NEW r \in Reqs, NEW d \in Conns, Listing(cartReq[r], d),
         Ct!Finish(r), UNCHANGED <<cartRows, cartId, merchants, raced, gone, wiped>>,
         dirty \subseteq dirty', missed \subseteq missed', dirty' \subseteq Conns,
         missed' \subseteq Conns, failed' = failed \/ failed' = failed \cup {Owner[cartReq[r].c]},
         view' \in [Conns -> SUBSET Ct!Row], \A c \in Conns \ {d} : view'[c] = view[c],
         d \in dirty' \/ (cartReq[r].pc = "check" /\ view'[d] = cartReq[r].loaded)
  PROVE  CartInv'
<1>1. /\ Ct!Idle \in Ct!Request /\ Fits(Ct!Idle, cartId) /\ KnowsRows(Ct!Idle, cartRows)
      /\ \A c \in Conns : ~Listing(Ct!Idle, c)
      /\ ~Owes(Ct!Idle) /\ CtTurns(r, Ct!Idle)
  BY CtIdle, CtExcept DEF Listing, Ct!Finish, Owes
<1>2. Owner[cartReq[r].c] \in Users /\ failed \subseteq Users
  BY CtParts, RequestParts DEF Ct!ConstantsAssumption, CartInv, Ct!TypeOK
<1>3. ~Owes(cartReq[r]) /\ \A c \in Conns : Listing(cartReq[r], c) => c = d
  BY DEF Owes, Listing
<1>4. \A c \in Conns : \A q \in Reqs : Listing(cartReq'[q], c) <=> Listing(cartReq[q], c) /\ q # r
  BY <1>1 DEF CtTurns
<1>5. OneList'
  <2>1. \A c \in Conns : \A p, q \in Reqs : Listing(cartReq'[p], c) /\ Listing(cartReq'[q], c) => p = q
    BY <1>4 DEF CartInv, OneList
  <2> QED
    BY <2>1 DEF OneList, Listing
<1>6. ASSUME NEW c \in Conns PROVE Shows(c)'
  <2> SUFFICES ASSUME Settled(c)'
               PROVE  /\ (\A q \in Reqs : ~Listing(cartReq'[q], c)) =>
                           Current(view'[c], c, wiped, cartRows)
                      /\ \A q \in Reqs : Listing(cartReq'[q], c) /\ HasRows(cartReq'[q]) =>
                                           Current(cartReq'[q].loaded, c, wiped, cartRows)
    BY DEF Shows, Listing, Current, CartIn
  <2>1. /\ \A q \in Reqs : Owes(cartReq'[q]) => Owner[cartReq'[q].c] # Owner[c]
        /\ c \notin dirty' /\ c \notin missed' /\ Owner[c] \notin failed'
    BY DEF Settled, Owes
  <2>2. \A q \in Reqs : Owes(cartReq[q]) => Owner[cartReq[q].c] # Owner[c]
    BY <1>1, <1>3, <2>1 DEF CtTurns
  <2>3. Settled(c)
    BY <2>1, <2>2 DEF Settled
  <2>4. /\ (\A q \in Reqs : ~Listing(cartReq[q], c)) => Current(view[c], c, wiped, cartRows)
        /\ \A q \in Reqs : Listing(cartReq[q], c) /\ HasRows(cartReq[q]) =>
                             Current(cartReq[q].loaded, c, wiped, cartRows)
    BY <2>3 DEF CartInv, Shows
  <2>5. CASE c # d
    BY <1>1, <1>3, <1>4, <2>4, <2>5 DEF CtTurns
  <2>6. CASE c = d
    <3>1. Current(view'[c], c, wiped, cartRows)
      BY <2>1, <2>4, <2>6 DEF HasRows
    <3>2. \A q \in Reqs : ~Listing(cartReq'[q], c)
      BY <1>4, <2>6 DEF CartInv, OneList
    <3> QED
      BY <3>1, <3>2
  <2> QED
    BY <2>5, <2>6
<1>7. /\ Recounts(cartRows', cartRows) /\ TableOK(cartRows') /\ \A y \in cartRows' : y.id \notin gone'
      /\ gone' \subseteq 1..cartId /\ wiped' \subseteq gone' /\ KnowsRows(Ct!Idle, cartRows')
  BY <1>1, CtParts, FewerRecounts DEF TableOK, CartInv, Ct!TypeOK
<1>8. failed' \subseteq Users
  BY <1>2
<1> QED
  BY <1>1, <1>5, <1>6, <1>7, <1>8, CtStep

\* A step of a list that goes on
LEMMA ListStep ==
  ASSUME CartInv, NEW r \in Reqs, NEW h \in Ct!Request, cartReq' = [cartReq EXCEPT ![r] = h],
         cartReq[r].pc \in {"list", "check"}, h.pc \in {"list", "check"}, h.op = cartReq[r].op,
         h.c = cartReq[r].c, h.row = cartReq[r].row, h.pc = "check" \/ h.tried,
         UNCHANGED <<cartId, merchants, view, dirty, missed, raced, failed>>,
         Recounts(cartRows', cartRows), TableOK(cartRows'), \A y \in cartRows' : y.id \notin gone',
         gone' \subseteq 1..cartId, wiped' \subseteq gone',
         \A c \in Conns : HasRows(h) /\ Listing(h, c) =>
           \/ h.loaded = cartReq[r].loaded /\ HasRows(cartReq[r])
           \/ Settled(c) => Current(h.loaded, c, wiped', cartRows'),
         \A S : \A c \in Conns : Current(S, c, wiped, cartRows) => Current(S, c, wiped', cartRows')
  PROVE  CartInv'
<1>1. CtTurns(r, h)
  BY CtExcept
<1>2. OneList' /\ \A c \in Conns : Shows(c)'
  BY <1>1, ListShows
<1>3. Fits(h, cartId) /\ KnowsRows(h, cartRows')
  BY CtParts DEF Fits, KnowsRows
<1>4. view' \in [Conns -> SUBSET Ct!Row] /\ dirty' \subseteq Conns /\ missed' \subseteq Conns /\ failed' \subseteq Users
  BY DEF CartInv, Ct!TypeOK
<1> QED
  BY <1>1, <1>2, <1>3, <1>4, CtStep

\* The tables as they are
LEMMA SameTables ==
  ASSUME CartInv, UNCHANGED <<cartRows, gone, wiped>>
  PROVE  /\ Recounts(cartRows', cartRows) /\ TableOK(cartRows') /\ \A y \in cartRows' : y.id \notin gone'
         /\ gone' \subseteq 1..cartId /\ wiped' \subseteq gone'
         /\ \A S : \A c \in Conns : Current(S, c, wiped, cartRows) => Current(S, c, wiped', cartRows')
  BY CtParts, FewerRecounts DEF TableOK, CartInv, Ct!TypeOK

\* The rows are loaded, or loaded again: what was loaded before is still the
\* cart, when nobody has changed it since.
LEMMA CtListLoad ==
  ASSUME Ct!ConstantsAssumption, CartInv, NEW r \in Reqs, Ct!ListLoad(r)
  PROVE  CartInv'
<1> DEFINE x == cartReq[r].row
           new == {y \in cartRows : y.tab = x.tab /\ y.uid = x.uid}
           mine == cartReq[r].loaded \cup new
           ms == {MerchantOf[y.item] : y \in mine}
           h1 == [cartReq[r] EXCEPT !.pc = "check", !.loaded = mine, !.todo = ms]
           h2 == [cartReq[r] EXCEPT !.tried = TRUE, !.loaded = mine]
<1>1. /\ cartReq[r] \in Ct!Request /\ cartReq[r].pc = "list" /\ Fits(cartReq[r], cartId)
      /\ UNCHANGED <<cartRows, cartId, merchants, view, dirty, missed, raced, gone, wiped, failed>>
  BY CtParts DEF Ct!ListLoad, Ct!history
<1>2. cartReq' = [cartReq EXCEPT ![r] = h1] \/ cartReq' = [cartReq EXCEPT ![r] = h2]
  BY CtParts DEF Ct!ListLoad
<1>3. mine \subseteq Ct!Row
  BY <1>1, CtParts, RequestParts
<1>4. ms \subseteq Merchants
  <2>1. \A y \in mine : y.item \in Items
    BY <1>3, RowParts
  <2> QED
    BY <2>1 DEF Ct!ConstantsAssumption
<1>5. ASSUME NEW c \in Conns, Listing(cartReq[r], c), Settled(c) PROVE Current(mine, c, wiped, cartRows)
  <2>1. x.tab = "cart" /\ x.uid = Owner[c]
    BY <1>1, <1>5 DEF Fits, Listing
  <2>2. \A y \in new : y.id \notin wiped
    BY CtParts
  <2>3. new = CartIn(cartRows, Owner[c])
    BY <2>1 DEF CartIn
  <2>4. CASE cartReq[r].tried
    <3>1. Current(cartReq[r].loaded, c, wiped, cartRows)
      BY <1>5, <2>4 DEF CartInv, Shows, HasRows
    <3> QED
      BY <2>2, <2>3, <3>1 DEF Current
  <2>5. CASE ~cartReq[r].tried
    <3>1. mine = new
      BY <1>1, <2>5 DEF Fits
    <3> HIDE DEF mine, new
    <3> QED
      BY <2>2, <2>3, <3>1 DEF Current
  <2> QED
    BY <2>4, <2>5
<1> HIDE DEF mine, ms
<1>6. /\ h1 \in Ct!Request /\ h1.pc = "check" /\ h1.op = cartReq[r].op /\ h1.c = cartReq[r].c
      /\ h1.row = cartReq[r].row /\ h1.loaded = mine
      /\ h2 \in Ct!Request /\ h2.pc = "list" /\ h2.op = cartReq[r].op /\ h2.c = cartReq[r].c
      /\ h2.row = cartReq[r].row /\ h2.loaded = mine /\ h2.tried = TRUE
  BY <1>1, <1>3, <1>4 DEF Ct!Request, Ct!Pcs
<1>7. PICK h \in {h1, h2} : cartReq' = [cartReq EXCEPT ![r] = h]
  BY <1>2
<1> HIDE DEF h1, h2
<1>8. /\ h \in Ct!Request /\ h.pc \in {"list", "check"} /\ h.op = cartReq[r].op /\ h.c = cartReq[r].c
      /\ h.row = cartReq[r].row /\ h.loaded = mine /\ (h.pc = "check" \/ h.tried)
  BY <1>6, <1>7
<1>9. \A c \in Conns : Listing(h, c) => (Settled(c) => Current(h.loaded, c, wiped', cartRows'))
  BY <1>1, <1>5, <1>8 DEF Listing
<1> QED
  BY <1>1, <1>7, <1>8, <1>9, SameTables, ListStep

LEMMA CtListCheck ==
  ASSUME CartInv, NEW r \in Reqs, NEW m \in Merchants, Ct!ListCheck(r, m)
  PROVE  CartInv'
<1> DEFINE lost == IF m \in merchants THEN cartReq[r].vanished ELSE cartReq[r].vanished \cup {m}
           h == [cartReq[r] EXCEPT !.todo = @ \ {m}, !.vanished = lost]
<1>1. /\ cartReq[r] \in Ct!Request /\ cartReq[r].pc = "check"
      /\ UNCHANGED <<cartRows, cartId, merchants, view, dirty, missed, raced, gone, wiped, failed>>
  BY CtParts DEF Ct!ListCheck, Ct!history
<1>2. cartReq' = [cartReq EXCEPT ![r] = h]
  BY CtParts DEF Ct!ListCheck
<1>3. lost \subseteq Merchants /\ cartReq[r].todo \ {m} \subseteq Merchants
  BY <1>1, RequestParts
<1> HIDE DEF lost
<1>4. /\ h \in Ct!Request /\ h.pc = "check" /\ h.op = cartReq[r].op /\ h.c = cartReq[r].c
      /\ h.row = cartReq[r].row /\ h.loaded = cartReq[r].loaded
  BY <1>1, <1>3 DEF Ct!Request
<1> HIDE DEF h
<1>5. HasRows(cartReq[r])
  BY <1>1 DEF HasRows
<1> QED
  BY <1>1, <1>2, <1>4, <1>5, SameTables, ListStep

\* Rows of a merchant that does not exist are removed and are on record.
LEMMA CtListWipe ==
  ASSUME CartInv, NEW r \in Reqs, NEW m \in Merchants, Ct!ListWipe(r, m)
  PROVE  CartInv'
<1> DEFINE old == {y \in cartRows : y.tab = cartReq[r].row.tab /\ MerchantOf[y.item] = m}
           h1 == [cartReq[r] EXCEPT !.vanished = @ \ {m}]
           h2 == [cartReq[r] EXCEPT !.tried = TRUE]
<1>1. /\ cartReq[r] \in Ct!Request /\ cartReq[r].pc = "check" /\ cartRows' = cartRows \ old
      /\ gone' = gone \cup {y.id : y \in old} /\ wiped' = wiped \cup {y.id : y \in old}
      /\ UNCHANGED <<cartId, merchants, view, dirty, missed, raced, failed>>
      /\ cartReq' = [cartReq EXCEPT ![r] = h1] \/ cartReq' = [cartReq EXCEPT ![r] = h2]
  BY CtParts DEF Ct!ListWipe, Ct!Repeats
<1>2. cartReq[r].vanished \ {m} \subseteq Merchants
  BY <1>1, RequestParts
<1>3. /\ h1 \in Ct!Request /\ h1.pc = "check" /\ h1.op = cartReq[r].op /\ h1.c = cartReq[r].c
      /\ h1.row = cartReq[r].row /\ h1.loaded = cartReq[r].loaded
      /\ h2 \in Ct!Request /\ h2.pc = "check" /\ h2.op = cartReq[r].op /\ h2.c = cartReq[r].c
      /\ h2.row = cartReq[r].row /\ h2.loaded = cartReq[r].loaded
  BY <1>1, <1>2 DEF Ct!Request
<1>4. PICK h \in {h1, h2} : cartReq' = [cartReq EXCEPT ![r] = h]
  BY <1>1
<1> HIDE DEF h1, h2
<1>5. /\ Recounts(cartRows', cartRows) /\ TableOK(cartRows') /\ \A y \in cartRows' : y.id \notin gone'
      /\ gone' \subseteq 1..cartId
  BY <1>1, RemovedFacts
<1>6. wiped' \subseteq gone'
  BY <1>1 DEF CartInv, Ct!TypeOK
<1>7. ASSUME NEW S, NEW c \in Conns, Current(S, c, wiped, cartRows)
      PROVE  Current(S, c, wiped', cartRows')
  <2>1. \A y \in cartRows : y.id \in {z.id : z \in old} <=> y \in old
    BY CtParts
  <2>2. \A y \in S : y.id \notin wiped <=> y \in CartIn(cartRows, Owner[c])
    BY <1>7 DEF Current
  <2>3. \A y \in S : y.id \notin wiped' <=> y \in CartIn(cartRows', Owner[c])
    BY <1>1, <2>1, <2>2 DEF CartIn
  <2>4. CartIn(cartRows', Owner[c]) \subseteq S
    BY <1>1, <1>7 DEF Current, CartIn
  <2> QED
    BY <2>3, <2>4 DEF Current
<1>8. HasRows(cartReq[r])
  BY <1>1 DEF HasRows
<1> QED
  BY <1>1, <1>3, <1>4, <1>5, <1>6, <1>7, <1>8, ListStep

LEMMA CtListReply ==
  ASSUME Ct!ConstantsAssumption, CartInv, NEW r \in Reqs, Ct!ListReply(r)
  PROVE  CartInv'
<1> DEFINE d == cartReq[r].c
<1>1. /\ cartReq[r].pc = "check" /\ Ct!Finish(r) /\ d \in Conns /\ cartReq[r].loaded \subseteq Ct!Row
      /\ UNCHANGED <<cartRows, cartId, merchants, dirty, missed, raced, gone, wiped, failed>>
      /\ view' = IF cartReq[r].row.tab = "cart" THEN [view EXCEPT ![d] = cartReq[r].loaded] ELSE view
      /\ view \in [Conns -> SUBSET Ct!Row] /\ dirty \subseteq Conns /\ missed \subseteq Conns
  BY CtParts, RequestParts DEF Ct!ListReply, Ct!history, CartInv, Ct!TypeOK
<1>2. CASE cartReq[r].row.tab = "cart"
  <2>1. /\ Listing(cartReq[r], d) /\ view' \in [Conns -> SUBSET Ct!Row]
        /\ view'[d] = cartReq[r].loaded /\ \A c \in Conns \ {d} : view'[c] = view[c]
    BY <1>1, <1>2 DEF Listing
  <2> QED
    BY <1>1, <2>1, ListEnds
<1>3. CASE cartReq[r].row.tab # "cart"
  <2>1. ~Owes(cartReq[r]) /\ \A c \in Conns : ~Listing(cartReq[r], c)
    BY <1>1, <1>3 DEF Listing, Owes
  <2> QED
    BY <1>1, <1>3, <2>1, CtEnds
<1> QED
  BY <1>2, <1>3

LEMMA CtThrows ==
  ASSUME Ct!ConstantsAssumption, CartInv, NEW r \in Reqs, Ct!Throws(r)
  PROVE  CartInv'
<1> DEFINE d == cartReq[r].c
<1>1. /\ cartReq[r].pc # "notify" /\ Ct!Finish(r) /\ d \in Conns /\ Fits(cartReq[r], cartId)
      /\ UNCHANGED <<cartRows, cartId, merchants, view, raced, gone, wiped>>
      /\ dirty' = IF cartReq[r].op = "list" /\ cartReq[r].row.tab = "cart" THEN dirty \cup {d} ELSE dirty
      /\ failed' = IF cartReq[r].tried /\ cartReq[r].op # "list" THEN failed \cup {Owner[d]} ELSE failed
      /\ UNCHANGED missed /\ view \in [Conns -> SUBSET Ct!Row] /\ dirty \subseteq Conns /\ missed \subseteq Conns
  BY CtParts, RequestParts DEF Ct!Throws, Ct!Fails, CartInv, Ct!TypeOK
<1>2. CASE Listing(cartReq[r], d)
  <2>1. d \in dirty'
    BY <1>1, <1>2 DEF Listing, Fits
  <2> QED
    BY <1>1, <1>2, <2>1, ListEnds
<1>3. CASE ~Listing(cartReq[r], d)
  <2>1. \A c \in Conns : ~Listing(cartReq[r], c)
    BY <1>3 DEF Listing
  <2>2. Owes(cartReq[r]) => Owner[d] \in failed'
    BY <1>1 DEF Owes, Fits
  <2> QED
    BY <1>1, <2>1, <2>2, CtEnds
<1> QED
  BY <1>2, <1>3

\* A client that has to list the cart does so: it shows nothing that counts
\* until the list has loaded the rows.
LEMMA CtCartList ==
  ASSUME Ct!ConstantsAssumption, CartInv, NEW r \in Reqs, NEW d \in Conns, Ct!CartList(r, d)
  PROVE  CartInv'
<1> DEFINE x == Ct!NewRow(d, "cart", Ct!NoItem)
           h == Ct!Start(d, "list", "list", x)
<1>1. /\ cartReq[r].pc = "idle" /\ dirty' = dirty \ {d} /\ missed' = missed \ {d}
      /\ dirty \subseteq Conns /\ missed \subseteq Conns
      /\ \A q \in Reqs : ~(cartReq[q].pc # "idle" /\ cartReq[q].op = "list" /\ cartReq[q].c = d)
      /\ cartReq' = [cartReq EXCEPT ![r] = h]
      /\ UNCHANGED <<cartRows, cartId, merchants, view, raced, gone, wiped, failed>>
  BY DEF Ct!CartList, Ct!history, CartInv, Ct!TypeOK
<1>2. x \in Ct!Row /\ x.uid = Owner[d] /\ x.tab = "cart"
  <2>1. Ct!NoItem \in Items /\ Owner[d] \in Users
    BY DEF Ct!NoItem, Ct!ConstantsAssumption
  <2> QED
    BY <2>1 DEF Ct!NewRow, Ct!Row, Ct!Tables
<1> HIDE DEF x
<1>3. /\ h \in Ct!Request /\ h.c = d /\ h.op = "list" /\ h.pc = "list" /\ h.row = x
      /\ h.loaded = {} /\ h.tried = FALSE
  BY <1>2 DEF Ct!Start, Ct!Request, Ct!Pcs
<1> HIDE DEF h
<1>4. /\ Fits(h, cartId) /\ KnowsRows(h, cartRows) /\ CtTurns(r, h) /\ ~Owes(h) /\ ~Owes(cartReq[r])
      /\ ~HasRows(h) /\ \A c \in Conns : Listing(h, c) <=> c = d
      /\ \A c \in Conns : ~Listing(cartReq[r], c)
  BY <1>1, <1>2, <1>3, CtExcept DEF Fits, KnowsRows, Listing, Owes, HasRows
<1>5. \A q \in Reqs : ~Listing(cartReq[q], d)
  BY <1>1, CtParts DEF Listing, Fits
<1>6. OneList'
  <2>1. \A c \in Conns : \A p, q \in Reqs : Listing(cartReq'[p], c) /\ Listing(cartReq'[q], c) => p = q
    BY <1>4, <1>5 DEF CartInv, OneList, CtTurns
  <2> QED
    BY <2>1 DEF OneList, Listing
<1>7. ASSUME NEW c \in Conns PROVE Shows(c)'
  <2> SUFFICES ASSUME Settled(c)'
               PROVE  /\ (\A q \in Reqs : ~Listing(cartReq'[q], c)) =>
                           Current(view[c], c, wiped, cartRows)
                      /\ \A q \in Reqs : Listing(cartReq'[q], c) /\ HasRows(cartReq'[q]) =>
                                           Current(cartReq'[q].loaded, c, wiped, cartRows)
    BY <1>1 DEF Shows, Listing, Current, CartIn
  <2>1. CASE c = d
    BY <1>3, <1>4, <1>5, <2>1 DEF CtTurns
  <2>2. CASE c # d
    <3>1. /\ \A q \in Reqs : Owes(cartReq'[q]) => Owner[cartReq'[q].c] # Owner[c]
          /\ c \notin dirty' /\ c \notin missed' /\ Owner[c] \notin failed'
      BY DEF Settled, Owes
    <3>2. Settled(c)
      BY <1>1, <1>4, <2>2, <3>1 DEF Settled, CtTurns
    <3>3. /\ (\A q \in Reqs : ~Listing(cartReq[q], c)) => Current(view[c], c, wiped, cartRows)
          /\ \A q \in Reqs : Listing(cartReq[q], c) /\ HasRows(cartReq[q]) =>
                               Current(cartReq[q].loaded, c, wiped, cartRows)
      BY <3>2 DEF CartInv, Shows
    <3>4. \A q \in Reqs : /\ Listing(cartReq'[q], c) <=> Listing(cartReq[q], c)
                          /\ Listing(cartReq[q], c) => cartReq'[q] = cartReq[q]
      BY <1>4, <2>2 DEF CtTurns
    <3> QED
      BY <3>3, <3>4
  <2> QED
    BY <2>1, <2>2
<1>8. /\ Recounts(cartRows', cartRows) /\ TableOK(cartRows') /\ \A y \in cartRows' : y.id \notin gone'
      /\ gone' \subseteq 1..cartId /\ wiped' \subseteq gone' /\ KnowsRows(h, cartRows')
  BY <1>1, <1>4, SameTables
<1>9. view' \in [Conns -> SUBSET Ct!Row] /\ dirty' \subseteq Conns /\ missed' \subseteq Conns /\ failed' \subseteq Users
  BY <1>1 DEF CartInv, Ct!TypeOK
<1> QED
  BY <1>1, <1>4, <1>6, <1>7, <1>8, <1>9, CtStep

LEMMA CtCall ==
  ASSUME Ct!ConstantsAssumption, CartInv, NEW r \in Reqs, NEW c \in Conns, Ct!Call(r, c)
  PROVE  CartInv'
<1> DEFINE R(k, n) == [id |-> k, tab |-> "cart", uid |-> Owner[c], item |-> Ct!NoItem,
                       count |-> n]
<1>1. cartId \in Nat /\ 0 \in Nat /\ Counts \subseteq Nat /\ Ct!NoItem \in Items
  BY CtParts DEF Ct!ConstantsAssumption, Ct!NoItem
<1>2. ASSUME NEW i \in Items, NEW tab \in {"cart", "fav"}
      PROVE  /\ Ct!NewRow(c, tab, i) \in Ct!Row /\ Ct!NewRow(c, tab, i).uid = Owner[c]
             /\ Ct!NewRow(c, tab, i).tab = tab /\ Ct!NewRow(c, tab, i).count > 0
  <2>1. Owner[c] \in Users
    BY DEF Ct!ConstantsAssumption
  <2> QED
    BY <2>1 DEF Ct!NewRow, Ct!Row, Ct!Tables
<1>3. ASSUME NEW k \in 1..cartId, NEW n \in Nat
      PROVE  /\ R(k, n) \in Ct!Row /\ R(k, n).uid = Owner[c] /\ R(k, n).tab = "cart"
             /\ R(k, n).id <= cartId /\ R(k, n).count = n
  <2>1. Owner[c] \in Users /\ k \in Nat /\ k <= cartId
    BY <1>1 DEF Ct!ConstantsAssumption
  <2> QED
    BY <1>1, <2>1 DEF Ct!Row, Ct!Tables
<1>4. ASSUME NEW i \in Items, Ct!CartAdd(r, c, i) PROVE CartInv'
  BY <1>2, <1>4, CtArrive DEF Ct!CartAdd
<1>5. ASSUME NEW i \in Items, Ct!FavAdd(r, c, i) PROVE CartInv'
  BY <1>2, <1>5, CtArrive DEF Ct!FavAdd
<1>6. ASSUME NEW i \in Items, Ct!FavDel(r, c, i) PROVE CartInv'
  BY <1>2, <1>6, CtArrive DEF Ct!FavDel
<1>7. ASSUME Ct!FavList(r, c) PROVE CartInv'
  BY <1>1, <1>2, <1>7, CtArrive DEF Ct!FavList
<1>8. ASSUME NEW k \in 1..cartId, NEW n \in Counts, Ct!CartMod(r, c, k, n) PROVE CartInv'
  <2>1. Ct!Arrive(r, c, "mod", "load", R(k, n)) /\ UNCHANGED dirty /\ n \in Nat /\ n > 0
    BY <1>1, <1>8 DEF Ct!CartMod
  <2> HIDE DEF R
  <2> QED
    BY <1>3, <2>1, CtArrive
<1>9. ASSUME NEW k \in 1..cartId, Ct!CartDel(r, c, k) PROVE CartInv'
  <2>1. Ct!Arrive(r, c, "del", "load", R(k, 0)) /\ UNCHANGED dirty
    BY <1>9 DEF Ct!CartDel
  <2> HIDE DEF R
  <2> QED
    BY <1>1, <1>3, <2>1, CtArrive
<1> QED
  BY <1>4, <1>5, <1>6, <1>7, <1>8, <1>9, CtCartList DEF Ct!Call

\* A step that leaves all but the merchants as it is
LEMMA CtStutter ==
  ASSUME CartInv, merchants' \subseteq Merchants,
         UNCHANGED <<cartRows, cartId, cartReq, view, dirty, missed, raced, gone, wiped, failed>>
  PROVE  CartInv'
<1>1. Ct!TypeOK' /\ Ct!RowsAsAsked' /\ OneList'
  BY DEF CartInv, Ct!TypeOK, Ct!RowsAsAsked, Ct!GoneStaysGone, Ct!TwiceOnlyIfRaced,
         Ct!SameItem, Ct!Key, OneList, Listing
<1>2. \A r \in Reqs : Fits(cartReq[r], cartId)' /\ KnowsRows(cartReq[r], cartRows)'
  BY DEF CartInv, Fits, KnowsRows, Ct!SameItem
<1>3. \A c \in Conns : Shows(c)'
  BY DEF CartInv, Shows, Settled, Owes, Listing, Current, CartIn
<1> QED
  BY <1>1, <1>2, <1>3 DEF CartInv

LEMMA CartInvariant == Ct!ConstantsAssumption /\ Ct!Spec => []CartInv
<1> SUFFICES ASSUME Ct!ConstantsAssumption PROVE Ct!Spec => []CartInv
  OBVIOUS
<1>1. Ct!Init => CartInv
  <2> SUFFICES ASSUME Ct!Init PROVE CartInv
    OBVIOUS
  <2>1. /\ cartReq \in [Reqs -> Ct!Request] /\ \A r \in Reqs : cartReq[r] = Ct!Idle
        /\ cartRows = {} /\ \A r \in Reqs : cartReq[r].pc = "idle"
    BY CtIdle DEF Ct!Init
  <2>2. Ct!TypeOK
    <3>1. view \in [Conns -> SUBSET Ct!Row] /\ cartId \in Nat
      BY DEF Ct!Init
    <3> QED
      BY <2>1, <3>1 DEF Ct!Init, Ct!TypeOK
  <2>3. \A r \in Reqs : Fits(cartReq[r], cartId) /\ KnowsRows(cartReq[r], cartRows)
    BY <2>1, CtIdle
  <2>4. OneList
    BY <2>1 DEF OneList, Listing
  <2>5. \A c \in Conns : Current(view[c], c, wiped, cartRows)
    BY DEF Ct!Init, Current, CartIn
  <2>6. \A c \in Conns : Shows(c)
    BY <2>1, <2>5 DEF Shows, Listing
  <2>7. Ct!RowsAsAsked
    BY <2>1 DEF Ct!RowsAsAsked, Ct!GoneStaysGone, Ct!TwiceOnlyIfRaced
  <2> QED
    BY <2>2, <2>3, <2>4, <2>6, <2>7 DEF CartInv
<1>2. CartInv /\ [Ct!Next]_(Ct!vars) => CartInv'
  <2> SUFFICES ASSUME CartInv, [Ct!Next]_(Ct!vars) PROVE CartInv'
    OBVIOUS
  <2>1. CASE UNCHANGED Ct!vars
    BY <2>1, CtStutter DEF Ct!vars, CartInv, Ct!TypeOK
  <2>2. ASSUME NEW m \in Merchants, Ct!NewMerchant(m) PROVE CartInv'
    BY <2>2, CtStutter DEF Ct!NewMerchant, Ct!history, CartInv, Ct!TypeOK
  <2>3. ASSUME NEW r \in Reqs, Ct!Step(r) PROVE CartInv'
    BY <2>3, CtFind, CtInsert, CtUpdate, CtLoad, CtMod, CtDel, CtErase, CtNotify, CtListLoad,
       CtListReply, CtThrows, CtListCheck, CtListWipe
    DEF Ct!Step
  <2> QED
    BY <2>1, <2>2, <2>3, CtCall DEF Ct!Next
<1> QED
  BY <1>1, <1>2, PTL DEF Ct!Spec

\* cart_add, cart_del, fav_add, fav_del and the lists: a row that was removed
\* does not come back by a handler that loaded it before, and an item is in a
\* table twice only if adding it overlapped or was repeated, for any number
\* of users, connections, items and handlers.
THEOREM CartsAreAsAsked == Ct!Spec => []RowsAsAsked
<1>1. CartInv => RowsAsAsked
  BY DEF CartInv, RowsAsAsked
<1> QED
  BY <1>1, CartInvariant, ShopAssumption, PTL

\* cart_changed: when no handler is at work and no notification is on its way
\* to a client, it shows the cart of its user, although lists, changes and
\* notifications overlap in any way.
THEOREM CartViewsAreCurrent == Ct!Spec => []ViewsCurrent
<1>1. CartInv => ViewsCurrent
  <2> SUFFICES ASSUME CartInv, NEW c \in Conns \ (dirty \cup missed), \A r \in Reqs : cartReq[r].pc = "idle",
                      Owner[c] \notin failed
               PROVE  {x \in view[c] : x.id \notin wiped} = Ct!CartOf(Owner[c])
    BY DEF ViewsCurrent, Ct!ViewsCurrent
  <2>1. \A r \in Reqs : ~Listing(cartReq[r], c) /\ ~Owes(cartReq[r])
    BY DEF Listing, Owes
  <2>2. Current(view[c], c, wiped, cartRows)
    BY <2>1 DEF CartInv, Shows, Settled
  <2> QED
    BY <2>2 DEF Current, CartIn, Ct!CartOf
<1> QED
  BY <1>1, CartInvariant, ShopAssumption, PTL

\* cart_add and cart_mod: a row keeps its user and its item for ever, and its
\* count is changed by a call on a connection of that user only, although
\* cart_mod takes the id of any row and cart_add writes back what it has read
\* before.
THEOREM OwnersChangeTheirRows == Ct!Spec => OwnersChangeRows
<1>1. CartInv /\ [Ct!Next]_(Ct!vars) => [Ct!RowsChange]_(Ct!vars)
  <2> SUFFICES ASSUME CartInv, Ct!Next, NEW x \in cartRows, NEW y \in cartRows', x.id = y.id, x # y
               PROVE  /\ Ct!SameItem(x, y)
                      /\ \E r \in Reqs : /\ cartReq[r].pc \in {"update", "mod"}
                                         /\ Owner[cartReq[r].c] = x.uid
    BY DEF Ct!RowsChange
  <2>1. x.id <= cartId /\ x.id \in Nat /\ cartId \in Nat /\ \A z \in cartRows : z.id = x.id => z = x
    BY CtParts
  <2>2. ~(cartRows' \subseteq cartRows)
    BY <2>1
  <2>3. PICK r \in Reqs : Ct!Insert(r) \/ Ct!Update(r) \/ Ct!Mod(r)
    <3>1. \A r \in Reqs, c \in Conns : Ct!Call(r, c) => cartRows' = cartRows
      BY DEF Ct!Call, Ct!CartAdd, Ct!FavAdd, Ct!FavDel, Ct!CartMod, Ct!CartDel,
             Ct!CartList, Ct!FavList, Ct!Arrive
    <3>2. \A r \in Reqs : Ct!Find(r) \/ Ct!Load(r) \/ Ct!Notify(r) => cartRows' = cartRows
      BY DEF Ct!Find, Ct!Load, Ct!Notify
    <3>3. \A r \in Reqs : Ct!Del(r) \/ Ct!Erase(r) => cartRows' \subseteq cartRows
      BY DEF Ct!Del, Ct!Erase
    <3>4. \A r \in Reqs : Ct!ListLoad(r) \/ Ct!ListReply(r) \/ Ct!Throws(r) => cartRows' = cartRows
      BY DEF Ct!ListLoad, Ct!ListReply, Ct!Throws
    <3>5. \A r \in Reqs, m \in Merchants :
            Ct!ListCheck(r, m) \/ Ct!ListWipe(r, m) => cartRows' \subseteq cartRows
      BY DEF Ct!ListCheck, Ct!ListWipe
    <3>6. \A m \in Merchants : Ct!NewMerchant(m) => cartRows' = cartRows
      BY DEF Ct!NewMerchant
    <3>7. PICK r \in Reqs : Ct!Step(r)
      BY <2>2, <3>1, <3>6 DEF Ct!Next
    <3> QED
      BY <2>2, <3>2, <3>3, <3>4, <3>5, <3>7 DEF Ct!Step
  <2>4. /\ cartReq[r] \in Ct!Request /\ Fits(cartReq[r], cartId) /\ KnowsRows(cartReq[r], cartRows)
        /\ cartReq[r].row \in Ct!Row
    BY CtParts, RequestParts
  <2>5. CASE Ct!Insert(r)
    <3> DEFINE z == [cartReq[r].row EXCEPT !.id = cartId + 1]
    <3>1. cartRows' = cartRows \cup {z}
      BY <2>5 DEF Ct!Insert
    <3>2. z.id = cartId + 1
      BY <2>4 DEF Ct!Row
    <3> HIDE DEF z
    <3> QED
      BY <2>1, <3>1, <3>2
  <2>6. CASE Ct!Update(r)
    <3>1. y = cartReq[r].row /\ cartReq[r].pc = "update"
      BY <2>1, <2>6 DEF Ct!Update
    <3> QED
      BY <2>4, <3>1 DEF Fits, KnowsRows, Ct!SameItem
  <2>7. CASE Ct!Mod(r)
    <3> DEFINE N(z) == IF z.id = cartReq[r].row.id THEN [z EXCEPT !.count = cartReq[r].row.count] ELSE z
    <3>1. cartReq[r].pc = "mod" /\ cartRows' = {N(z) : z \in cartRows}
      BY <2>7 DEF Ct!Mod
    <3>2. PICK z \in cartRows : y = N(z)
      BY <3>1
    <3>3. z \in Ct!Row
      BY CtParts
    <3>4. /\ y.id = z.id /\ y.tab = z.tab /\ y.uid = z.uid /\ y.item = z.item
          /\ (z.id # cartReq[r].row.id => y = z)
      BY <3>2, <3>3 DEF Ct!Row
    <3>5. z = x /\ x.id = cartReq[r].row.id
      BY <2>1, <3>4
    <3> QED
      BY <2>4, <3>1, <3>4, <3>5 DEF KnowsRows, Ct!SameItem
  <2> QED
    BY <2>3, <2>5, <2>6, <2>7
<1> QED
  BY <1>1, CartInvariant, ShopAssumption, PTL
  DEF Ct!Spec, OwnersChangeRows, Ct!OwnersChangeRows

-----------------------------------------------------------------------------
(* OrderCreate *)

\* s holds the sums of the first prices of goods g, up to n of them.
AddsUp(g, n, s) == s[0] = 0 /\ \A k \in 1..n : s[k] = s[k - 1] + g[k].price

Totals(g, n, s) == s \in [0..n -> Nat] /\ AddsUp(g, n, s)

\* What the prices of goods are.
LEMMA Prices ==
  ASSUME NEW g \in Seq(Oc!Snapshot)
  PROVE  Len(g) \in Nat /\ \A k \in 1..Len(g) : g[k] \in Oc!Snapshot /\ g[k].price \in Nat
<1>1. Len(g) \in Nat /\ \A k \in 1..Len(g) : g[k] \in Oc!Snapshot
  OBVIOUS
<1>2. \A x \in Oc!Snapshot : x.price \in Nat
  BY DEF Oc!Snapshot
<1> QED
  BY <1>1, <1>2

\* There are sums of the prices, by induction on their number: the least
\* number without them would follow one that has them.
LEMMA TotalsExist ==
  ASSUME NEW g \in Seq(Oc!Snapshot)
  PROVE  \E s : Totals(g, Len(g), s)
<1> DEFINE Have(n) == \E s : Totals(g, n, s)
           T == {n \in 0..Len(g) : ~Have(n)}
<1>1. Len(g) \in Nat /\ \A k \in 1..Len(g) : g[k].price \in Nat
  BY Prices
<1>2. Have(0)
  <2>1. Totals(g, 0, [k \in 0..0 |-> 0])
    BY DEF Totals, AddsUp
  <2> QED
    BY <2>1
<1>3. ASSUME NEW n \in Nat, n < Len(g), Have(n)
      PROVE  Have(n + 1)
  <2>1. PICK s : Totals(g, n, s)
    BY <1>3
  <2> DEFINE t == [k \in 0..(n + 1) |-> IF k <= n THEN s[k] ELSE s[n] + g[n + 1].price]
  <2>2. n + 1 \in 1..Len(g) /\ n \in 0..n
    BY <1>1, <1>3
  <2>3. g[n + 1].price \in Nat /\ s[n] \in Nat /\ s \in [0..n -> Nat]
    BY <1>1, <2>1, <2>2 DEF Totals, AddsUp
  <2>4. t \in [0..(n + 1) -> Nat] /\ t[0] = 0
    BY <2>1, <2>3 DEF Totals, AddsUp
  <2>5. ASSUME NEW k \in 1..(n + 1) PROVE t[k] = t[k - 1] + g[k].price
    <3>1. CASE k = n + 1
      <4>1. t[k] = s[n] + g[k].price /\ t[k - 1] = s[n]
        BY <3>1
      <4> QED
        BY <4>1
    <3>2. CASE k # n + 1
      <4>1. k \in 1..n
        BY <3>2
      <4>2. t[k] = s[k] /\ t[k - 1] = s[k - 1]
        BY <4>1
      <4>3. s[k] = s[k - 1] + g[k].price
        BY <2>1, <4>1 DEF Totals, AddsUp
      <4> QED
        BY <4>2, <4>3
    <3> QED
      BY <3>1, <3>2
  <2> QED
    BY <2>4, <2>5 DEF Totals, AddsUp
<1> HIDE DEF Have
<1>4. SUFFICES ASSUME ~Have(Len(g)) PROVE FALSE
  BY DEF Have
<1>5. T \subseteq Nat /\ T # {}
  BY <1>1, <1>4
<1>6. PICK n \in T : \A m \in T : n <= m
  BY <1>5, Least
<1>7. n \in Nat /\ n <= Len(g) /\ ~Have(n) /\ n # 0
  BY <1>1, <1>2, <1>6
<1>8. n - 1 \in Nat /\ n - 1 < Len(g) /\ n - 1 \notin T
  BY <1>1, <1>6, <1>7
<1>9. Have(n - 1)
  BY <1>1, <1>8
<1>10. Have((n - 1) + 1)
  BY <1>3, <1>8, <1>9
<1> QED
  BY <1>7, <1>10

\* And there is one such list of sums, by the same induction.
LEMMA TotalsUnique ==
  ASSUME NEW g, NEW n \in Nat, NEW s, NEW t, AddsUp(g, n, s), AddsUp(g, n, t)
  PROVE  \A k \in 0..n : s[k] = t[k]
<1> DEFINE T == {k \in 0..n : s[k] # t[k]}
<1>1. SUFFICES ASSUME T # {} PROVE FALSE
  OBVIOUS
<1>2. PICK k \in T : \A m \in T : k <= m
  <2>1. T \subseteq Nat
    OBVIOUS
  <2> HIDE DEF T
  <2> QED
    BY <1>1, <2>1, Least
<1>3. k \in 1..n /\ k - 1 \in 0..n
  BY <1>2 DEF AddsUp
<1>4. s[k - 1] = t[k - 1]
  BY <1>2, <1>3
<1> QED
  BY <1>2, <1>3, <1>4 DEF AddsUp

\* Sum is the last of the sums.
LEMMA SumIs ==
  ASSUME NEW g \in Seq(Oc!Snapshot), NEW s, Totals(g, Len(g), s)
  PROVE  Oc!Sum(g) = s[Len(g)] /\ Oc!Sum(g) \in Nat
<1> DEFINE F(t) == [n \in 0..Len(g) |-> IF n = 0 THEN 0 ELSE t[n - 1] + g[n].price]
           c == CHOOSE t : t = F(t)
<1>1. Len(g) \in Nat /\ \A k \in 1..Len(g) : g[k].price \in Nat
  BY Prices
<1>2. s = F(s)
  BY <1>1 DEF Totals, AddsUp
<1>3. c = F(c)
  BY <1>2
<1>4. Oc!Sum(g) = c[Len(g)]
  BY DEF Oc!Sum
<1>5. AddsUp(g, Len(g), c)
  <2> HIDE DEF c
  <2> QED
    BY <1>1, <1>3 DEF AddsUp
<1>6. AddsUp(g, Len(g), s)
  BY DEF Totals
<1> HIDE DEF c, F
<1>7. \A k \in 0..Len(g) : c[k] = s[k]
  <2> DEFINE n == Len(g)
  <2>1. n \in Nat /\ AddsUp(g, n, c) /\ AddsUp(g, n, s)
    BY <1>1, <1>5, <1>6
  <2>2. \A k \in 0..n : c[k] = s[k]
    <3> HIDE DEF n
    <3> QED
      BY <2>1, TotalsUnique
  <2> QED
    BY <2>2
<1>8. Len(g) \in 0..Len(g) /\ s[Len(g)] \in Nat
  BY <1>1 DEF Totals
<1> QED
  BY <1>4, <1>7, <1>8

\* The sum of no goods is zero, and one more good adds its price.
LEMMA SumFacts ==
  /\ Oc!Sum(<<>>) = 0
  /\ \A g \in Seq(Oc!Snapshot), x \in Oc!Snapshot :
       Oc!Sum(g) \in Nat /\ Oc!Sum(Append(g, x)) = Oc!Sum(g) + x.price
<1>1. Oc!Sum(<<>>) = 0
  <2>1. <<>> \in Seq(Oc!Snapshot) /\ Len(<<>>) = 0
    OBVIOUS
  <2>2. PICK s : Totals(<<>>, Len(<<>>), s)
    BY <2>1, TotalsExist
  <2>3. Oc!Sum(<<>>) = s[0]
    BY <2>1, <2>2, SumIs
  <2> QED
    BY <2>2, <2>3 DEF Totals, AddsUp
<1>2. ASSUME NEW g \in Seq(Oc!Snapshot), NEW x \in Oc!Snapshot
      PROVE  Oc!Sum(g) \in Nat /\ Oc!Sum(Append(g, x)) = Oc!Sum(g) + x.price
  <2> DEFINE h == Append(g, x)
             n == Len(g)
  <2>1. n \in Nat /\ h \in Seq(Oc!Snapshot) /\ Len(h) = n + 1
        /\ h[n + 1] = x /\ \A k \in 1..n : h[k] = g[k]
    OBVIOUS
  <2>2. PICK s : Totals(g, Len(g), s)
    BY TotalsExist
  <2>3. PICK t : Totals(h, Len(h), t)
    BY <2>1, TotalsExist
  <2>4. Oc!Sum(g) = s[n] /\ Oc!Sum(g) \in Nat
    BY <2>2, SumIs
  <2>5. Oc!Sum(h) = t[n + 1]
    BY <2>1, <2>3, SumIs
  <2> HIDE DEF h
  <2>6. AddsUp(g, n, s) /\ AddsUp(g, n, t)
    BY <2>1, <2>2, <2>3 DEF Totals, AddsUp
  <2>7. \A k \in 0..n : s[k] = t[k]
    <3>1. n \in Nat
      BY <2>1
    <3> HIDE DEF n
    <3> QED
      BY <2>6, <3>1, TotalsUnique
  <2>8. t[n + 1] = t[n] + x.price
    <3>1. n + 1 \in 1..Len(h) /\ (n + 1) - 1 = n
      BY <2>1
    <3> QED
      BY <2>1, <2>3, <3>1 DEF Totals, AddsUp
  <2>9. s[n] = t[n]
    BY <2>1, <2>7
  <2> QED
    BY <2>4, <2>5, <2>8, <2>9 DEF h
<1> QED
  BY <1>1, <1>2

\* What handler h has taken of its list, h being at work or stored: prices
\* and versions are of HEADs it has seen, all of one seller, the price is
\* their sum, what is to do is the end of the list, and what is done is in
\* the order or was of merchants that were away.
Right(h) ==
  /\ \A j \in 1..Len(h.goods) :
       /\ h.goods[j].version \in h.heads
       /\ h.goods[j].price = Offer[h.goods[j].version][h.goods[j].item].price
       /\ SellerOf[h.goods[j].item] = h.seller
  /\ h.seller = None => h.goods = <<>> /\ h.price = 0 /\ h.fee = 0
  /\ h.price = Oc!Sum(h.goods)
  /\ Len(h.todo) <= Len(h.list)
  /\ \A i \in 1..Len(h.todo) : h.todo[i] = h.list[(Len(h.list) - Len(h.todo)) + i]
  /\ Oc!InOrder(h, Len(h.list) - Len(h.todo))
  /\ h.pc \in {"goods", "add"} => h.moved \/ h.to = h.chosen
  /\ h.pc = "add" => h.todo = <<>>
  /\ h.closed \subseteq h.away

\* What handler h has seen of the HEADs hd, the merchants' states st and the
\* recipients rec.
Sees(h, hd, st, rec) ==
  /\ \A m \in Sellers : hd[m] \in h.heads /\ (st[m] # "normal" => m \in h.away)
  /\ h.pc = "user" /\ ~h.moved =>
       h.place < Len(rec) /\ rec[h.place + 1] = h.chosen

\* A handler of its type, as Oc!TypeOK has it
Typed(h) ==
  /\ h \in Oc!Handler /\ h.closed \subseteq h.known
  /\ h.pc = "goods" <=> h.todo # <<>> /\ h.to # None

OrderInv ==
  /\ Oc!TypeOK
  /\ \A r \in Reqs : orderReq[r].pc # "idle" =>
       Right(orderReq[r]) /\ Sees(orderReq[r], head, state, recipients)
  /\ \A o \in Oc!Stored : Right(o) /\ o.pc = "add"

\* The parts of a handler.
LEMMA OcParts ==
  ASSUME NEW h \in Oc!Handler
  PROVE  /\ h.pc \in {"idle", "user", "goods", "add"} /\ h.place \in Nat
         /\ h.todo \in Seq(Wares) /\ h.known \subseteq Sellers
         /\ h.closed \subseteq Sellers /\ h.to \in Addresses \cup {None}
         /\ h.seller \in Sellers \cup {None} /\ h.goods \in Seq(Oc!Snapshot)
         /\ h.price \in Nat /\ h.fee \in Nat /\ h.snap \in Commits \cup {None}
         /\ h.list \in Seq(Wares) /\ h.chosen \in Addresses \cup {None}
         /\ h.moved \in BOOLEAN /\ h.heads \subseteq Commits
         /\ h.away \subseteq Sellers
  BY DEF Oc!Handler

\* A handler without a call
LEMMA OcIdle == Typed(Oc!Idle) /\ Oc!Idle.pc = "idle"
<1>1. <<>> \in Seq(Wares) /\ <<>> \in Seq(Oc!Snapshot)
  OBVIOUS
<1>2. Oc!Idle \in Oc!Handler
  BY <1>1 DEF Oc!Idle, Oc!Handler
<1> QED
  BY <1>2 DEF Typed, Oc!Idle

\* When one handler r goes on as h.
LEMMA OcTurn ==
  ASSUME OrderInv, NEW r \in Reqs, NEW h, Typed(h),
         h.pc # "idle" => Right(h) /\ Sees(h, head, state, recipients),
         orderReq' = [orderReq EXCEPT ![r] = h], orderCalls' \in Nat,
         UNCHANGED <<head, state, recipients, shown, orders, changes>>
  PROVE  OrderInv'
<1>1. orderReq \in [Reqs -> Oc!Handler] /\ h \in Oc!Handler
  BY DEF OrderInv, Oc!TypeOK, Typed
<1>2. /\ orderReq' \in [Reqs -> Oc!Handler] /\ orderReq'[r] = h
      /\ \A q \in Reqs : q # r => orderReq'[q] = orderReq[q]
  BY <1>1
<1>3. Oc!Stored' = Oc!Stored
  BY DEF Oc!Stored
<1>4. Oc!TypeOK'
  BY <1>2, <1>3 DEF OrderInv, Oc!TypeOK, Typed
<1>5. \A q \in Reqs : orderReq'[q].pc # "idle" =>
        Right(orderReq'[q]) /\ Sees(orderReq'[q], head, state, recipients)
  BY <1>2 DEF OrderInv
<1> QED
  BY <1>3, <1>4, <1>5 DEF OrderInv

\* When the world changes and every handler notices.
LEMMA OcWorld ==
  ASSUME OrderInv, orderReq' \in [Reqs -> Oc!Handler], changes' \in Nat,
         head' \in [Sellers -> Commits],
         state' \in [Sellers -> {"normal", "disabled", "unknown"}],
         recipients' \in Seq(Addresses), shown' \in Seq(Addresses),
         \A q \in Reqs : Typed(orderReq'[q]),
         \A q \in Reqs : orderReq'[q].pc # "idle" =>
           Right(orderReq'[q]) /\ Sees(orderReq'[q], head', state', recipients'),
         UNCHANGED <<orders, orderCalls>>
  PROVE  OrderInv'
<1>1. Oc!Stored' = Oc!Stored
  BY DEF Oc!Stored
<1>2. Oc!TypeOK'
  BY <1>1 DEF OrderInv, Oc!TypeOK, Typed
<1> QED
  BY <1>1, <1>2 DEF OrderInv

\* A handler that has bought and left out no more keeps what it has.
LEMMA OcAlike ==
  ASSUME NEW h, NEW k, Right(h), k.goods = h.goods, k.seller = h.seller,
         k.price = h.price, k.fee = h.fee, k.todo = h.todo, k.list = h.list,
         h.heads \subseteq k.heads, h.away \subseteq k.away,
         k.closed \subseteq k.away,
         k.pc \in {"goods", "add"} => k.moved \/ k.to = k.chosen,
         k.pc = "add" => k.todo = <<>>
  PROVE  Right(k)
<1> DEFINE n == Len(h.list) - Len(h.todo)
<1>1. Oc!InOrder(h, n)
  BY DEF Right
<1>2. Oc!InOrder(k, n)
  <2> HIDE DEF n
  <2> QED
    BY <1>1 DEF Oc!InOrder
<1> QED
  BY <1>2 DEF Right

\* The call
LEMMA OcCreate ==
  ASSUME OrderInv, Oc!ConstantsAssumption, NEW r \in Reqs, NEW l \in Baskets,
         NEW i \in 1..Len(shown), Oc!Create(r, l, i)
  PROVE  OrderInv'
<1> DEFINE h == [Oc!Idle EXCEPT !.pc = "user", !.place = i - 1,
                   !.todo = l, !.list = l, !.chosen = shown[i],
                   !.moved = ~Oc!IsPrefix(shown, recipients),
                   !.heads = {head[m] : m \in Sellers}, !.away = Oc!Away]
<1>1. /\ l \in Seq(Wares) /\ shown \in Seq(Addresses) /\ recipients \in Seq(Addresses)
      /\ head \in [Sellers -> Commits] /\ orderCalls \in Nat
  BY DEF OrderInv, Oc!TypeOK, Oc!ConstantsAssumption
<1>2. i - 1 \in Nat /\ shown[i] \in Addresses
  BY <1>1
<1>3. /\ h.pc = "user" /\ h.place = i - 1 /\ h.todo = l /\ h.list = l
      /\ h.chosen = shown[i] /\ h.moved = ~Oc!IsPrefix(shown, recipients)
      /\ h.heads = {head[m] : m \in Sellers} /\ h.away = Oc!Away
      /\ h.goods = <<>> /\ h.seller = None /\ h.price = 0 /\ h.fee = 0
      /\ h.closed = {} /\ h.known = {} /\ h.to = None
  BY DEF Oc!Idle
<1>4. h \in Oc!Handler
  <2>1. Oc!Idle \in Oc!Handler
    BY OcIdle DEF Typed
  <2>2. Oc!Away \subseteq Sellers /\ {head[m] : m \in Sellers} \subseteq Commits
    BY <1>1 DEF Oc!Away
  <2>3. (~Oc!IsPrefix(shown, recipients)) \in BOOLEAN
    OBVIOUS
  <2> QED
    BY <1>1, <1>2, <2>1, <2>2, <2>3 DEF Oc!Handler
<1>5. orderReq' = [orderReq EXCEPT ![r] = h] /\ orderCalls' = orderCalls + 1
      /\ UNCHANGED <<head, state, recipients, shown, orders, changes>>
  BY DEF Oc!Create, Oc!outside
<1> HIDE DEF h
<1>6. Right(h)
  <2>1. Len(h.list) - Len(h.todo) = 0 /\ Len(h.goods) = 0
        /\ \A k \in 1..Len(l) : (Len(l) - Len(l)) + k = k
    BY <1>1, <1>3
  <2>2. Oc!InOrder(h, 0)
    <3> DEFINE f == [j \in 1..0 |-> j]
    <3>1. 1..Len(h.goods) = {} /\ 1..0 = {}
      BY <2>1
    <3>2. f \in [1..Len(h.goods) -> 1..0]
      BY <3>1
    <3> HIDE DEF f
    <3> QED
      BY <3>1, <3>2 DEF Oc!InOrder
  <2>3. Oc!Sum(h.goods) = 0
    BY <1>3, SumFacts
  <2> QED
    BY <1>1, <1>3, <2>1, <2>2, <2>3 DEF Right
<1>7. Sees(h, head, state, recipients)
  <2>1. ASSUME ~h.moved
        PROVE  h.place < Len(recipients) /\ recipients[h.place + 1] = h.chosen
    <3>1. Oc!IsPrefix(shown, recipients)
      BY <1>3, <2>1
    <3>2. Len(shown) <= Len(recipients) /\ i \in 1..Len(shown) /\ Len(shown) \in Nat
          /\ Len(recipients) \in Nat
          /\ SubSeq(shown, 1, Len(shown)) = SubSeq(recipients, 1, Len(shown))
      BY <1>1, <3>1 DEF Oc!IsPrefix
    <3>3. SubSeq(shown, 1, Len(shown))[i] = shown[i]
      BY <1>1, <3>2
    <3>4. SubSeq(recipients, 1, Len(shown))[i] = recipients[i]
      BY <1>1, <3>2
    <3>5. h.place + 1 = i /\ h.place < Len(recipients)
      BY <1>3, <3>2
    <3> QED
      BY <1>3, <3>2, <3>3, <3>4, <3>5
  <2> QED
    BY <1>3, <2>1 DEF Sees, Oc!Away
<1>8. Typed(h)
  BY <1>3, <1>4 DEF Typed
<1>9. orderCalls' \in Nat
  BY <1>1, <1>5
<1> QED
  BY <1>5, <1>6, <1>7, <1>8, <1>9, OcTurn

\* The user is loaded, and the recipient is the one at the place.
LEMMA OcLoadUser ==
  ASSUME OrderInv, Oc!ConstantsAssumption, NEW r \in Reqs, Oc!LoadUser(r)
  PROVE  OrderInv'
<1> DEFINE h == orderReq[r]
           k == [h EXCEPT !.to = recipients[h.place + 1],
                          !.pc = IF h.todo = <<>> THEN "add" ELSE "goods"]
<1>1. /\ h \in Oc!Handler /\ Right(h) /\ Sees(h, head, state, recipients)
      /\ h.closed \subseteq h.known /\ h.pc = "user" /\ recipients \in Seq(Addresses)
      /\ orderCalls \in Nat
  BY DEF OrderInv, Oc!TypeOK, Oc!LoadUser
<1>2. UNCHANGED <<head, state, recipients, shown, orders, orderCalls, changes>>
  BY DEF Oc!LoadUser, Oc!outside
<1>3. CASE ~(h.place < Len(recipients))
  <2>1. orderReq' = [orderReq EXCEPT ![r] = Oc!Idle]
    BY <1>3 DEF Oc!LoadUser, Oc!Finish
  <2> QED
    BY <1>1, <1>2, <2>1, OcIdle, OcTurn
<1>4. CASE h.place < Len(recipients)
  <2>1. orderReq' = [orderReq EXCEPT ![r] = k]
    BY <1>4 DEF Oc!LoadUser
  <2>2. h.place + 1 \in 1..Len(recipients) /\ recipients[h.place + 1] \in Addresses
    BY <1>1, <1>4, OcParts
  <2>3. recipients[h.place + 1] # None
    BY <2>2 DEF Oc!ConstantsAssumption
  <2>4. k \in Oc!Handler
    BY <1>1, <2>2 DEF Oc!Handler
  <2>5. /\ k.to = recipients[h.place + 1] /\ k.goods = h.goods /\ k.seller = h.seller
        /\ k.price = h.price /\ k.fee = h.fee /\ k.todo = h.todo /\ k.list = h.list
        /\ k.heads = h.heads /\ k.away = h.away /\ k.closed = h.closed
        /\ k.known = h.known /\ k.moved = h.moved /\ k.chosen = h.chosen
        /\ k.pc = IF h.todo = <<>> THEN "add" ELSE "goods"
    BY <1>1 DEF Oc!Handler
  <2> HIDE DEF k
  <2>6. k.moved \/ k.to = k.chosen
    BY <1>1, <2>5 DEF Sees
  <2>7. h.closed \subseteq h.away
    BY <1>1 DEF Right
  <2>8. Right(k)
    <3> HIDE DEF h
    <3> QED
      BY <1>1, <2>5, <2>6, <2>7, OcAlike
  <2>9. Sees(k, head, state, recipients) /\ Typed(k)
    BY <1>1, <2>3, <2>4, <2>5 DEF Sees, Typed
  <2> QED
    BY <1>1, <1>2, <2>1, <2>8, <2>9, OcTurn
<1> QED
  BY <1>3, <1>4

\* An item of a merchant that was away may be left out.
LEMMA LeftOut ==
  ASSUME NEW h, NEW k, NEW n \in Nat, Oc!InOrder(h, n), k.goods = h.goods,
         k.list = h.list, k.away = h.away, SellerOf[h.list[n + 1]] \in h.away,
         Len(h.goods) \in Nat
  PROVE  Oc!InOrder(k, n + 1)
<1> DEFINE N == Len(h.goods)
<1>1. PICK f \in [1..N -> 1..n] :
        /\ \A j \in 1..N : h.goods[j].item = h.list[f[j]]
        /\ \A i, j \in 1..N : i < j => f[i] < f[j]
        /\ \A i \in 1..n : (\E j \in 1..N : f[j] = i) \/ SellerOf[h.list[i]] \in h.away
  BY DEF Oc!InOrder
<1>2. f \in [1..N -> 1..(n + 1)]
  BY <1>1
<1>3. \A i \in 1..(n + 1) : (\E j \in 1..N : f[j] = i) \/ SellerOf[h.list[i]] \in h.away
  <2>1. \A i \in 1..(n + 1) : i = n + 1 \/ i \in 1..n
    OBVIOUS
  <2> QED
    BY <1>1, <2>1
<1> QED
  BY <1>1, <1>2, <1>3 DEF Oc!InOrder

\* A good that is bought comes last.
LEMMA PutLast ==
  ASSUME NEW h, NEW k, NEW n \in Nat, Oc!InOrder(h, n), h.goods \in Seq(Oc!Snapshot),
         NEW x \in Oc!Snapshot, k.goods = Append(h.goods, x),
         k.list = h.list, k.away = h.away, x.item = h.list[n + 1]
  PROVE  Oc!InOrder(k, n + 1)
<1> DEFINE N == Len(h.goods)
<1>1. PICK f \in [1..N -> 1..n] :
        /\ \A j \in 1..N : h.goods[j].item = h.list[f[j]]
        /\ \A i, j \in 1..N : i < j => f[i] < f[j]
        /\ \A i \in 1..n : (\E j \in 1..N : f[j] = i) \/ SellerOf[h.list[i]] \in h.away
  BY DEF Oc!InOrder
<1>2. /\ N \in Nat /\ Len(k.goods) = N + 1 /\ k.goods[N + 1] = x
      /\ \A j \in 1..N : k.goods[j] = h.goods[j]
  OBVIOUS
<1> HIDE DEF N
<1> DEFINE g == [j \in 1..(N + 1) |-> IF j = N + 1 THEN n + 1 ELSE f[j]]
<1>3. \A j \in 1..(N + 1) : j = N + 1 \/ j \in 1..N
  BY <1>2
<1>4. g \in [1..(N + 1) -> 1..(n + 1)]
  BY <1>1, <1>2, <1>3
<1>5. /\ N + 1 \in 1..(N + 1) /\ g[N + 1] = n + 1
      /\ \A j \in 1..N : j \in 1..(N + 1) /\ g[j] = f[j] /\ f[j] \in 1..n
  BY <1>1, <1>2
<1> HIDE DEF g
<1>6. \A j \in 1..(N + 1) : k.goods[j].item = k.list[g[j]]
  BY <1>1, <1>2, <1>3, <1>5
<1>7. ASSUME NEW i \in 1..(N + 1), NEW j \in 1..(N + 1), i < j
      PROVE  g[i] < g[j]
  <2>1. i \in 1..N /\ g[i] = f[i] /\ f[i] \in 1..n
    BY <1>2, <1>5, <1>7
  <2>2. CASE j = N + 1
    BY <1>5, <2>1, <2>2
  <2>3. CASE j \in 1..N
    <3>1. g[j] = f[j] /\ f[i] < f[j]
      BY <1>1, <1>5, <1>7, <2>1, <2>3
    <3> QED
      BY <2>1, <3>1
  <2> QED
    BY <1>3, <2>2, <2>3
<1>8. \A i \in 1..(n + 1) : (\E j \in 1..(N + 1) : g[j] = i) \/ SellerOf[k.list[i]] \in k.away
  <2>1. ASSUME NEW i \in 1..n
        PROVE  (\E j \in 1..(N + 1) : g[j] = i) \/ SellerOf[k.list[i]] \in k.away
    BY <1>1, <1>5
  <2>2. \A i \in 1..(n + 1) : i = n + 1 \/ i \in 1..n
    OBVIOUS
  <2> QED
    BY <1>5, <2>1, <2>2
<1>9. /\ g \in [1..Len(k.goods) -> 1..(n + 1)]
      /\ \A j \in 1..Len(k.goods) : k.goods[j].item = k.list[g[j]]
      /\ \A i, j \in 1..Len(k.goods) : i < j => g[i] < g[j]
      /\ \A i \in 1..(n + 1) : \/ \E j \in 1..Len(k.goods) : g[j] = i
                               \/ SellerOf[k.list[i]] \in k.away
  BY <1>2, <1>4, <1>6, <1>7, <1>8
<1> QED
  BY <1>9 DEF Oc!InOrder

\* The loop goes on: what Advance changes, and that what is to do stays the
\* end of the list.
LEMMA OcAdvance ==
  ASSUME NEW h \in Oc!Handler, h.pc = "goods", h.todo # <<>>, h.to # None,
         h.closed \subseteq h.known,
         Len(h.todo) <= Len(h.list),
         \A i \in 1..Len(h.todo) : h.todo[i] = h.list[(Len(h.list) - Len(h.todo)) + i]
  PROVE  LET k == Oc!Advance(h)
             n == Len(h.list) - Len(h.todo)
         IN  /\ Typed(k) /\ k.pc \in {"goods", "add"} /\ n \in Nat
             /\ Len(k.todo) <= Len(h.list) /\ Len(h.list) - Len(k.todo) = n + 1
             /\ Head(h.todo) = h.list[n + 1] /\ Head(h.todo) \in Wares
             /\ \A i \in 1..Len(k.todo) : k.todo[i] = h.list[(Len(h.list) - Len(k.todo)) + i]
             /\ k.pc = "add" => k.todo = <<>>
             /\ k.goods = h.goods /\ k.seller = h.seller /\ k.price = h.price
             /\ k.fee = h.fee /\ k.list = h.list /\ k.heads = h.heads
             /\ k.away = h.away /\ k.closed = h.closed /\ k.moved = h.moved
             /\ k.to = h.to /\ k.chosen = h.chosen
<1> DEFINE k == Oc!Advance(h)
           n == Len(h.list) - Len(h.todo)
<1>1. h.todo \in Seq(Wares) /\ h.list \in Seq(Wares)
  BY OcParts
<1>2. /\ Len(h.todo) \in Nat /\ Len(h.todo) >= 1 /\ Len(h.list) \in Nat
      /\ Tail(h.todo) \in Seq(Wares) /\ Len(Tail(h.todo)) = Len(h.todo) - 1
      /\ \A i \in 1..(Len(h.todo) - 1) : Tail(h.todo)[i] = h.todo[i + 1]
      /\ Head(h.todo) = h.todo[1] /\ Head(h.todo) \in Wares
  BY <1>1
<1>3. Len(h.todo) = 1 <=> Tail(h.todo) = <<>>
  <2>1. \A s \in Seq(Wares) : Len(s) = 0 <=> s = <<>>
    OBVIOUS
  <2>2. Len(h.todo) = 1 <=> Len(Tail(h.todo)) = 0
    BY <1>2
  <2> QED
    BY <1>2, <2>1, <2>2
<1>4. k \in Oc!Handler
  BY <1>2 DEF Oc!Handler, Oc!Advance
<1>5. /\ k.todo = Tail(h.todo) /\ k.pc = IF Len(h.todo) = 1 THEN "add" ELSE "goods"
      /\ k.goods = h.goods /\ k.seller = h.seller /\ k.price = h.price
      /\ k.fee = h.fee /\ k.list = h.list /\ k.heads = h.heads
      /\ k.away = h.away /\ k.closed = h.closed /\ k.moved = h.moved
      /\ k.to = h.to /\ k.chosen = h.chosen /\ k.known = h.known
  BY DEF Oc!Handler, Oc!Advance
<1> HIDE DEF k
<1>6. Typed(k)
  BY <1>3, <1>4, <1>5 DEF Typed
<1>7. Head(h.todo) = h.list[n + 1] /\ n \in Nat /\ Len(h.list) - Len(k.todo) = n + 1
      /\ Len(k.todo) <= Len(h.list) /\ Len(k.todo) = Len(h.todo) - 1
  <2> DEFINE a == Len(h.list)
             b == Len(h.todo)
             c == Len(k.todo)
  <2>1. c = b - 1 /\ a \in Nat /\ b \in Nat /\ b >= 1 /\ b <= a
    BY <1>2, <1>5
  <2>2. 1 \in 1..b /\ a - b \in Nat /\ a - c = (a - b) + 1 /\ c <= a
    <3> HIDE DEF a, b, c
    <3> QED
      BY <2>1
  <2>3. h.todo[1] = h.list[(a - b) + 1]
    BY <2>2
  <2> QED
    BY <1>2, <2>1, <2>2, <2>3
<1>8. ASSUME NEW i \in 1..Len(k.todo)
      PROVE  k.todo[i] = h.list[(Len(h.list) - Len(k.todo)) + i]
  <2>1. i \in 1..(Len(h.todo) - 1) /\ i + 1 \in 1..Len(h.todo)
    BY <1>2, <1>5
  <2>2. k.todo[i] = h.list[n + (i + 1)]
    BY <1>2, <1>5, <2>1
  <2>3. n + (i + 1) = (Len(h.list) - Len(k.todo)) + i
    <3>1. n \in Nat /\ Len(h.list) - Len(k.todo) = n + 1
      BY <1>7
    <3> HIDE DEF n
    <3>2. n + (i + 1) = (n + 1) + i
      BY <2>1, <3>1
    <3> QED
      BY <3>1, <3>2
  <2> QED
    BY <2>2, <2>3
<1> QED
  BY <1>2, <1>3, <1>5, <1>6, <1>7, <1>8 DEF k

\* What is known of a handler in its loop.
LEMMA OcLoop ==
  ASSUME OrderInv, NEW r \in Reqs, orderReq[r].pc = "goods"
  PROVE  /\ orderReq[r] \in Oc!Handler /\ Right(orderReq[r]) /\ Typed(orderReq[r])
         /\ Sees(orderReq[r], head, state, recipients)
         /\ orderReq[r].todo # <<>> /\ orderReq[r].to # None
         /\ orderReq[r].closed \subseteq orderReq[r].known
  BY DEF OrderInv, Oc!TypeOK, Typed

\* An item of a merchant that was away is left out.
LEMMA OcSkips ==
  ASSUME OrderInv, NEW r \in Reqs, orderReq[r].pc = "goods",
         SellerOf[Head(orderReq[r].todo)] \in orderReq[r].away,
         orderReq' = [orderReq EXCEPT ![r] = Oc!Advance(orderReq[r])],
         UNCHANGED <<head, state, recipients, shown, orders, orderCalls, changes>>
  PROVE  OrderInv'
<1> DEFINE h == orderReq[r]
           k == Oc!Advance(h)
           n == Len(h.list) - Len(h.todo)
<1>1. /\ h \in Oc!Handler /\ Right(h) /\ h.pc = "goods"
      /\ Sees(h, head, state, recipients)
      /\ h.todo # <<>> /\ h.to # None /\ h.closed \subseteq h.known
      /\ SellerOf[Head(h.todo)] \in h.away
  BY OcLoop
<1>2. orderCalls' \in Nat /\ orderReq' = [orderReq EXCEPT ![r] = k]
  BY DEF OrderInv, Oc!TypeOK
<1> HIDE DEF h
<1>3. /\ Len(h.todo) <= Len(h.list) /\ Oc!InOrder(h, n)
      /\ \A i \in 1..Len(h.todo) : h.todo[i] = h.list[(Len(h.list) - Len(h.todo)) + i]
  BY <1>1 DEF Right
<1>4. /\ Typed(k) /\ k.pc \in {"goods", "add"} /\ n \in Nat
      /\ Len(k.todo) <= Len(h.list) /\ Len(h.list) - Len(k.todo) = n + 1
      /\ Head(h.todo) = h.list[n + 1]
      /\ \A i \in 1..Len(k.todo) : k.todo[i] = h.list[(Len(h.list) - Len(k.todo)) + i]
      /\ k.pc = "add" => k.todo = <<>>
      /\ k.goods = h.goods /\ k.seller = h.seller /\ k.price = h.price
      /\ k.fee = h.fee /\ k.list = h.list /\ k.heads = h.heads
      /\ k.away = h.away /\ k.closed = h.closed /\ k.moved = h.moved
      /\ k.to = h.to /\ k.chosen = h.chosen
  BY <1>1, <1>3, OcAdvance
<1> HIDE DEF k
<1>5. Oc!InOrder(k, n + 1)
  <2>1. h.goods \in Seq(Oc!Snapshot)
    BY <1>1, OcParts
  <2>2. Len(h.goods) \in Nat
    BY <2>1
  <2> HIDE DEF n
  <2>3. SellerOf[h.list[n + 1]] \in h.away
    BY <1>1, <1>4
  <2> QED
    BY <1>3, <1>4, <2>2, <2>3, LeftOut
<1>6. Right(k)
  <2> HIDE DEF n
  <2> QED
    BY <1>1, <1>4, <1>5 DEF Right
<1>7. Sees(k, head, state, recipients)
  BY <1>1, <1>4 DEF Sees
<1> QED
  BY <1>2, <1>4, <1>6, <1>7, OcTurn

\* A merchant is loaded, and one that is not found is away.
LEMMA OcLoadMerchant ==
  ASSUME OrderInv, Oc!ConstantsAssumption, NEW r \in Reqs, Oc!LoadMerchant(r)
  PROVE  OrderInv'
<1> DEFINE h == orderReq[r]
           m == SellerOf[Head(h.todo)]
           k == [h EXCEPT !.known = @ \cup {m},
                          !.closed = IF state[m] = "normal" THEN @ ELSE @ \cup {m}]
<1>1. /\ h \in Oc!Handler /\ Right(h) /\ Typed(h) /\ h.pc = "goods"
      /\ Sees(h, head, state, recipients) /\ h.todo # <<>> /\ h.to # None
  BY OcLoop DEF Oc!LoadMerchant
<1>2. m \in Sellers
  <2>1. Head(h.todo) \in Wares
    BY <1>1, OcParts
  <2> QED
    BY <2>1 DEF Oc!ConstantsAssumption
<1>3. UNCHANGED <<head, state, recipients, shown, orders, orderCalls, changes>>
  BY DEF Oc!LoadMerchant, Oc!outside
<1>4. state[m] # "normal" => m \in h.away
  BY <1>1, <1>2 DEF Sees
<1>5. CASE state[m] = "unknown"
  <2>1. orderReq' = [orderReq EXCEPT ![r] = Oc!Advance(h)]
    BY <1>5 DEF Oc!LoadMerchant
  <2> QED
    BY <1>1, <1>3, <1>4, <1>5, <2>1, OcSkips
<1>6. CASE state[m] # "unknown"
  <2>1. orderReq' = [orderReq EXCEPT ![r] = k]
    BY <1>6 DEF Oc!LoadMerchant
  <2> HIDE DEF h, m
  <2>2. k \in Oc!Handler
    BY <1>1, <1>2 DEF Oc!Handler
  <2>3. /\ k.to = h.to /\ k.goods = h.goods /\ k.seller = h.seller
        /\ k.price = h.price /\ k.fee = h.fee /\ k.todo = h.todo /\ k.list = h.list
        /\ k.heads = h.heads /\ k.away = h.away /\ k.moved = h.moved
        /\ k.chosen = h.chosen /\ k.pc = h.pc /\ k.known = h.known \cup {m}
        /\ k.closed = IF state[m] = "normal" THEN h.closed ELSE h.closed \cup {m}
    BY <1>1 DEF Oc!Handler
  <2> HIDE DEF k
  <2>4. h.closed \subseteq h.away /\ h.closed \subseteq h.known /\ (h.moved \/ h.to = h.chosen)
    BY <1>1 DEF Right, Typed
  <2>5. k.closed \subseteq k.away /\ k.closed \subseteq k.known
    BY <1>4, <2>3, <2>4
  <2>6. Right(k)
    BY <1>1, <2>3, <2>4, <2>5, OcAlike
  <2>7. Sees(k, head, state, recipients) /\ Typed(k)
    BY <1>1, <2>2, <2>3, <2>5 DEF Sees, Typed
  <2>8. orderCalls' \in Nat
    BY <1>3 DEF OrderInv, Oc!TypeOK
  <2> QED
    BY <1>3, <2>1, <2>6, <2>7, <2>8, OcTurn
<1> QED
  BY <1>5, <1>6

\* An item of a merchant that is closed is left out: it was away.
LEMMA OcSkip ==
  ASSUME OrderInv, NEW r \in Reqs, Oc!Skip(r)
  PROVE  OrderInv'
<1>1. /\ orderReq[r].pc = "goods" /\ SellerOf[Head(orderReq[r].todo)] \in orderReq[r].closed
      /\ orderReq' = [orderReq EXCEPT ![r] = Oc!Advance(orderReq[r])]
      /\ UNCHANGED <<head, state, recipients, shown, orders, orderCalls, changes>>
  BY DEF Oc!Skip, Oc!outside
<1>2. orderReq[r].closed \subseteq orderReq[r].away
  BY <1>1, OcLoop DEF Right
<1> QED
  BY <1>1, <1>2, OcSkips

\* A handler that ends.
LEMMA OcEnds ==
  ASSUME OrderInv, NEW r \in Reqs, Oc!Finish(r),
         UNCHANGED <<head, state, recipients, shown, orders, orderCalls, changes>>
  PROVE  OrderInv'
<1>1. orderReq' = [orderReq EXCEPT ![r] = Oc!Idle] /\ orderCalls' \in Nat
  BY DEF Oc!Finish, OrderInv, Oc!TypeOK
<1> QED
  BY <1>1, OcIdle, OcTurn

\* A good is read from HEAD and bought.
LEMMA OcGetProduct ==
  ASSUME OrderInv, Oc!ConstantsAssumption, NEW r \in Reqs, Oc!GetProduct(r)
  PROVE  OrderInv'
<1> DEFINE h == orderReq[r]
           i == Head(h.todo)
           m == SellerOf[i]
           c == head[m]
           b == Oc!Bought(h, m, i, c)
           k == Oc!Advance(b)
           x == [item |-> i, version |-> c, price |-> Offer[c][i].price]
           n == Len(h.list) - Len(h.todo)
<1>1. /\ h \in Oc!Handler /\ Right(h) /\ Typed(h) /\ h.pc = "goods"
      /\ Sees(h, head, state, recipients) /\ h.todo # <<>> /\ h.to # None
      /\ h.closed \subseteq h.known
  BY OcLoop DEF Oc!GetProduct
<1>2. UNCHANGED <<head, state, recipients, shown, orders, orderCalls, changes>>
  BY DEF Oc!GetProduct, Oc!outside
<1>3. CASE Offer[c][i] = None \/ h.seller \notin {None, m}
  <2>1. Oc!Finish(r)
    BY <1>3 DEF Oc!GetProduct
  <2> QED
    BY <1>2, <2>1, OcEnds
<1>4. CASE Offer[c][i] # None /\ h.seller \in {None, m}
  <2>1. orderReq' = [orderReq EXCEPT ![r] = k]
    BY <1>4 DEF Oc!GetProduct
  <2>2. i \in Wares /\ m \in Sellers /\ c \in Commits /\ c \in h.heads
    <3>1. i \in Wares
      BY <1>1, OcParts
    <3>2. m \in Sellers
      BY <3>1 DEF Oc!ConstantsAssumption
    <3>3. c \in Commits
      BY <3>2 DEF OrderInv, Oc!TypeOK
    <3> QED
      BY <1>1, <3>1, <3>2, <3>3 DEF Sees
  <2>3. Offer[c][i] \in [price: Nat, fee: Nat]
    BY <1>4, <2>2 DEF Oc!ConstantsAssumption
  <2>4. m # None /\ m = SellerOf[i]
    BY <2>2 DEF Oc!ConstantsAssumption
  <2>5. i = Head(h.todo)
    OBVIOUS
  <2> HIDE DEF h, i, m, c
  <2>6. x \in Oc!Snapshot /\ x.item = i /\ x.version = c /\ x.price = Offer[c][i].price
        /\ x.price \in Nat /\ Offer[c][i].fee \in Nat
    BY <2>2, <2>3 DEF Oc!Snapshot
  <2>7. h.goods \in Seq(Oc!Snapshot) /\ h.price \in Nat /\ h.fee \in Nat
    BY <1>1, OcParts
  <2>8. b \in Oc!Handler
    <3>1. Append(h.goods, x) \in Seq(Oc!Snapshot)
      BY <2>6, <2>7
    <3>2. h.price + Offer[c][i].price \in Nat /\ h.fee + Offer[c][i].fee \in Nat
      BY <2>6, <2>7
    <3> QED
      BY <1>1, <2>2, <3>1, <3>2 DEF Oc!Handler, Oc!Bought
  <2>9. /\ b.seller = m /\ b.goods = Append(h.goods, x)
        /\ b.price = h.price + x.price /\ b.fee = h.fee + Offer[c][i].fee
        /\ b.pc = h.pc /\ b.todo = h.todo /\ b.to = h.to /\ b.closed = h.closed
        /\ b.known = h.known /\ b.list = h.list /\ b.heads = h.heads
        /\ b.away = h.away /\ b.moved = h.moved /\ b.chosen = h.chosen
    BY <1>1, <2>6 DEF Oc!Handler, Oc!Bought
  <2> HIDE DEF b, x
  <2>10. /\ Len(h.todo) <= Len(h.list) /\ Oc!InOrder(h, n)
         /\ \A j \in 1..Len(h.todo) : h.todo[j] = h.list[(Len(h.list) - Len(h.todo)) + j]
    BY <1>1 DEF Right
  <2>11. /\ Typed(k) /\ k.pc \in {"goods", "add"} /\ n \in Nat
         /\ Len(k.todo) <= Len(h.list) /\ Len(h.list) - Len(k.todo) = n + 1
         /\ i = h.list[n + 1]
         /\ \A j \in 1..Len(k.todo) : k.todo[j] = h.list[(Len(h.list) - Len(k.todo)) + j]
         /\ k.pc = "add" => k.todo = <<>>
         /\ k.goods = Append(h.goods, x) /\ k.seller = m
         /\ k.price = h.price + x.price
         /\ k.list = h.list /\ k.heads = h.heads
         /\ k.away = h.away /\ k.closed = h.closed /\ k.moved = h.moved
         /\ k.to = h.to /\ k.chosen = h.chosen
    <3>1. /\ b.pc = "goods" /\ b.todo # <<>> /\ b.to # None
          /\ b.closed \subseteq b.known /\ Len(b.todo) <= Len(b.list)
          /\ \A j \in 1..Len(b.todo) : b.todo[j] = b.list[(Len(b.list) - Len(b.todo)) + j]
      BY <1>1, <2>9, <2>10
    <3>2. /\ Typed(k) /\ k.pc \in {"goods", "add"} /\ Len(b.list) - Len(b.todo) \in Nat
          /\ Len(k.todo) <= Len(b.list)
          /\ Len(b.list) - Len(k.todo) = (Len(b.list) - Len(b.todo)) + 1
          /\ Head(b.todo) = b.list[(Len(b.list) - Len(b.todo)) + 1]
          /\ \A j \in 1..Len(k.todo) : k.todo[j] = b.list[(Len(b.list) - Len(k.todo)) + j]
          /\ k.pc = "add" => k.todo = <<>>
          /\ k.goods = b.goods /\ k.seller = b.seller /\ k.price = b.price
          /\ k.list = b.list /\ k.heads = b.heads
          /\ k.away = b.away /\ k.closed = b.closed /\ k.moved = b.moved
          /\ k.to = b.to /\ k.chosen = b.chosen
      BY <2>8, <3>1, OcAdvance
    <3>3. n = Len(b.list) - Len(b.todo)
      BY <2>9
    <3> HIDE DEF k, n
    <3> QED
      BY <2>5, <2>9, <3>2, <3>3
  <2> HIDE DEF k, n
  <2>12. Oc!InOrder(k, n + 1)
    <3>1. /\ n \in Nat /\ Oc!InOrder(h, n) /\ h.goods \in Seq(Oc!Snapshot)
          /\ x \in Oc!Snapshot /\ k.goods = Append(h.goods, x)
          /\ k.list = h.list /\ k.away = h.away /\ x.item = h.list[n + 1]
      BY <2>6, <2>7, <2>10, <2>11
    <3> QED
      BY <3>1, PutLast
  <2>13. k.price = Oc!Sum(k.goods)
    <3>1. h.price = Oc!Sum(h.goods)
      BY <1>1 DEF Right
    <3>2. Oc!Sum(Append(h.goods, x)) = Oc!Sum(h.goods) + x.price
      BY <2>6, <2>7, SumFacts
    <3> QED
      BY <2>11, <3>1, <3>2
  <2>14. ASSUME NEW j \in 1..Len(k.goods)
         PROVE  /\ k.goods[j].version \in k.heads
                /\ k.goods[j].price = Offer[k.goods[j].version][k.goods[j].item].price
                /\ SellerOf[k.goods[j].item] = k.seller
    <3>1. \/ j = Len(h.goods) + 1 /\ k.goods[j] = x
          \/ j \in 1..Len(h.goods) /\ k.goods[j] = h.goods[j]
      BY <2>6, <2>7, <2>11
    <3>2. CASE k.goods[j] = x
      BY <2>2, <2>4, <2>6, <2>11, <3>2
    <3>3. CASE j \in 1..Len(h.goods) /\ k.goods[j] = h.goods[j]
      <4>1. h.seller = m
        <5>1. h.goods # <<>>
          BY <2>7, <3>3
        <5> QED
          BY <1>1, <1>4, <5>1 DEF Right
      <4> QED
        BY <1>1, <2>11, <3>3, <4>1 DEF Right
    <3> QED
      BY <3>1, <3>2, <3>3
  <2>15. h.closed \subseteq h.away /\ (h.moved \/ h.to = h.chosen)
    BY <1>1 DEF Right
  <2>16. Right(k)
    BY <2>4, <2>11, <2>12, <2>13, <2>14, <2>15 DEF Right
  <2>17. Sees(k, head, state, recipients)
    BY <1>1, <2>11 DEF Sees
  <2>18. orderCalls' \in Nat
    BY <1>2 DEF OrderInv, Oc!TypeOK
  <2> QED
    BY <1>2, <2>1, <2>11, <2>16, <2>17, <2>18, OcTurn
<1> QED
  BY <1>3, <1>4

\* The order is inserted as it is.
LEMMA OcAddOrder ==
  ASSUME OrderInv, NEW r \in Reqs, Oc!AddOrder(r)
  PROVE  OrderInv'
<1>1. /\ orderReq \in [Reqs -> Oc!Handler] /\ orders \in Seq(Oc!Handler) /\ orderReq[r].pc = "add"
      /\ orders' = Append(orders, orderReq[r]) /\ orderReq' = [orderReq EXCEPT ![r] = Oc!Idle]
      /\ UNCHANGED <<head, state, recipients, shown, orderCalls, changes>>
  BY DEF OrderInv, Oc!TypeOK, Oc!AddOrder, Oc!Finish, Oc!outside
<1>2. Right(orderReq[r]) /\ orderReq[r] \in Oc!Handler
  BY <1>1 DEF OrderInv
<1>3. orders' \in Seq(Oc!Handler) /\ Oc!Stored' \subseteq Oc!Stored \cup {orderReq[r]}
  BY <1>1, <1>2 DEF Oc!Stored
<1>4. /\ orderReq' \in [Reqs -> Oc!Handler] /\ orderReq'[r] = Oc!Idle
      /\ \A q \in Reqs : q # r => orderReq'[q] = orderReq[q]
  BY <1>1, OcIdle DEF Typed
<1>5. Oc!TypeOK'
  BY <1>1, <1>2, <1>3, <1>4, OcIdle DEF OrderInv, Oc!TypeOK, Typed
<1>6. \A q \in Reqs : orderReq'[q].pc # "idle" =>
        Right(orderReq'[q]) /\ Sees(orderReq'[q], head, state, recipients)
  BY <1>4, OcIdle DEF OrderInv
<1>7. \A o \in Oc!Stored' : Right(o) /\ o.pc = "add"
  BY <1>1, <1>2, <1>3 DEF OrderInv
<1> QED
  BY <1>1, <1>3, <1>5, <1>6, <1>7 DEF OrderInv

\* A merchant pushes, and the handlers at work may meet the new HEAD.
LEMMA OcPush ==
  ASSUME OrderInv, NEW m \in Sellers, NEW c \in Commits, Oc!Push(m, c)
  PROVE  OrderInv'
<1>1. /\ orderReq \in [Reqs -> Oc!Handler] /\ head \in [Sellers -> Commits]
      /\ \A q \in Reqs : Typed(orderReq[q])
  BY DEF OrderInv, Oc!TypeOK, Typed
<1>2. /\ head' = [head EXCEPT ![m] = c]
      /\ orderReq' = [q \in Reqs |-> IF orderReq[q].pc = "idle" THEN Oc!Idle
                                ELSE [orderReq[q] EXCEPT !.heads = @ \cup {c}]]
      /\ UNCHANGED <<state, recipients, shown, orders, orderCalls>>
  BY DEF Oc!Push
<1>3. changes' \in Nat
  BY DEF Oc!Push, OrderInv, Oc!TypeOK
<1>4. /\ head' \in [Sellers -> Commits]
      /\ \A p \in Sellers : head'[p] = head[p] \/ head'[p] = c
  BY <1>1, <1>2
<1>5. ASSUME NEW q \in Reqs
      PROVE  /\ Typed(orderReq'[q])
             /\ orderReq'[q].pc # "idle" =>
                  Right(orderReq'[q]) /\ Sees(orderReq'[q], head', state', recipients')
  <2> DEFINE h == orderReq[q]
             k == [h EXCEPT !.heads = @ \cup {c}]
  <2>1. CASE h.pc = "idle"
    BY <1>2, <2>1, OcIdle
  <2>2. CASE h.pc # "idle"
    <3>1. orderReq'[q] = k /\ h \in Oc!Handler /\ Typed(h)
      BY <1>1, <1>2, <2>2
    <3>2. Right(h) /\ Sees(h, head, state, recipients)
      BY <2>2 DEF OrderInv
    <3> HIDE DEF h
    <3>3. k \in Oc!Handler
      BY <3>1 DEF Oc!Handler
    <3>4. /\ k.goods = h.goods /\ k.seller = h.seller /\ k.place = h.place
          /\ k.price = h.price /\ k.fee = h.fee /\ k.todo = h.todo /\ k.list = h.list
          /\ k.heads = h.heads \cup {c} /\ k.away = h.away /\ k.closed = h.closed
          /\ k.known = h.known /\ k.moved = h.moved /\ k.chosen = h.chosen
          /\ k.to = h.to /\ k.pc = h.pc
      BY <3>1 DEF Oc!Handler
    <3> HIDE DEF k
    <3>5. /\ h.closed \subseteq h.away
          /\ h.pc \in {"goods", "add"} => h.moved \/ h.to = h.chosen
          /\ h.pc = "add" => h.todo = <<>>
      BY <3>2 DEF Right
    <3>6. Right(k)
      BY <3>2, <3>4, <3>5, OcAlike
    <3>7. Sees(k, head', state', recipients')
      BY <1>2, <1>4, <3>2, <3>4 DEF Sees
    <3>8. Typed(k)
      BY <3>1, <3>3, <3>4 DEF Typed
    <3> QED
      BY <3>1, <3>6, <3>7, <3>8
  <2> QED
    BY <2>1, <2>2
<1>6. orderReq' \in [Reqs -> Oc!Handler]
  BY <1>2, <1>5 DEF Typed
<1> QED
  BY <1>2, <1>3, <1>4, <1>5, <1>6, OcWorld DEF OrderInv, Oc!TypeOK

\* A merchant is disabled, and the handlers at work may meet him so.
LEMMA OcSetState ==
  ASSUME OrderInv, NEW m \in Sellers, NEW s \in {"normal", "disabled"},
         Oc!SetState(m, s)
  PROVE  OrderInv'
<1>1. /\ orderReq \in [Reqs -> Oc!Handler]
      /\ state \in [Sellers -> {"normal", "disabled", "unknown"}]
      /\ \A q \in Reqs : Typed(orderReq[q])
  BY DEF OrderInv, Oc!TypeOK, Typed
<1>2. /\ state' = [state EXCEPT ![m] = s]
      /\ orderReq' = [q \in Reqs |-> IF orderReq[q].pc = "idle" \/ s = "normal" THEN orderReq[q]
                                ELSE [orderReq[q] EXCEPT !.away = @ \cup {m}]]
      /\ UNCHANGED <<head, recipients, shown, orders, orderCalls>>
  BY DEF Oc!SetState
<1>3. changes' \in Nat
  BY DEF Oc!SetState, OrderInv, Oc!TypeOK
<1>4. /\ state' \in [Sellers -> {"normal", "disabled", "unknown"}] /\ state'[m] = s
      /\ \A p \in Sellers : p # m => state'[p] = state[p]
  BY <1>1, <1>2
<1>5. ASSUME NEW q \in Reqs
      PROVE  /\ Typed(orderReq'[q])
             /\ orderReq'[q].pc # "idle" =>
                  Right(orderReq'[q]) /\ Sees(orderReq'[q], head', state', recipients')
  <2> DEFINE h == orderReq[q]
             k == [h EXCEPT !.away = @ \cup {m}]
  <2>1. CASE h.pc = "idle"
    BY <1>1, <1>2, <2>1
  <2>2. CASE h.pc # "idle" /\ s = "normal"
    <3>1. orderReq'[q] = h /\ Typed(h) /\ Right(h) /\ Sees(h, head, state, recipients)
      BY <1>1, <1>2, <2>2 DEF OrderInv
    <3>2. Sees(h, head', state', recipients')
      BY <1>2, <1>4, <2>2, <3>1 DEF Sees
    <3> QED
      BY <3>1, <3>2
  <2>3. CASE h.pc # "idle" /\ s # "normal"
    <3>1. orderReq'[q] = k /\ h \in Oc!Handler /\ Typed(h)
      BY <1>1, <1>2, <2>3
    <3>2. Right(h) /\ Sees(h, head, state, recipients)
      BY <2>3 DEF OrderInv
    <3> HIDE DEF h
    <3>3. k \in Oc!Handler
      BY <3>1 DEF Oc!Handler
    <3>4. /\ k.goods = h.goods /\ k.seller = h.seller /\ k.place = h.place
          /\ k.price = h.price /\ k.fee = h.fee /\ k.todo = h.todo /\ k.list = h.list
          /\ k.heads = h.heads /\ k.away = h.away \cup {m} /\ k.closed = h.closed
          /\ k.known = h.known /\ k.moved = h.moved /\ k.chosen = h.chosen
          /\ k.to = h.to /\ k.pc = h.pc
      BY <3>1 DEF Oc!Handler
    <3> HIDE DEF k
    <3>5. /\ h.closed \subseteq h.away
          /\ h.pc \in {"goods", "add"} => h.moved \/ h.to = h.chosen
          /\ h.pc = "add" => h.todo = <<>>
      BY <3>2 DEF Right
    <3>6. Right(k)
      BY <3>2, <3>4, <3>5, OcAlike
    <3>7. Sees(k, head', state', recipients')
      BY <1>2, <1>4, <3>2, <3>4 DEF Sees
    <3>8. Typed(k)
      BY <3>1, <3>3, <3>4 DEF Typed
    <3> QED
      BY <3>1, <3>6, <3>7, <3>8
  <2> QED
    BY <2>1, <2>2, <2>3
<1>6. orderReq' \in [Reqs -> Oc!Handler]
  BY <1>2, <1>5 DEF Typed
<1> QED
  BY <1>2, <1>3, <1>4, <1>5, <1>6, OcWorld DEF OrderInv, Oc!TypeOK

\* An address is erased: a handler that has not loaded the user knows that
\* the list has moved, and the others have their recipient.
LEMMA OcErase ==
  ASSUME OrderInv, NEW i \in 1..Len(recipients), Oc!EraseAddress(i)
  PROVE  OrderInv'
<1>1. /\ orderReq \in [Reqs -> Oc!Handler] /\ recipients \in Seq(Addresses)
      /\ \A q \in Reqs : Typed(orderReq[q])
  BY DEF OrderInv, Oc!TypeOK, Typed
<1>2. /\ recipients' = Oc!RemoveAt(recipients, i)
      /\ orderReq' = [q \in Reqs |-> IF orderReq[q].pc = "user"
                                THEN [orderReq[q] EXCEPT !.moved = TRUE] ELSE orderReq[q]]
      /\ UNCHANGED <<head, state, shown, orders, orderCalls>>
  BY DEF Oc!EraseAddress
<1>3. changes' \in Nat
  BY DEF Oc!EraseAddress, OrderInv, Oc!TypeOK
<1>4. recipients' \in Seq(Addresses)
  <2>1. /\ i - 1 \in 0..Len(recipients) /\ i + 1 \in 1..(Len(recipients) + 1)
        /\ Len(recipients) \in Nat
    BY <1>1
  <2>2. SubSeq(recipients, 1, i - 1) \in Seq(Addresses)
    BY <1>1, <2>1
  <2>3. SubSeq(recipients, i + 1, Len(recipients)) \in Seq(Addresses)
    BY <1>1, <2>1
  <2> QED
    BY <1>2, <2>2, <2>3 DEF Oc!RemoveAt
<1>5. ASSUME NEW q \in Reqs
      PROVE  /\ Typed(orderReq'[q])
             /\ orderReq'[q].pc # "idle" =>
                  Right(orderReq'[q]) /\ Sees(orderReq'[q], head', state', recipients')
  <2> DEFINE h == orderReq[q]
             k == [h EXCEPT !.moved = TRUE]
  <2>1. CASE h.pc # "user"
    <3>1. orderReq'[q] = h /\ Typed(h)
          /\ (h.pc # "idle" => Right(h) /\ Sees(h, head, state, recipients))
      BY <1>1, <1>2, <2>1 DEF OrderInv
    <3>2. h.pc # "idle" => Sees(h, head', state', recipients')
      BY <1>2, <2>1, <3>1 DEF Sees
    <3> QED
      BY <3>1, <3>2
  <2>2. CASE h.pc = "user"
    <3>1. orderReq'[q] = k /\ h \in Oc!Handler /\ Typed(h)
      BY <1>1, <1>2, <2>2
    <3>2. Right(h) /\ Sees(h, head, state, recipients) /\ h.pc = "user"
      BY <2>2 DEF OrderInv
    <3> HIDE DEF h
    <3>3. k \in Oc!Handler
      BY <3>1 DEF Oc!Handler
    <3>4. /\ k.goods = h.goods /\ k.seller = h.seller
          /\ k.price = h.price /\ k.fee = h.fee /\ k.todo = h.todo /\ k.list = h.list
          /\ k.heads = h.heads /\ k.away = h.away /\ k.closed = h.closed
          /\ k.known = h.known /\ k.moved = TRUE /\ k.to = h.to /\ k.pc = h.pc
      BY <3>1 DEF Oc!Handler
    <3> HIDE DEF k
    <3>5. h.closed \subseteq h.away
      BY <3>2 DEF Right
    <3>6. Right(k)
      BY <3>2, <3>4, <3>5, OcAlike
    <3>7. Sees(k, head', state', recipients')
      BY <1>2, <3>2, <3>4 DEF Sees
    <3>8. Typed(k)
      BY <3>1, <3>3, <3>4 DEF Typed
    <3> QED
      BY <3>1, <3>6, <3>7, <3>8
  <2> QED
    BY <2>1, <2>2
<1>6. orderReq' \in [Reqs -> Oc!Handler]
  BY <1>2, <1>5 DEF Typed
<1> QED
  BY <1>2, <1>3, <1>4, <1>5, <1>6, OcWorld DEF OrderInv, Oc!TypeOK

\* The list of addresses at the start holds addresses.
LEMMA OcAddresses ==
  ASSUME Oc!ConstantsAssumption
  PROVE  Oc!SetToSeq(Addresses) \in Seq(Addresses)
<1> DEFINE n == Cardinality(Addresses)
<1>1. IsFiniteSet(Addresses) /\ Oc!Cardinality(Addresses) = n
  BY DEF Oc!ConstantsAssumption, Oc!IsFiniteSet, IsFiniteSet, Oc!Cardinality, Cardinality
<1>2. n \in Nat /\ ExistsBijection(1..n, Addresses)
  BY <1>1, FS_CardinalityType
<1>3. PICK f \in [1..n -> Addresses] : Oc!IsInjective(f)
  BY <1>2 DEF ExistsBijection, Bijection, Injection, IsInjective, Oc!IsInjective
<1>4. Oc!SetToSeq(Addresses) \in [1..n -> Addresses]
  BY <1>1, <1>3 DEF Oc!SetToSeq
<1> HIDE DEF n
<1> QED
  BY <1>2, <1>4

\* The invariant holds of every behaviour.
LEMMA OrderInvariant == Oc!ConstantsAssumption /\ Oc!Spec => []OrderInv
<1> SUFFICES ASSUME Oc!ConstantsAssumption PROVE Oc!Spec => []OrderInv
  OBVIOUS
<1>1. Oc!Init => OrderInv
  <2> SUFFICES ASSUME Oc!Init PROVE OrderInv
    OBVIOUS
  <2>1. recipients \in Seq(Addresses) /\ orders = <<>> /\ orderReq = [r \in Reqs |-> Oc!Idle]
    BY OcAddresses DEF Oc!Init
  <2>2. \A r \in Reqs : orderReq[r] = Oc!Idle /\ orderReq[r].pc = "idle" /\ Typed(orderReq[r])
    BY <2>1, OcIdle
  <2>3. orderReq \in [Reqs -> Oc!Handler] /\ orders \in Seq(Oc!Handler) /\ Oc!Stored = {}
    BY <2>1, <2>2, OcIdle DEF Typed, Oc!Stored
  <2>4. Oc!TypeOK
    BY <2>1, <2>2, <2>3 DEF Oc!TypeOK, Oc!Init, Typed
  <2> QED
    BY <2>2, <2>3, <2>4 DEF OrderInv
<1>2. OrderInv /\ [Oc!Next]_(Oc!vars) => OrderInv'
  <2> SUFFICES ASSUME OrderInv, [Oc!Next]_(Oc!vars) PROVE OrderInv'
    OBVIOUS
  <2>1. ASSUME NEW r \in Reqs, NEW l \in Baskets, NEW i \in 1..Len(shown), Oc!Create(r, l, i)
        PROVE  OrderInv'
    BY <2>1, OcCreate
  <2>2. ASSUME NEW r \in Reqs, Oc!LoadUser(r) PROVE OrderInv'
    BY <2>2, OcLoadUser
  <2>3. ASSUME NEW r \in Reqs, Oc!LoadMerchant(r) PROVE OrderInv'
    BY <2>3, OcLoadMerchant
  <2>4. ASSUME NEW r \in Reqs, Oc!Skip(r) PROVE OrderInv'
    BY <2>4, OcSkip
  <2>5. ASSUME NEW r \in Reqs, Oc!GetProduct(r) PROVE OrderInv'
    BY <2>5, OcGetProduct
  <2>6. ASSUME NEW r \in Reqs, Oc!AddOrder(r) PROVE OrderInv'
    BY <2>6, OcAddOrder
  <2>7. ASSUME NEW r \in Reqs, Oc!Throws(r) PROVE OrderInv'
    <3>1. Oc!Finish(r) /\ UNCHANGED <<head, state, recipients, shown, orders, orderCalls, changes>>
      BY <2>7 DEF Oc!Throws, Oc!outside
    <3> QED
      BY <3>1, OcEnds
  <2>8. ASSUME NEW m \in Sellers, NEW c \in Commits, Oc!Push(m, c) PROVE OrderInv'
    BY <2>8, OcPush
  <2>9. ASSUME NEW m \in Sellers, NEW s \in {"normal", "disabled"}, Oc!SetState(m, s)
        PROVE  OrderInv'
    BY <2>9, OcSetState
  <2>10. ASSUME NEW i \in 1..Len(recipients), Oc!EraseAddress(i) PROVE OrderInv'
    BY <2>10, OcErase
  <2>11. ASSUME Oc!ShowAddresses \/ UNCHANGED Oc!vars PROVE OrderInv'
    <3>1. UNCHANGED <<head, state, recipients, orders, orderReq, orderCalls, changes>>
          /\ (shown' = recipients \/ shown' = shown)
      BY <2>11 DEF Oc!ShowAddresses, Oc!vars
    <3> QED
      BY <3>1 DEF OrderInv, Oc!TypeOK, Oc!Stored
  <2> QED
    BY <2>1, <2>2, <2>3, <2>4, <2>5, <2>6, <2>7, <2>8, <2>9, <2>10, <2>11
       DEF Oc!Next
<1> QED
  BY <1>1, <1>2, PTL DEF Oc!Spec

\* order_create_cart and order_create_direct: every price in an order was the
\* price of the good in a HEAD between the call and the insert, and the order
\* costs the sum of them, for any number of goods, calls and pushes.
THEOREM PricesAreOffered == Oc!Spec => []PricesWereOffered
<1>1. OrderInv => PricesWereOffered
  BY DEF OrderInv, Right, PricesWereOffered, Oc!PricesWereOffered
<1> QED
  BY <1>1, OrderInvariant, ShopAssumption, PTL

\* order_create_cart and order_create_direct: the goods of an order are those
\* of the call in their order, all of one seller, without some of merchants
\* that were away meanwhile, and it is sent to the address that was chosen
\* unless the list of addresses was cut in between.
THEOREM OrdersAreAsCalled == Oc!Spec => []OrderIsAsCalled
<1>1. ASSUME OrderInv, NEW o \in Oc!Stored
      PROVE  /\ Oc!InOrder(o, Len(o.list)) /\ (o.moved \/ o.to = o.chosen)
             /\ \A i \in 1..Len(o.goods) : SellerOf[o.goods[i].item] = o.seller
             /\ o.seller = None => o.price = 0 /\ o.fee = 0
  <2>1. Right(o) /\ o.pc = "add"
    BY <1>1 DEF OrderInv
  <2>2. o \in Oc!Handler
    BY <1>1 DEF OrderInv, Oc!TypeOK, Oc!Stored
  <2>3. o.list \in Seq(Wares) /\ o.todo = <<>>
    BY <2>1, <2>2, OcParts DEF Right
  <2>4. Len(o.list) - Len(o.todo) = Len(o.list)
    BY <2>3
  <2>5. Oc!InOrder(o, Len(o.list) - Len(o.todo))
    BY <2>1 DEF Right
  <2>6. Oc!InOrder(o, Len(o.list))
    BY <2>4, <2>5
  <2> QED
    BY <2>1, <2>6 DEF Right
<1>2. OrderInv => OrderIsAsCalled
  BY <1>1 DEF OrderIsAsCalled, Oc!OrderIsAsCalled, Oc!MissingWereAway, Oc!OneSeller, Oc!SentWhereChosen
<1> QED
  BY <1>2, OrderInvariant, ShopAssumption, PTL

-----------------------------------------------------------------------------
\* Every variable of the four parts keeps its type, and an id names one row of
\* a cart and of the page: the types are parts of the invariants.
THEOREM ShopTypes == Spec /\ Ct!Spec /\ Pg!Spec /\ Oc!Spec => []ShopTypeOK
<1>1. TypeOK /\ CartInv /\ PageInv /\ OrderInv => ShopTypeOK
  BY DEF CartInv, PageInv, OrderInv, ShopTypeOK
<1> QED
  BY <1>1, TypeCorrect, CartInvariant, PageInvariant, OrderInvariant, ShopAssumption, PTL
=============================================================================
