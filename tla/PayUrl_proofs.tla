---------------------------- MODULE PayUrl_proofs ----------------------------
(***************************************************************************)
(* The safety properties of PayUrl for any number of callers, orders and   *)
(* calls.                                                                  *)
(***************************************************************************)
EXTENDS PayUrl, TLAPS

\* A running script has its order in awaiting_orders, unless the entry was
\* erased by a caller cancelled while it waited.
RunIsListed ==
  \A r \in Reqs :
    pc[r] = "run" /\ oid[r] \notin abandoned => oid[r] \in awaiting_orders

\* The inductive invariant: entries and running scripts correspond, both ways.
TurnInv == TypeOK /\ RunIsListed /\ ExclusiveUnlessAbandoned /\ NoOrphanEntry

-----------------------------------------------------------------------------
\* What it means for one caller to move: the others stay where they are.
LEMMA MoveFacts ==
  ASSUME NEW r \in Reqs, NEW to \in Inside \cup {"idle"}, TypeOK, Move(r, to)
  PROVE  /\ pc' \in [Reqs -> Inside \cup {"idle"}]
         /\ pc'[r] = to
         /\ \A q \in Reqs \ {r} : pc'[q] = pc[q]
  BY DEF Move, TypeOK

\* Leaving the function erases the order from the set, whoever entered it.
LEMMA LeaveFacts ==
  ASSUME NEW r \in Reqs, TypeOK, Leave(r)
  PROVE  /\ pc' \in [Reqs -> Inside \cup {"idle"}]
         /\ oid' \in [Reqs -> Orders \cup {NoOrder}]
         /\ pc'[r] = "idle" /\ oid'[r] = NoOrder
         /\ \A q \in Reqs \ {r} : pc'[q] = pc[q] /\ oid'[q] = oid[q]
         /\ awaiting_orders' = awaiting_orders \ {oid[r]}
  BY MoveFacts DEF Leave, TypeOK

\* A caller inside the function is there for an order.
LEMMA InsideFacts ==
  ASSUME NEW r \in Reqs, TypeOK, pc[r] # "idle"
  PROVE  oid[r] \in Orders
  BY DEF TypeOK

-----------------------------------------------------------------------------
\* A step keeps the types.
LEMMA TypeStep == TypeOK /\ [Next]_vars => TypeOK'
<1> SUFFICES ASSUME TypeOK, [Next]_vars PROVE TypeOK'
  OBVIOUS
<1>1. CASE UNCHANGED vars
  BY <1>1 DEF vars, TypeOK
<1>2. ASSUME NEW r \in Reqs, NEW o \in Orders, Call(r, o) PROVE TypeOK'
  <2>1. calls' \in [Reqs -> 0..MaxCalls]
    <3>1. calls[r] \in 0..MaxCalls /\ calls[r] < MaxCalls
      BY <1>2 DEF Call, TypeOK
    <3>2. calls[r] + 1 \in 0..MaxCalls
      BY <3>1, ConstantsAssumption
    <3> QED
      BY <1>2, <3>2 DEF Call, TypeOK
  <2>2. /\ pc' \in [Reqs -> Inside \cup {"idle"}] /\ pc'[r] = "load"
        /\ \A q \in Reqs \ {r} : pc'[q] = pc[q]
    BY <1>2, MoveFacts DEF Call, Inside
  <2>3. /\ oid' \in [Reqs -> Orders \cup {NoOrder}] /\ oid'[r] = o
        /\ \A q \in Reqs \ {r} : oid'[q] = oid[q]
    BY <1>2 DEF Call, TypeOK
  <2> QED
    BY <1>2, <2>1, <2>2, <2>3, ConstantsAssumption DEF Call, TypeOK
<1>3. ASSUME NEW r \in Reqs, Refuse(r) PROVE TypeOK'
  BY <1>3, MoveFacts DEF Refuse, TypeOK
<1>4. ASSUME NEW r \in Reqs, Enter(r) \/ Wake(r) PROVE TypeOK'
  <2>1. PICK to \in {"wait", "run"} : Move(r, to)
    BY <1>4 DEF Enter, Wake
  <2>2. /\ pc' \in [Reqs -> Inside \cup {"idle"}] /\ pc'[r] = to
        /\ \A q \in Reqs \ {r} : pc'[q] = pc[q]
    BY <2>1, MoveFacts DEF Inside
  <2>3. /\ pc[r] # "idle"
        /\ awaiting_orders' \in {awaiting_orders, awaiting_orders \cup {oid[r]}}
        /\ UNCHANGED <<oid, calls, closed, abandoned>>
    BY <1>4 DEF Enter, Wake
  <2> QED
    BY <2>2, <2>3, InsideFacts DEF TypeOK
<1>5. ASSUME NEW r \in Reqs, ScriptEnds(r) \/ Cancel(r) PROVE TypeOK'
  <2>1. Leave(r) /\ pc[r] # "idle" /\ UNCHANGED <<calls, closed>>
    BY <1>5 DEF ScriptEnds, Cancel
  <2>2. abandoned' \subseteq Orders
    BY <1>5, <2>1, InsideFacts DEF ScriptEnds, Cancel, TypeOK
  <2> QED
    BY <2>1, <2>2, LeaveFacts DEF TypeOK
<1>6. CASE CloseGroup
  BY <1>6 DEF CloseGroup, TypeOK
<1> QED
  BY <1>1, <1>2, <1>3, <1>4, <1>5, <1>6 DEF Next, Step

\* The set, the callers and their orders keep their types.
THEOREM TypeCorrect == Spec => []TypeOK
<1>1. Init => TypeOK
  BY ConstantsAssumption DEF Init, TypeOK
<1> QED
  BY <1>1, TypeStep, PTL DEF Spec

-----------------------------------------------------------------------------
\* A step that starts and ends no script and leaves the set alone.
LEMMA TurnQuiet ==
  ASSUME TurnInv, TypeOK', UNCHANGED <<awaiting_orders, abandoned>>,
         \A r \in Reqs : pc'[r] = "run" <=> pc[r] = "run",
         \A r \in Reqs : pc[r] = "run" => oid'[r] = oid[r]
  PROVE  TurnInv'
<1>1. RunIsListed'
  BY DEF TurnInv, RunIsListed
<1>2. ExclusiveUnlessAbandoned'
  BY DEF TurnInv, ExclusiveUnlessAbandoned
<1>3. NoOrphanEntry'
  BY DEF TurnInv, NoOrphanEntry
<1> QED
  BY <1>1, <1>2, <1>3 DEF TurnInv

\* Whoever starts a script found its order not in the set: then no script of
\* a caller whose entry is still in place runs for it.
LEMMA TurnBegins ==
  ASSUME TurnInv, TypeOK', NEW r \in Reqs, pc[r] # "run",
         oid[r] \notin awaiting_orders, Move(r, "run"),
         awaiting_orders' = awaiting_orders \cup {oid[r]},
         UNCHANGED <<oid, abandoned>>
  PROVE  TurnInv'
<1>1. pc'[r] = "run" /\ \A q \in Reqs \ {r} : pc'[q] = pc[q]
  BY MoveFacts DEF TurnInv, Inside
<1>2. RunIsListed'
  BY <1>1 DEF TurnInv, RunIsListed
<1>3. ExclusiveUnlessAbandoned'
  BY <1>1 DEF TurnInv, RunIsListed, ExclusiveUnlessAbandoned
<1>4. NoOrphanEntry'
  <2> SUFFICES ASSUME NEW o \in awaiting_orders \cup {oid[r]}
               PROVE  \E q \in Reqs : pc'[q] = "run" /\ oid[q] = o
    BY DEF NoOrphanEntry
  <2>1. CASE o = oid[r]
    BY <1>1, <2>1
  <2>2. CASE o \in awaiting_orders
    BY <1>1, <2>2 DEF TurnInv, NoOrphanEntry
  <2> QED
    BY <2>1, <2>2
<1> QED
  BY <1>2, <1>3, <1>4 DEF TurnInv

\* Leaving erases the one entry: that of the script which ends, or that of
\* an order which is from then on counted as abandoned.
LEMMA TurnEnds ==
  ASSUME TurnInv, TypeOK', NEW r \in Reqs, Leave(r),
         \/ pc[r] = "run" /\ abandoned' = abandoned
         \/ pc[r] = "wait" /\ abandoned' = abandoned \cup {oid[r]}
  PROVE  TurnInv'
<1>1. /\ pc'[r] = "idle"
      /\ \A q \in Reqs \ {r} : pc'[q] = pc[q] /\ oid'[q] = oid[q]
      /\ awaiting_orders' = awaiting_orders \ {oid[r]}
  BY LeaveFacts DEF TurnInv
<1>2. abandoned \subseteq abandoned'
  OBVIOUS
<1>3. \A q \in Reqs : pc'[q] = "run" => q # r /\ pc[q] = "run" /\ oid'[q] = oid[q]
  BY <1>1
<1>4. RunIsListed'
  <2> SUFFICES ASSUME NEW q \in Reqs, pc'[q] = "run", oid'[q] \notin abandoned'
               PROVE  oid'[q] \in awaiting_orders'
    BY DEF RunIsListed
  <2>1. oid[q] \in awaiting_orders
    BY <1>2, <1>3 DEF TurnInv, RunIsListed
  <2>2. oid[q] # oid[r]
    BY <1>2, <1>3 DEF TurnInv, ExclusiveUnlessAbandoned
  <2> QED
    BY <1>1, <1>3, <2>1, <2>2
<1>5. ExclusiveUnlessAbandoned'
  BY <1>2, <1>3 DEF TurnInv, ExclusiveUnlessAbandoned
<1>6. NoOrphanEntry'
  BY <1>1 DEF TurnInv, NoOrphanEntry
<1> QED
  BY <1>4, <1>5, <1>6 DEF TurnInv

\* Entries of awaiting_orders and running scripts stay in correspondence.
LEMMA TurnStep == TurnInv /\ [Next]_vars => TurnInv'
<1> SUFFICES ASSUME TurnInv, [Next]_vars PROVE TurnInv'
  OBVIOUS
<1>1. TypeOK /\ TypeOK'
  BY TypeStep DEF TurnInv
<1>2. CASE UNCHANGED vars
  BY <1>1, <1>2, TurnQuiet DEF vars
<1>3. ASSUME NEW r \in Reqs, NEW o \in Orders, Call(r, o) PROVE TurnInv'
  <2>1. /\ pc[r] # "run" /\ pc'[r] # "run"
        /\ \A q \in Reqs \ {r} : pc'[q] = pc[q] /\ oid'[q] = oid[q]
        /\ UNCHANGED <<awaiting_orders, abandoned>>
    BY <1>1, <1>3, MoveFacts DEF Call, TypeOK, Inside
  <2> QED
    BY <1>1, <2>1, TurnQuiet
<1>4. ASSUME NEW r \in Reqs, Refuse(r) PROVE TurnInv'
  <2>1. /\ pc[r] # "run" /\ pc'[r] # "run"
        /\ \A q \in Reqs \ {r} : pc'[q] = pc[q] /\ oid'[q] = oid[q]
        /\ UNCHANGED <<awaiting_orders, abandoned>>
    BY <1>1, <1>4, MoveFacts DEF Refuse, TypeOK
  <2> QED
    BY <1>1, <2>1, TurnQuiet
<1>5. ASSUME NEW r \in Reqs, Enter(r) PROVE TurnInv'
  <2>1. CASE oid[r] \in awaiting_orders
    <3>1. /\ pc[r] # "run" /\ pc'[r] # "run"
          /\ \A q \in Reqs \ {r} : pc'[q] = pc[q]
          /\ UNCHANGED <<awaiting_orders, oid, abandoned>>
      BY <1>1, <1>5, <2>1, MoveFacts DEF Enter, Inside
    <3> QED
      BY <1>1, <3>1, TurnQuiet
  <2>2. CASE oid[r] \notin awaiting_orders
    BY <1>1, <1>5, <2>2, TurnBegins DEF Enter
  <2> QED
    BY <2>1, <2>2
<1>6. ASSUME NEW r \in Reqs, Wake(r) PROVE TurnInv'
  BY <1>1, <1>6, TurnBegins DEF Wake
<1>7. ASSUME NEW r \in Reqs, ScriptEnds(r) PROVE TurnInv'
  BY <1>1, <1>7, TurnEnds DEF ScriptEnds
<1>8. ASSUME NEW r \in Reqs, Cancel(r) PROVE TurnInv'
  BY <1>1, <1>8, TurnEnds DEF Cancel
<1>9. CASE CloseGroup
  BY <1>1, <1>9, TurnQuiet DEF CloseGroup
<1> QED
  BY <1>2, <1>3, <1>4, <1>5, <1>6, <1>7, <1>8, <1>9 DEF Next, Step

\* The correspondence holds in every reachable state.
LEMMA TurnInvariant == Spec => []TurnInv
<1>1. Init => TurnInv
  <2> SUFFICES ASSUME Init PROVE TurnInv
    OBVIOUS
  <2>1. TypeOK
    BY ConstantsAssumption DEF Init, TypeOK
  <2> QED
    BY <2>1 DEF Init, TurnInv, RunIsListed, ExclusiveUnlessAbandoned, NoOrphanEntry
<1> QED
  BY <1>1, TurnStep, PTL DEF Spec

\* get_payurl: a script runs once at a time for an order no caller was
\* cancelled waiting for.
THEOREM PayUrlExclusive == Spec => []ExclusiveUnlessAbandoned
<1>1. TurnInv => ExclusiveUnlessAbandoned
  BY DEF TurnInv
<1> QED
  BY <1>1, TurnInvariant, PTL

\* get_payurl: scoped_exit leaves no entry behind, whichever way a call ends.
THEOREM PayUrlNoOrphan == Spec => []NoOrphanEntry
<1>1. TurnInv => NoOrphanEntry
  BY DEF TurnInv
<1> QED
  BY <1>1, TurnInvariant, PTL

=============================================================================
