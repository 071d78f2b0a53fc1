------------------------ MODULE MerchantApply_proofs ------------------------
(***************************************************************************)
(* The properties of MerchantApply for any number of users, handlers and   *)
(* applications.                                                           *)
(***************************************************************************)
EXTENDS MerchantApply, TLAPS

\* The applications of a user are numbered without gaps, and those an
\* administrator's transaction has found are not removed.
Numbered ==
  /\ \A u \in Users : \A s, k \in Seqs :
       app[u][s] # "none" /\ k < s => app[u][k] # "none"
  /\ \A r \in Reqs : req[r].pc \in {"approve", "deny"} =>
       app[req[r].uid][req[r].seq] # "none"

\* A handler that has read max(seq) holds a number no smaller than the next
\* free one when it was read: all smaller ones are taken.
SeqRead ==
  \A r \in Reqs : req[r].pc \in {"waiting", "add"} =>
    \A k \in Seqs : k < req[r].seq => app[req[r].uid][k] # "none"

\* A handler about to insert either will be refused, its number having been
\* taken since, or nothing has been applied for since it looked.
AddIsSafe ==
  \A r \in Reqs :
    /\ req[r].pc = "add" /\ req[r].seq \in Seqs
    /\ app[req[r].uid][req[r].seq] = "none"
    => \A k \in Seqs : app[req[r].uid][k] # "waiting"

\* The inductive invariant behind AtMostOneWaiting.
WaitingInv == TypeOK /\ Numbered /\ SeqRead /\ AddIsSafe /\ AtMostOneWaiting

\* Only the handler that created a merchant sets up its account.
InitOwned ==
  /\ \A r \in Reqs : req[r].pc = "init" =>
       req[r].uid \in merchants /\ inits[req[r].uid] = 0
  /\ \A r, q \in Reqs :
       req[r].pc = "init" /\ req[q].pc = "init" /\ req[r].uid = req[q].uid => r = q

\* The inductive invariant behind InitAtMostOnce.
InitInv == TypeOK /\ InitOwned /\ InitAtMostOnce

\* A step of handler r that changes no table and does not take r to a place
\* where the invariants say something about it.
Quiet(r) ==
  /\ UNCHANGED <<app, merchants, gitea, inits, overruled>>
  /\ req'[r].pc \notin {"waiting", "add", "approve", "deny", "init"}
  /\ \A q \in Reqs \ {r} : req'[q] = req[q]

\* Handler r goes on to pc, and no table changes.
Moves(r, pc) ==
  /\ Goto(r, pc)
  /\ UNCHANGED <<app, merchants, gitea, inits, overruled>>

-----------------------------------------------------------------------------
(* What a step does to the handlers *)

\* Another handler's record is left alone, the handler's own is replaced.
LEMMA FinishFacts ==
  ASSUME NEW r \in Reqs, req \in [Reqs -> Request], Finish(r)
  PROVE  /\ req' \in [Reqs -> Request]
         /\ req'[r] = Idle
         /\ \A q \in Reqs \ {r} : req'[q] = req[q]
<1>1. Idle \in Request
  BY DEF Idle, Request, Pcs
<1> QED
  BY <1>1 DEF Finish

\* Only the pc of the one handler changes.
LEMMA GotoFacts ==
  ASSUME NEW r \in Reqs, NEW pc \in Pcs, req \in [Reqs -> Request], Goto(r, pc)
  PROVE  /\ req' \in [Reqs -> Request]
         /\ req'[r].pc = pc /\ req'[r].uid = req[r].uid /\ req'[r].seq = req[r].seq
         /\ \A q \in Reqs \ {r} : req'[q] = req[q]
<1> DEFINE new == [req[r] EXCEPT !.pc = pc]
<1>1. req' = [req EXCEPT ![r] = new]
  BY DEF Goto
<1>2. req[r] \in Request
  OBVIOUS
<1>3. /\ new \in Request
      /\ new.pc = pc /\ new.uid = req[r].uid /\ new.seq = req[r].seq
  BY <1>2 DEF Request
<1> HIDE DEF new
<1> QED
  BY <1>1, <1>3

\* A handler starts, or goes on with a number it has read.
LEMMA StartFacts ==
  ASSUME NEW r \in Reqs, NEW pc \in Pcs, NEW u \in Users, NEW s \in Nat,
         req \in [Reqs -> Request],
         req' = [req EXCEPT ![r] = [pc |-> pc, uid |-> u, seq |-> s]]
  PROVE  /\ req' \in [Reqs -> Request]
         /\ req'[r].pc = pc /\ req'[r].uid = u /\ req'[r].seq = s
         /\ \A q \in Reqs \ {r} : req'[q] = req[q]
<1> DEFINE new == [pc |-> pc, uid |-> u, seq |-> s]
<1>1. /\ new \in Request
      /\ new.pc = pc /\ new.uid = u /\ new.seq = s
  BY DEF Request
<1>2. req' = [req EXCEPT ![r] = new]
  OBVIOUS
<1> HIDE DEF new
<1> QED
  BY <1>1, <1>2

\* LoadMaxSeq stores the number it read in its own handler.
LEMMA LoadMaxSeqFacts ==
  ASSUME NEW r \in Reqs, TypeOK, LoadMaxSeq(r)
  PROVE  /\ req[r].uid \in Users
         /\ req'[r].seq \in Nat /\ IsNextSeq(req[r].uid, req'[r].seq)
         /\ req' \in [Reqs -> Request]
         /\ req'[r].pc = "waiting" /\ req'[r].uid = req[r].uid
         /\ \A q \in Reqs \ {r} : req'[q] = req[q]
<1>1. PICK s \in 0..MaxApps :
        /\ IsNextSeq(req[r].uid, s)
        /\ req' = [req EXCEPT ![r] =
                     [pc |-> "waiting", uid |-> req[r].uid, seq |-> s]]
  BY DEF LoadMaxSeq
<1>2. req \in [Reqs -> Request] /\ req[r].uid \in Users
  BY DEF LoadMaxSeq, TypeOK
<1>3. s \in Nat /\ "waiting" \in Pcs
  BY ConstantsAssumption DEF Pcs
<1>4. /\ req' \in [Reqs -> Request]
      /\ req'[r].pc = "waiting" /\ req'[r].uid = req[r].uid /\ req'[r].seq = s
      /\ \A q \in Reqs \ {r} : req'[q] = req[q]
  BY <1>1, <1>2, <1>3, StartFacts
<1> QED
  BY <1>1, <1>2, <1>3, <1>4

\* An application is written for one user and one number.
LEMMA AppFacts ==
  ASSUME NEW u \in Users, NEW s \in Seqs, NEW st \in States,
         app \in [Users -> [Seqs -> States]],
         app' = [app EXCEPT ![u][s] = st]
  PROVE  /\ app' \in [Users -> [Seqs -> States]]
         /\ app'[u][s] = st
         /\ \A v \in Users : \A t \in Seqs :
              v # u \/ t # s => app'[v][t] = app[v][t]
<1> DEFINE new == [app[u] EXCEPT ![s] = st]
<1>1. app' = [app EXCEPT ![u] = new]
  OBVIOUS
<1>2. /\ new \in [Seqs -> States] /\ new[s] = st
      /\ \A t \in Seqs : t # s => new[t] = app[u][t]
  OBVIOUS
<1> HIDE DEF new
<1> QED
  BY <1>1, <1>2

-----------------------------------------------------------------------------
\* A step keeps the types.
LEMMA TypeStep == TypeOK /\ [Next]_vars => TypeOK'
<1> SUFFICES ASSUME TypeOK, [Next]_vars PROVE TypeOK'
  OBVIOUS
<1>1. CASE UNCHANGED vars
  BY <1>1 DEF vars, TypeOK
<1>2. ASSUME NEW r \in Reqs, NEW pc \in Pcs, NEW u \in Users, NEW s \in Nat,
             pc \in {"find", "query"} => s \in Seqs,
             pc \in {"merchant", "find", "query"},
             req' = [req EXCEPT ![r] = [pc |-> pc, uid |-> u, seq |-> s]],
             UNCHANGED <<app, merchants, gitea, inits, overruled>>
      PROVE  TypeOK'
  <2>1. /\ req' \in [Reqs -> Request]
        /\ req'[r].pc = pc /\ req'[r].uid = u /\ req'[r].seq = s
        /\ \A q \in Reqs \ {r} : req'[q] = req[q]
    BY <1>2, StartFacts DEF TypeOK
  <2> QED
    BY <1>2, <2>1 DEF TypeOK
<1>3. ASSUME NEW r \in Reqs, NEW u \in Users, Apply(r, u) PROVE TypeOK'
  BY <1>2, <1>3 DEF Apply, Pcs
<1>4. ASSUME NEW r \in Reqs, Finish(r),
             UNCHANGED <<app, merchants, gitea, inits, overruled>>
      PROVE  TypeOK'
  BY <1>4, FinishFacts DEF TypeOK, Idle
<1>5. ASSUME NEW r \in Reqs, NEW pc \in Pcs, Goto(r, pc), req[r].uid \in Users,
             pc \in {"approve", "init", "query", "deny"} => req[r].seq \in Seqs,
             pc # "find",
             UNCHANGED <<app, merchants, gitea, inits, overruled>>
      PROVE  TypeOK'
  BY <1>5, GotoFacts DEF TypeOK
<1>6. ASSUME NEW r \in Reqs, LoadMaxSeq(r) PROVE TypeOK'
  BY <1>6, LoadMaxSeqFacts DEF LoadMaxSeq, TypeOK
<1>7. ASSUME NEW r \in Reqs, AddApplication(r) PROVE TypeOK'
  <2>1. app' \in [Users -> [Seqs -> States]]
    BY <1>7, AppFacts DEF AddApplication, TypeOK, States
  <2> QED
    BY <1>7, <2>1, FinishFacts DEF AddApplication, TypeOK, Idle
<1>8. ASSUME NEW r \in Reqs, ApproveCommit(r) PROVE TypeOK'
  <2>1. app' \in [Users -> [Seqs -> States]]
    BY <1>8, AppFacts DEF ApproveCommit, TypeOK, States
  <2>2. "init" \in Pcs
    BY DEF Pcs
  <2> QED
    BY <1>8, <2>1, <2>2, GotoFacts DEF ApproveCommit, TypeOK
<1>9. ASSUME NEW r \in Reqs, InitMerchant(r) PROVE TypeOK'
  BY <1>9, FinishFacts DEF InitMerchant, TypeOK, Idle
<1>10. ASSUME NEW r \in Reqs, DenyCommit(r) PROVE TypeOK'
  <2>1. /\ app' \in [Users -> [Seqs -> States]]
        /\ overruled' \subseteq Users \X Seqs
    BY <1>10, AppFacts DEF DenyCommit, TypeOK, States
  <2>2. "query" \in Pcs
    BY DEF Pcs
  <2>3. CASE Finish(r)
    BY <1>10, <2>1, <2>3, FinishFacts DEF DenyCommit, TypeOK, Idle
  <2>4. CASE Goto(r, "query")
    BY <1>10, <2>1, <2>2, <2>4, GotoFacts DEF DenyCommit, TypeOK
  <2> QED
    BY <1>10, <2>3, <2>4 DEF DenyCommit
<1>11. ASSUME NEW r \in Reqs,
              \/ CheckMerchant(r) \/ CheckWaiting(r) \/ AddRefused(r)
              \/ ApproveFind(r) \/ ApproveRefused(r) \/ DenyQuery(r) \/ Drop(r)
       PROVE  TypeOK'
  BY <1>4, <1>5, <1>11
     DEF CheckMerchant, CheckWaiting, AddRefused, ApproveFind, ApproveRefused,
         DenyQuery, Drop, TypeOK, Pcs
<1>12. ASSUME NEW r \in Reqs, NEW u \in Users, NEW s \in Seqs,
              Approve(r, u, s) \/ Deny(r, u, s)
       PROVE  TypeOK'
  <2>1. s \in Nat /\ {"find", "query"} \subseteq Pcs
    BY ConstantsAssumption DEF Seqs, Pcs
  <2>2. CASE Approve(r, u, s)
    BY <2>1, <2>2, <1>2 DEF Approve
  <2>3. CASE Deny(r, u, s)
    BY <2>1, <2>3, <1>2 DEF Deny
  <2> QED
    BY <1>12, <2>2, <2>3
<1> QED
  BY <1>1, <1>3, <1>6, <1>7, <1>8, <1>9, <1>10, <1>11, <1>12 DEF Next, Step

\* The tables and the handlers keep their types.
THEOREM TypeCorrect == Spec => []TypeOK
<1>1. Init => TypeOK
  BY ConstantsAssumption DEF Init, TypeOK, Request, Idle, Pcs, States, Seqs
<1> QED
  BY <1>1, TypeStep, PTL DEF Spec

-----------------------------------------------------------------------------
\* The kinds of steps the invariants tell apart.
LEMMA NextCases ==
  ASSUME TypeOK, Next
  PROVE  \E r \in Reqs :
           \/ Quiet(r)
           \/ CheckWaiting(r) /\ Moves(r, "add")
           \/ ApproveFind(r) /\ Moves(r, "approve")
           \/ DenyQuery(r) /\ Moves(r, "deny")
           \/ LoadMaxSeq(r) \/ AddApplication(r) \/ ApproveCommit(r)
           \/ InitMerchant(r) \/ DenyCommit(r)
<1>1. ASSUME NEW r \in Reqs, Finish(r),
             UNCHANGED <<app, merchants, gitea, inits, overruled>>
      PROVE  Quiet(r)
  BY <1>1, FinishFacts DEF Quiet, TypeOK, Idle
<1>2. ASSUME NEW r \in Reqs, CheckMerchant(r) PROVE Quiet(r)
  BY <1>1, <1>2, GotoFacts DEF CheckMerchant, Quiet, TypeOK, Pcs
<1>3. ASSUME NEW r \in Reqs, AddRefused(r) \/ ApproveRefused(r) \/ Drop(r)
      PROVE  Quiet(r)
  BY <1>1, <1>3 DEF AddRefused, ApproveRefused, Drop
<1>4. ASSUME NEW r \in Reqs, CheckWaiting(r) PROVE Quiet(r) \/ Moves(r, "add")
  BY <1>1, <1>4 DEF CheckWaiting, Moves
<1>5. ASSUME NEW r \in Reqs, ApproveFind(r) PROVE Quiet(r) \/ Moves(r, "approve")
  BY <1>1, <1>5 DEF ApproveFind, Moves
<1>6. ASSUME NEW r \in Reqs, DenyQuery(r) PROVE Quiet(r) \/ Moves(r, "deny")
  BY <1>1, <1>6 DEF DenyQuery, Moves
<1>7. ASSUME NEW r \in Reqs, NEW u \in Users, Apply(r, u) PROVE Quiet(r)
  BY <1>7, StartFacts DEF Apply, Quiet, TypeOK, Pcs
<1>8. ASSUME NEW r \in Reqs, NEW u \in Users, NEW s \in Seqs,
             Approve(r, u, s) \/ Deny(r, u, s)
      PROVE  Quiet(r)
  <2>1. s \in Nat /\ "find" \in Pcs /\ "query" \in Pcs /\ req \in [Reqs -> Request]
    BY ConstantsAssumption DEF Seqs, Pcs, TypeOK
  <2>2. CASE Approve(r, u, s)
    BY <2>1, <2>2, StartFacts DEF Approve, Quiet
  <2>3. CASE Deny(r, u, s)
    BY <2>1, <2>3, StartFacts DEF Deny, Quiet
  <2> QED
    BY <1>8, <2>2, <2>3
<1> QED
  BY <1>2, <1>3, <1>4, <1>5, <1>6, <1>7, <1>8 DEF Next, Step

-----------------------------------------------------------------------------
(* AtMostOneWaiting *)

\* A step that leaves the applications alone and takes its handler out of
\* the interesting places keeps the invariant.
LEMMA WaitingQuiet ==
  ASSUME WaitingInv, TypeOK', NEW r \in Reqs, UNCHANGED app,
         req'[r].pc \notin {"waiting", "add", "approve", "deny"},
         \A q \in Reqs \ {r} : req'[q] = req[q]
  PROVE  WaitingInv'
<1>1. Numbered'
  BY DEF WaitingInv, Numbered
<1>2. SeqRead'
  BY DEF WaitingInv, SeqRead
<1>3. AddIsSafe'
  BY DEF WaitingInv, AddIsSafe
<1>4. AtMostOneWaiting'
  BY DEF WaitingInv, AtMostOneWaiting
<1> QED
  BY <1>1, <1>2, <1>3, <1>4 DEF WaitingInv

\* A step that overwrites an application by a decision keeps it too.
LEMMA WaitingDecided ==
  ASSUME WaitingInv, TypeOK', NEW r \in Reqs,
         req[r].pc \in {"approve", "deny"}, NEW st \in {"approved", "denied"},
         app' = [app EXCEPT ![req[r].uid][req[r].seq] = st],
         req'[r].pc \notin {"waiting", "add", "approve", "deny"},
         \A q \in Reqs \ {r} : req'[q] = req[q]
  PROVE  WaitingInv'
<1> DEFINE u == req[r].uid
           s == req[r].seq
<1>1. /\ u \in Users /\ s \in Seqs /\ st \in States
      /\ app \in [Users -> [Seqs -> States]]
  BY DEF WaitingInv, TypeOK, States
<1>2. /\ app'[u][s] = st
      /\ \A v \in Users : \A t \in Seqs : v # u \/ t # s => app'[v][t] = app[v][t]
  BY <1>1, AppFacts
<1>3. app[u][s] # "none"
  BY DEF WaitingInv, Numbered
<1>4. \A v \in Users : \A t \in Seqs :
        /\ app'[v][t] = "none" <=> app[v][t] = "none"
        /\ app'[v][t] = "waiting" => app[v][t] = "waiting"
  BY <1>1, <1>2, <1>3
<1>5. \A q \in Reqs : req'[q].pc \in {"waiting", "add", "approve", "deny"} =>
        /\ q # r /\ req'[q] = req[q] /\ req[q].uid \in Users
        /\ req[q].pc \in {"approve", "deny"} => req[q].seq \in Seqs
  BY DEF WaitingInv, TypeOK
<1>6. Numbered'
  BY <1>4, <1>5 DEF WaitingInv, Numbered
<1>7. SeqRead'
  BY <1>4, <1>5 DEF WaitingInv, SeqRead
<1>8. AddIsSafe'
  BY <1>4, <1>5 DEF WaitingInv, AddIsSafe
<1>9. AtMostOneWaiting'
  BY <1>4 DEF WaitingInv, AtMostOneWaiting
<1> QED
  BY <1>6, <1>7, <1>8, <1>9 DEF WaitingInv

\* The number read by LoadMaxSeq lies just above all that are taken.
LEMMA WaitingLoad ==
  ASSUME WaitingInv, TypeOK', NEW r \in Reqs, LoadMaxSeq(r)
  PROVE  WaitingInv'
<1> DEFINE u == req[r].uid
           s == req'[r].seq
<1>1. /\ u \in Users /\ s \in Nat /\ IsNextSeq(u, s)
      /\ req'[r].pc = "waiting" /\ req'[r].uid = u
      /\ \A q \in Reqs \ {r} : req'[q] = req[q]
      /\ app' = app
  BY LoadMaxSeqFacts DEF WaitingInv, LoadMaxSeq
<1>2. ASSUME NEW k \in Seqs, k < s PROVE app[u][k] # "none"
  <2>1. s > 0 /\ s - 1 \in Seqs /\ app[u][s - 1] # "none" /\ (k = s - 1 \/ k < s - 1)
    BY <1>1, <1>2, ConstantsAssumption DEF IsNextSeq, Seqs
  <2> QED
    BY <1>1, <2>1 DEF WaitingInv, Numbered
<1>3. Numbered'
  BY <1>1 DEF WaitingInv, Numbered
<1>4. SeqRead'
  BY <1>1, <1>2 DEF WaitingInv, SeqRead
<1>5. AddIsSafe'
  BY <1>1 DEF WaitingInv, AddIsSafe
<1>6. AtMostOneWaiting'
  BY <1>1 DEF WaitingInv, AtMostOneWaiting
<1> QED
  BY <1>3, <1>4, <1>5, <1>6 DEF WaitingInv

\* Two handlers about to insert for the same user, neither of them to be
\* refused, hold the same number: so after one has inserted the other is
\* refused.
LEMMA WaitingAdd ==
  ASSUME WaitingInv, TypeOK', NEW r \in Reqs, AddApplication(r)
  PROVE  WaitingInv'
<1> DEFINE u == req[r].uid
           s == req[r].seq
<1>1. /\ u \in Users /\ s \in Seqs /\ "waiting" \in States
      /\ req[r].pc = "add" /\ app[u][s] = "none"
      /\ app \in [Users -> [Seqs -> States]]
      /\ app' = [app EXCEPT ![u][s] = "waiting"]
  BY DEF WaitingInv, TypeOK, States, AddApplication
<1>2. /\ app'[u][s] = "waiting"
      /\ \A v \in Users : \A t \in Seqs : v # u \/ t # s => app'[v][t] = app[v][t]
  BY <1>1, AppFacts
<1>3. \A k \in Seqs : k < s => app[u][k] # "none"
  BY <1>1 DEF WaitingInv, SeqRead
<1>4. \A k \in Seqs : app[u][k] # "waiting"
  BY <1>1 DEF WaitingInv, AddIsSafe
<1>5. \A q \in Reqs :
        \/ req'[q] = req[q]
        \/ q = r /\ req'[q].pc = "idle"
  BY FinishFacts DEF AddApplication, WaitingInv, TypeOK, Idle
<1>6. \A q \in Reqs : req'[q].pc \in {"waiting", "add", "approve", "deny"} =>
        /\ req'[q] = req[q] /\ req[q].uid \in Users
        /\ req[q].pc \in {"approve", "deny"} => req[q].seq \in Seqs
  BY <1>5 DEF WaitingInv, TypeOK
<1>7. \A v \in Users : \A t \in Seqs :
        /\ app[v][t] # "none" => app'[v][t] # "none"
        /\ v # u => app'[v][t] = app[v][t]
  BY <1>1, <1>2
<1>8. Numbered'
  <2>1. \A v \in Users : \A t, k \in Seqs :
          app'[v][t] # "none" /\ k < t => app'[v][k] # "none"
    <3> SUFFICES ASSUME NEW v \in Users, NEW t \in Seqs, NEW k \in Seqs,
                        app'[v][t] # "none", k < t
                 PROVE  app'[v][k] # "none"
      OBVIOUS
    <3>1. CASE v = u /\ t = s
      BY <3>1, <1>3, <1>7
    <3>2. CASE v # u \/ t # s
      BY <3>2, <1>2, <1>7 DEF WaitingInv, Numbered
    <3> QED
      BY <3>1, <3>2
  <2>2. \A q \in Reqs : req'[q].pc \in {"approve", "deny"} =>
          app'[req'[q].uid][req'[q].seq] # "none"
    BY <1>6, <1>7 DEF WaitingInv, Numbered
  <2> QED
    BY <2>1, <2>2 DEF Numbered
<1>9. SeqRead'
  BY <1>6, <1>7 DEF WaitingInv, SeqRead
<1>10. AddIsSafe'
  <2> SUFFICES ASSUME NEW q \in Reqs, req'[q].pc = "add", req'[q].seq \in Seqs,
                      app'[req'[q].uid][req'[q].seq] = "none",
                      NEW k \in Seqs
               PROVE  app'[req'[q].uid][k] # "waiting"
    BY DEF AddIsSafe
  <2>1. /\ req'[q] = req[q] /\ req[q].uid \in Users /\ req[q].seq \in Seqs
        /\ app[req[q].uid][req[q].seq] = "none"
    BY <1>6, <1>7
  <2>2. CASE req[q].uid # u
    BY <1>7, <2>1, <2>2 DEF WaitingInv, AddIsSafe
  <2>3. CASE req[q].uid = u
    <3>1. \A j \in Seqs : j < req[q].seq => app[u][j] # "none"
      BY <2>1, <2>3 DEF WaitingInv, SeqRead
    <3>2. req[q].seq = s
      BY <1>1, <1>3, <2>1, <2>3, <3>1, ConstantsAssumption DEF Seqs
    <3> QED
      BY <1>2, <2>1, <2>3, <3>2
  <2> QED
    BY <2>2, <2>3
<1>11. AtMostOneWaiting'
  BY <1>1, <1>2, <1>4 DEF WaitingInv, AtMostOneWaiting
<1> QED
  BY <1>8, <1>9, <1>10, <1>11 DEF WaitingInv

\* A handler that found an application waiting knows that there is one; a
\* handler that found none waiting may insert.
LEMMA WaitingMoves ==
  ASSUME WaitingInv, TypeOK', NEW r \in Reqs,
         \/ CheckWaiting(r) /\ Moves(r, "add")
         \/ ApproveFind(r) /\ Moves(r, "approve")
         \/ DenyQuery(r) /\ Moves(r, "deny")
  PROVE  WaitingInv'
<1> DEFINE u == req[r].uid
           s == req[r].seq
<1>1. PICK pc \in {"add", "approve", "deny"} : Moves(r, pc) /\ pc # req[r].pc
  BY DEF CheckWaiting, ApproveFind, DenyQuery
<1>2. /\ req'[r].pc = pc /\ req'[r].uid = u /\ req'[r].seq = s
      /\ \A q \in Reqs \ {r} : req'[q] = req[q]
      /\ app' = app
  BY <1>1, GotoFacts DEF Moves, WaitingInv, TypeOK, Pcs
<1>3. pc = "add" =>
        /\ req[r].pc = "waiting"
        /\ \A k \in Seqs : app[u][k] # "waiting"
  <2> SUFFICES ASSUME pc = "add" PROVE CheckWaiting(r) /\ Moves(r, "add")
    BY <1>2, FinishFacts DEF CheckWaiting, WaitingInv, TypeOK, Idle
  <2> QED
    BY <1>2, GotoFacts DEF Moves, WaitingInv, TypeOK, Pcs
<1>4. pc # "add" => app[u][s] # "none"
  <2> SUFFICES ASSUME pc # "add" PROVE ApproveFind(r) \/ DenyQuery(r)
    BY <1>2, FinishFacts DEF ApproveFind, DenyQuery, WaitingInv, TypeOK, Idle
  <2> QED
    BY <1>2, GotoFacts DEF Moves, WaitingInv, TypeOK, Pcs
<1>5. Numbered'
  BY <1>2, <1>4 DEF WaitingInv, Numbered
<1>6. SeqRead'
  BY <1>2, <1>3 DEF WaitingInv, SeqRead
<1>7. AddIsSafe'
  BY <1>2, <1>3 DEF WaitingInv, AddIsSafe
<1>8. AtMostOneWaiting'
  BY <1>2 DEF WaitingInv, AtMostOneWaiting
<1> QED
  BY <1>5, <1>6, <1>7, <1>8 DEF WaitingInv

\* A user has at most one application waiting, however many handlers apply,
\* approve and deny at the same time.
THEOREM OneWaiting == Spec => []AtMostOneWaiting
<1>1. Init => WaitingInv
  <2> SUFFICES ASSUME Init PROVE WaitingInv
    OBVIOUS
  <2>1. TypeOK
    BY ConstantsAssumption DEF Init, TypeOK, Request, Idle, Pcs, States, Seqs
  <2> QED
    BY <2>1 DEF Init, WaitingInv, Numbered, SeqRead, AddIsSafe, AtMostOneWaiting, Idle
<1>2. WaitingInv /\ [Next]_vars => WaitingInv'
  <2> SUFFICES ASSUME WaitingInv, [Next]_vars PROVE WaitingInv'
    OBVIOUS
  <2>1. TypeOK'
    BY TypeStep DEF WaitingInv
  <2>2. CASE UNCHANGED vars
    BY <2>2 DEF vars, WaitingInv, TypeOK, Numbered, SeqRead, AddIsSafe, AtMostOneWaiting
  <2>3. ASSUME NEW r \in Reqs, Quiet(r) PROVE WaitingInv'
    BY <2>1, <2>3, WaitingQuiet DEF Quiet
  <2>4. ASSUME NEW r \in Reqs, InitMerchant(r) PROVE WaitingInv'
    <3>1. /\ req'[r].pc = "idle"
          /\ \A q \in Reqs \ {r} : req'[q] = req[q]
      BY <2>4, FinishFacts DEF InitMerchant, WaitingInv, TypeOK, Idle
    <3> QED
      BY <2>1, <2>4, <3>1, WaitingQuiet DEF InitMerchant
  <2>5. ASSUME NEW r \in Reqs, ApproveCommit(r) PROVE WaitingInv'
    BY <2>1, <2>5, WaitingDecided, GotoFacts DEF ApproveCommit, WaitingInv, TypeOK, Pcs
  <2>6. ASSUME NEW r \in Reqs, DenyCommit(r) PROVE WaitingInv'
    <3>1. /\ req'[r].pc \in {"idle", "query"}
          /\ \A q \in Reqs \ {r} : req'[q] = req[q]
      BY <2>6, FinishFacts, GotoFacts DEF DenyCommit, WaitingInv, TypeOK, Idle, Pcs
    <3> QED
      BY <2>1, <2>6, <3>1, WaitingDecided DEF DenyCommit
  <2>7. CASE Next
    BY <2>1, <2>3, <2>4, <2>5, <2>6, <2>7, NextCases,
       WaitingMoves, WaitingLoad, WaitingAdd DEF WaitingInv
  <2> QED
    BY <2>2, <2>7
<1>3. WaitingInv => AtMostOneWaiting
  BY DEF WaitingInv
<1> QED
  BY <1>1, <1>2, <1>3, PTL DEF Spec

-----------------------------------------------------------------------------
(* Approvals and merchants *)

\* The inductive invariant of the two theorems below.
ApprovalInv == TypeOK /\ ApprovedIsMerchant /\ MerchantWasApproved

\* A decision is written together with what it means for the merchants.
LEMMA ApprovalStep == ApprovalInv /\ [Next]_vars => ApprovalInv'
<1> SUFFICES ASSUME ApprovalInv, [Next]_vars PROVE ApprovalInv'
  OBVIOUS
<1>1. TypeOK /\ TypeOK'
  BY TypeStep DEF ApprovalInv
<1>2. ASSUME UNCHANGED <<app, merchants, overruled>> PROVE ApprovalInv'
  BY <1>1, <1>2 DEF ApprovalInv, ApprovedIsMerchant, MerchantWasApproved
<1>3. ASSUME NEW r \in Reqs, AddApplication(r) PROVE ApprovalInv'
  <2> DEFINE u == req[r].uid
             s == req[r].seq
  <2>1. u \in Users /\ s \in Seqs /\ app[u][s] = "none" /\ "waiting" \in States
    BY <1>1, <1>3 DEF AddApplication, TypeOK, States
  <2>2. /\ app'[u][s] = "waiting"
        /\ \A v \in Users : \A t \in Seqs : v # u \/ t # s => app'[v][t] = app[v][t]
        /\ merchants' = merchants /\ overruled' = overruled
    BY <1>1, <1>3, <2>1, AppFacts DEF AddApplication, TypeOK
  <2>3. \A v \in Users : \A t \in Seqs :
          app'[v][t] = "approved" <=> app[v][t] = "approved"
    BY <2>1, <2>2
  <2> QED
    BY <1>1, <2>2, <2>3 DEF ApprovalInv, ApprovedIsMerchant, MerchantWasApproved, TypeOK
<1>4. ASSUME NEW r \in Reqs, ApproveCommit(r) PROVE ApprovalInv'
  <2> DEFINE u == req[r].uid
             s == req[r].seq
  <2>1. u \in Users /\ s \in Seqs /\ "approved" \in States
    BY <1>1, <1>4 DEF ApproveCommit, TypeOK, States
  <2>2. /\ app'[u][s] = "approved"
        /\ \A v \in Users : \A t \in Seqs : v # u \/ t # s => app'[v][t] = app[v][t]
        /\ merchants' = merchants \cup {u} /\ overruled' = overruled
    BY <1>1, <1>4, <2>1, AppFacts DEF ApproveCommit, TypeOK
  <2>3. ApprovedIsMerchant'
    BY <2>1, <2>2 DEF ApprovalInv, ApprovedIsMerchant
  <2>4. MerchantWasApproved'
    BY <1>1, <2>1, <2>2 DEF ApprovalInv, MerchantWasApproved, TypeOK
  <2> QED
    BY <1>1, <2>3, <2>4 DEF ApprovalInv
<1>5. ASSUME NEW r \in Reqs, DenyCommit(r) PROVE ApprovalInv'
  <2> DEFINE u == req[r].uid
             s == req[r].seq
  <2>1. u \in Users /\ s \in Seqs /\ "denied" \in States
    BY <1>1, <1>5 DEF DenyCommit, TypeOK, States
  <2>2. /\ app'[u][s] = "denied"
        /\ \A v \in Users : \A t \in Seqs : v # u \/ t # s => app'[v][t] = app[v][t]
        /\ merchants' = merchants
    BY <1>1, <1>5, <2>1, AppFacts DEF DenyCommit, TypeOK
  <2>3. /\ overruled \subseteq overruled'
        /\ app[u][s] = "approved" => <<u, s>> \in overruled'
    BY <1>5 DEF DenyCommit
  <2>4. ApprovedIsMerchant'
    BY <2>1, <2>2 DEF ApprovalInv, ApprovedIsMerchant
  <2>5. MerchantWasApproved'
    <3> SUFFICES ASSUME NEW v \in merchants
                 PROVE  \E t \in Seqs : app'[v][t] = "approved" \/ <<v, t>> \in overruled'
      BY <2>2 DEF MerchantWasApproved
    <3>1. v \in Users
      BY <1>1 DEF TypeOK
    <3>2. PICK t \in Seqs : app[v][t] = "approved" \/ <<v, t>> \in overruled
      BY DEF ApprovalInv, MerchantWasApproved
    <3>3. CASE v = u /\ t = s
      BY <2>3, <3>2, <3>3
    <3>4. CASE v # u \/ t # s
      BY <2>2, <2>3, <3>1, <3>2, <3>4
    <3> QED
      BY <3>3, <3>4
  <2> QED
    BY <1>1, <2>4, <2>5 DEF ApprovalInv
<1>6. CASE UNCHANGED vars
  BY <1>2, <1>6 DEF vars
<1>7. CASE Next
  BY <1>1, <1>2, <1>3, <1>4, <1>5, <1>7, NextCases
     DEF Quiet, Moves, LoadMaxSeq, InitMerchant
<1> QED
  BY <1>6, <1>7

\* The approvals invariant holds in every reachable state.
LEMMA ApprovalInvariant == Spec => []ApprovalInv
<1>1. Init => ApprovalInv
  <2> SUFFICES ASSUME Init PROVE ApprovalInv
    OBVIOUS
  <2>1. TypeOK
    BY ConstantsAssumption DEF Init, TypeOK, Request, Idle, Pcs, States, Seqs
  <2> QED
    BY <2>1 DEF Init, ApprovalInv, ApprovedIsMerchant, MerchantWasApproved
<1> QED
  BY <1>1, ApprovalStep, PTL DEF Spec

\* admin_approve_merchant: an approved application always has its merchant.
THEOREM ApprovalsHaveMerchants == Spec => []ApprovedIsMerchant
<1>1. ApprovalInv => ApprovedIsMerchant
  BY DEF ApprovalInv
<1> QED
  BY <1>1, ApprovalInvariant, PTL

\* Every merchant has been approved, even if a denial that was in flight has
\* hidden it since.
THEOREM MerchantsHaveApprovals == Spec => []MerchantWasApproved
<1>1. ApprovalInv => MerchantWasApproved
  BY DEF ApprovalInv
<1> QED
  BY <1>1, ApprovalInvariant, PTL

-----------------------------------------------------------------------------
(* InitAtMostOnce *)

\* Who creates a merchant finds it not initialised and nobody at it.
LEMMA InitStep == InitInv /\ [Next]_vars => InitInv'
<1> SUFFICES ASSUME InitInv, [Next]_vars PROVE InitInv'
  OBVIOUS
<1>1. TypeOK /\ TypeOK'
  BY TypeStep DEF InitInv
<1>2. ASSUME UNCHANGED <<merchants, inits>>,
             \A q \in Reqs : req'[q].pc = "init" => req'[q] = req[q]
      PROVE  InitInv'
  BY <1>1, <1>2 DEF InitInv, InitOwned, InitAtMostOnce
<1>3. ASSUME NEW r \in Reqs, NEW pc \in Pcs, Goto(r, pc), pc # "init"
      PROVE  \A q \in Reqs : req'[q].pc = "init" => req'[q] = req[q]
  BY <1>1, <1>3, GotoFacts DEF TypeOK
<1>4. ASSUME NEW r \in Reqs, Finish(r)
      PROVE  \A q \in Reqs : req'[q].pc = "init" => req'[q] = req[q]
  BY <1>1, <1>4, FinishFacts DEF TypeOK, Idle
<1>5. ASSUME NEW r \in Reqs, ApproveCommit(r) PROVE InitInv'
  <2> DEFINE u == req[r].uid
  <2>1. /\ u \in Users /\ u \notin merchants /\ merchants' = merchants \cup {u}
        /\ inits' = inits /\ req[r].pc # "init"
    BY <1>1, <1>5 DEF ApproveCommit, TypeOK
  <2>2. /\ req'[r].pc = "init" /\ req'[r].uid = u
        /\ \A q \in Reqs \ {r} : req'[q] = req[q]
    BY <1>1, <1>5, GotoFacts DEF ApproveCommit, TypeOK, Pcs
  <2>3. inits[u] = 0
    <3>1. inits[u] \in Nat
      BY <1>1, <2>1 DEF TypeOK
    <3>2. inits[u] <= 1 /\ inits[u] # 1
      BY <2>1 DEF InitInv, InitAtMostOnce
    <3> QED
      BY <3>1, <3>2
  <2>4. InitOwned'
    BY <2>1, <2>2, <2>3 DEF InitInv, InitOwned
  <2>5. InitAtMostOnce'
    BY <2>1 DEF InitInv, InitAtMostOnce
  <2> QED
    BY <1>1, <2>4, <2>5 DEF InitInv
<1>6. ASSUME NEW r \in Reqs, InitMerchant(r) PROVE InitInv'
  <2> DEFINE u == req[r].uid
  <2>1. /\ req[r].pc = "init" /\ u \in merchants /\ u \in Users /\ inits[u] = 0
        /\ merchants' = merchants /\ inits' = [inits EXCEPT ![u] = inits[u] + 1]
    BY <1>1, <1>6 DEF InitMerchant, InitInv, InitOwned, TypeOK
  <2>2. /\ inits'[u] = 1
        /\ \A v \in Users \ {u} : inits'[v] = inits[v]
    BY <1>1, <2>1 DEF TypeOK
  <2>3. /\ req'[r].pc = "idle"
        /\ \A q \in Reqs \ {r} : req'[q] = req[q]
    BY <1>1, <1>6, FinishFacts DEF InitMerchant, TypeOK, Idle
  <2>4. \A q \in Reqs : req'[q].pc = "init" =>
          q # r /\ req'[q] = req[q] /\ req[q].uid \in Users \ {u}
    BY <1>1, <2>1, <2>3 DEF InitInv, InitOwned, TypeOK
  <2>5. InitOwned'
    BY <2>1, <2>2, <2>4 DEF InitInv, InitOwned
  <2>6. InitAtMostOnce'
    BY <2>1, <2>2 DEF InitInv, InitAtMostOnce
  <2> QED
    BY <1>1, <2>5, <2>6 DEF InitInv
<1>7. ASSUME NEW r \in Reqs,
             LoadMaxSeq(r) \/ AddApplication(r) \/ DenyCommit(r)
      PROVE  InitInv'
  <2>1. CASE LoadMaxSeq(r)
    BY <1>1, <1>2, <2>1, LoadMaxSeqFacts DEF LoadMaxSeq
  <2>2. CASE AddApplication(r)
    BY <1>2, <1>4, <2>2 DEF AddApplication
  <2>3. CASE DenyCommit(r)
    BY <1>2, <1>3, <1>4, <2>3 DEF DenyCommit, Pcs
  <2> QED
    BY <1>7, <2>1, <2>2, <2>3
<1>8. ASSUME NEW r \in Reqs, NEW pc \in {"add", "approve", "deny"}, Moves(r, pc)
      PROVE  InitInv'
  BY <1>2, <1>3, <1>8 DEF Moves, Pcs
<1>9. ASSUME NEW r \in Reqs, Quiet(r) PROVE InitInv'
  BY <1>2, <1>9 DEF Quiet
<1>10. CASE UNCHANGED vars
  BY <1>2, <1>10 DEF vars
<1>11. CASE Next
  BY <1>1, <1>5, <1>6, <1>7, <1>8, <1>9, <1>11, NextCases
<1> QED
  BY <1>10, <1>11

\* gitea_service.init_user is called at most once for a user and only after
\* the user has become a merchant, however many administrators approve.
THEOREM InitOnce == Spec => []InitAtMostOnce
<1>1. Init => InitInv
  <2> SUFFICES ASSUME Init PROVE InitInv
    OBVIOUS
  <2>1. TypeOK
    BY ConstantsAssumption DEF Init, TypeOK, Request, Idle, Pcs, States, Seqs
  <2> QED
    BY <2>1 DEF Init, InitInv, InitOwned, InitAtMostOnce, Idle
<1>2. InitInv => InitAtMostOnce
  BY DEF InitInv
<1> QED
  BY <1>1, <1>2, InitStep, PTL DEF Spec

=============================================================================
