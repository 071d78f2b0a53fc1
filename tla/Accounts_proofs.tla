--------------------------- MODULE Accounts_proofs ---------------------------
(***************************************************************************)
(* The rows of users and merchants, for every value of the constants: the  *)
(* passwords here and at gitea agree, a ban stays, an address stays, but   *)
(* for the write of a whole row from an older copy, and what has failed.   *)
(***************************************************************************)
EXTENDS Session_proofs, SequenceTheorems, TLAPS

\* The argument of a handler is of the kind its call brings, and it is at a
\* place of its call.
RequestOK(q) ==
  /\ q.pc = "idle" <=> q.op = "none"
  /\ q.op = "add" => q.arg \in Addresses
  /\ q.op = "erase" => q.arg \in Nat
  /\ q.op \in {"mchid", "rename"} => q.arg \in Names
  /\ q.op = "reset" => q.arg \in Passwords /\ q.uid \in Merchants
  /\ q.pc \in {"loadUser", "writeUser"} => q.op \in {"ban", "add", "erase"}
  /\ q.pc = "gitea" => q.op = "reset"
  /\ q.pc \in {"loadMerchant", "writeMerchant"} =>
       q.op \in {"ban", "disable", "enable", "mchid", "rename", "reset"}

AccountInv == Ac!TypeOK /\ \A r \in Reqs : RequestOK(accReq[r])

\* A copy that is not stale is the row. admin_set_merchant_wxpay_submchid has
\* written from its copy when it writes once more.
Current(q) ==
  /\ q.pc = "writeUser" /\ ~q.stale => q.user = userRows[q.uid]
  /\ q.pc = "writeMerchant" /\ ~q.stale =>
       \/ q.merchant = merchants[q.uid]
       \/ q.op = "mchid" /\ Ac!ChangeMerchant(q) = merchants[q.uid]

\* A reset of u that gitea has answered
Answered(q, u) ==
  q.op = "reset" /\ q.uid = u /\ q.pc \in {"loadMerchant", "writeMerchant"}

\* The passwords of u agree when no reset has changed the one at gitea only;
\* a reset that has done so brings the other one; and two resets of u are seen.
PasswordOK(u) ==
  u \notin unsure =>
    /\ merchants[u].pw = gitea[u] \/ \E r \in Reqs : Answered(accReq[r], u)
    /\ \A r \in Reqs : Answered(accReq[r], u) => gitea[u] = accReq[r].arg
    /\ \A q, r \in Reqs :
         /\ accReq[q].op = "reset" /\ accReq[q].uid = u
         /\ accReq[r].op = "reset" /\ accReq[r].uid = u
         => q = r

\* The inductive invariant of passwords and bans
RowsInv ==
  /\ AccountInv /\ \A r \in Reqs : Current(accReq[r])
  /\ \A u \in Merchants : PasswordOK(u)

\* A list has an address twice only if it is in A.
Once(list, A) ==
  \A i, j \in 1..Len(list) : list[i] = list[j] /\ i # j => list[i] \in A

NotIn(a, list) == \A i \in 1..Len(list) : list[i] # a

\* Addresses that no call has brought, or whose call has written none so far
Pending == {accReq[r].arg : r \in {q \in Reqs : accReq[q].op = "add"}}
ToCome == (Addresses \ used) \cup (Pending \ again)

ListOK(list, A, F) == Once(list, A) /\ \A a \in F : NotIn(a, list)

\* The inductive invariant of addresses: the lists, and the copies of them
\* that handlers have loaded, have no address that is fresh.
ListsInv ==
  /\ \A u \in Users : ListOK(userRows[u].recipients, again, ToCome)
  /\ \A r \in Reqs : ListOK(accReq[r].user.recipients, again, ToCome)
  /\ \A r \in Reqs : accReq[r].op = "add" => accReq[r].arg \in used
  /\ \A q, r \in Reqs :
       accReq[q].op = "add" /\ accReq[r].op = "add" /\ accReq[q].arg = accReq[r].arg => q = r

-----------------------------------------------------------------------------
(* Type correctness *)

\* An element is taken out of a list by its place.
LEMMA RemoveAtFacts ==
  ASSUME NEW S, NEW list \in Seq(S), NEW i \in 1..Len(list)
  PROVE  LET t == Ac!RemoveAt(list, i) IN
         /\ t \in Seq(S) /\ Len(t) = Len(list) - 1
         /\ \A j \in 1..Len(t) : t[j] = IF j < i THEN list[j] ELSE list[j + 1]
<1> DEFINE front == SubSeq(list, 1, i - 1)
           back == SubSeq(list, i + 1, Len(list))
<1>1. Len(list) \in Nat
  OBVIOUS
<1>2. /\ front \in Seq(S) /\ Len(front) = i - 1
      /\ \A j \in 1..(i - 1) : front[j] = list[j]
  BY <1>1
<1>3. /\ back \in Seq(S) /\ Len(back) = Len(list) - i
      /\ \A j \in 1..(Len(list) - i) : back[j] = list[i + j]
  BY <1>1
<1> HIDE DEF front, back
<1>a. /\ front \o back \in Seq(S) /\ Len(front \o back) = Len(front) + Len(back)
      /\ \A j \in 1..(Len(front) + Len(back)) :
           (front \o back)[j] = IF j <= Len(front) THEN front[j] ELSE back[j - Len(front)]
  BY <1>2, <1>3, ConcatProperties
<1>4. /\ front \o back \in Seq(S) /\ Len(front \o back) = Len(list) - 1
      /\ \A j \in 1..(Len(list) - 1) :
           (front \o back)[j] = IF j <= i - 1 THEN front[j] ELSE back[j - (i - 1)]
  <2>1. Len(front) + Len(back) = Len(list) - 1
    BY <1>1, <1>2, <1>3
  <2> QED
    BY <1>2, <1>a, <2>1
<1>5. Ac!RemoveAt(list, i) = front \o back
  BY DEF Ac!RemoveAt, front, back
<1>6. ASSUME NEW j \in 1..(Len(list) - 1)
      PROVE  (front \o back)[j] = IF j < i THEN list[j] ELSE list[j + 1]
  <2>1. CASE j < i
    BY <1>1, <1>2, <1>4, <2>1
  <2>2. CASE ~(j < i)
    <3>1. j - (i - 1) \in 1..(Len(list) - i) /\ i + (j - (i - 1)) = j + 1
      BY <1>1, <2>2
    <3> QED
      BY <1>1, <1>3, <1>4, <2>2, <3>1
  <2> QED
    BY <2>1, <2>2
<1> QED
  BY <1>4, <1>5, <1>6

\* What the updaters make of a row is a row.
LEMMA ChangeUserType ==
  ASSUME NEW q \in Ac!Request, RequestOK(q)
  PROVE  Ac!ChangeUser(q) \in Ac!User
<1>1. q.user \in Ac!User /\ q.user.recipients \in Seq(Addresses)
  BY DEF Ac!Request, Ac!User
<1>2. CASE q.op = "add"
  BY <1>1, <1>2 DEF Ac!ChangeUser, Ac!User, RequestOK
<1>3. CASE q.op = "erase" /\ q.arg < Len(q.user.recipients)
  <2>1. q.arg + 1 \in 1..Len(q.user.recipients)
    BY <1>1, <1>3 DEF RequestOK
  <2>2. Ac!RemoveAt(q.user.recipients, q.arg + 1) \in Seq(Addresses)
    BY <1>1, <2>1, RemoveAtFacts
  <2> QED
    BY <1>1, <1>3, <2>2 DEF Ac!ChangeUser, Ac!User
<1>4. CASE q.op = "ban"
  BY <1>1, <1>4 DEF Ac!ChangeUser, Ac!User
<1>5. CASE ~(q.op = "add") /\ ~(q.op = "erase" /\ q.arg < Len(q.user.recipients)) /\ ~(q.op = "ban")
  BY <1>1, <1>5 DEF Ac!ChangeUser
<1> QED
  BY <1>2, <1>3, <1>4, <1>5

LEMMA ChangeMerchantType ==
  ASSUME NEW q \in Ac!Request, RequestOK(q), q.pc = "writeMerchant"
  PROVE  /\ Ac!ChangeMerchant(q) \in Ac!Merchant
         /\ q.op # "reset" => Ac!ChangeMerchant(q).pw = q.merchant.pw
         /\ q.op = "reset" => Ac!ChangeMerchant(q).pw = q.arg
         /\ q.op \in {"mchid", "rename", "reset"} =>
              Ac!ChangeMerchant(q).state = q.merchant.state
         /\ q.op = "ban" => Ac!ChangeMerchant(q).state = "banned"
<1>1. q.merchant \in Ac!Merchant /\ q.op \in {"ban", "disable", "enable", "mchid", "rename", "reset"}
  BY DEF Ac!Request, RequestOK
<1>2. CASE q.op = "ban"
  BY <1>1, <1>2 DEF Ac!ChangeMerchant, Ac!Merchant, Ac!States
<1>3. CASE q.op = "disable"
  BY <1>1, <1>3 DEF Ac!ChangeMerchant, Ac!Merchant, Ac!States
<1>4. CASE q.op = "enable"
  BY <1>1, <1>4 DEF Ac!ChangeMerchant, Ac!Merchant, Ac!States
<1>5. CASE q.op = "mchid"
  BY <1>1, <1>5 DEF Ac!ChangeMerchant, Ac!Merchant, RequestOK
<1>6. CASE q.op = "rename"
  BY <1>1, <1>6 DEF Ac!ChangeMerchant, Ac!Merchant, RequestOK
<1>7. CASE q.op = "reset"
  BY <1>1, <1>7 DEF Ac!ChangeMerchant, Ac!Merchant, RequestOK
<1> QED
  BY <1>1, <1>2, <1>3, <1>4, <1>5, <1>6, <1>7

\* Two requests are the same, but that one may have become stale.
SameBut(p, q) ==
  /\ p.op = q.op /\ p.pc = q.pc /\ p.s = q.s /\ p.uid = q.uid /\ p.arg = q.arg
  /\ p.user = q.user /\ p.merchant = q.merchant /\ (q.stale => p.stale)

\* Handler r becomes h, and the others become stale where their row changes.
Becomes(r, h) ==
  /\ accReq' \in [Reqs -> Ac!Request] /\ accReq'[r] = h
  /\ \A q \in Reqs \ {r} : SameBut(accReq'[q], accReq[q])

LEMMA ExceptBecomes ==
  ASSUME accReq \in [Reqs -> Ac!Request], NEW r \in Reqs, NEW h \in Ac!Request,
         accReq' = [accReq EXCEPT ![r] = h]
  PROVE  Becomes(r, h)
  BY DEF Becomes, SameBut

LEMMA AfterWriteBecomes ==
  ASSUME accReq \in [Reqs -> Ac!Request], NEW r \in Reqs, NEW h \in Ac!Request,
         NEW u, NEW pc, Ac!AfterWrite(r, u, pc, h)
  PROVE  /\ Becomes(r, h)
         /\ \A q \in Reqs \ {r} : accReq[q].pc = pc /\ accReq[q].uid = u => accReq'[q].stale
<1>1. \A q \in Reqs : [accReq[q] EXCEPT !.stale = TRUE] \in Ac!Request
  BY DEF Ac!Request
<1>2. accReq' \in [Reqs -> Ac!Request] /\ accReq'[r] = h
  BY <1>1 DEF Ac!AfterWrite
<1>3. ASSUME NEW q \in Reqs \ {r}
      PROVE  /\ SameBut(accReq'[q], accReq[q])
             /\ accReq[q].pc = pc /\ accReq[q].uid = u => accReq'[q].stale
  <2>1. CASE accReq[q].pc = pc /\ accReq[q].uid = u
    BY <2>1 DEF Ac!AfterWrite, SameBut, Ac!Request
  <2>2. CASE ~(accReq[q].pc = pc /\ accReq[q].uid = u)
    BY <2>2 DEF Ac!AfterWrite, SameBut
  <2> QED
    BY <2>1, <2>2
<1> QED
  BY <1>2, <1>3 DEF Becomes

LEMMA BecomesType ==
  ASSUME AccountInv, NEW r \in Reqs, NEW h, Becomes(r, h), RequestOK(h),
         h.pc = "writeMerchant" => h.uid \in Merchants,
         userRows' \in [Users -> Ac!User], merchants' \in [Merchants -> Ac!Merchant],
         gitea' \in [Merchants -> Passwords \cup {None}],
         copy' \in [Sessions -> [user: Ac!User, merchant: Ac!Merchant]],
         used' \subseteq Addresses \cup Passwords, accCalls' \in Nat,
         again' \subseteq Addresses, unsure' \subseteq Merchants
  PROVE  AccountInv'
<1>1. \A q \in Reqs : RequestOK(accReq[q])'
  BY DEF AccountInv, Becomes, SameBut, RequestOK
<1>2. \A q \in Reqs : accReq'[q].pc = "writeMerchant" => accReq'[q].uid \in Merchants
  BY DEF AccountInv, Ac!TypeOK, Becomes, SameBut
<1>3. accReq' \in [Reqs -> Ac!Request]
  BY DEF Becomes
<1> QED
  BY <1>1, <1>2, <1>3 DEF AccountInv, Ac!TypeOK

LEMMA StartType ==
  ASSUME NEW s \in Sessions, NEW op \in Ac!Ops, NEW pc \in Ac!Pcs, NEW u \in Users,
         NEW arg \in Ac!Args
  PROVE  Ac!Start(s, op, pc, u, arg) \in Ac!Request
  BY DEF Ac!Start, Ac!Request, Ac!NewUser, Ac!NewMerchant, Ac!User, Ac!Merchant, Ac!States

LEMMA NoRequest ==
  ASSUME Ac!ConstantsAssumption
  PROVE  /\ Ac!Idle \in Ac!Request /\ Ac!Idle.op = "none" /\ Ac!Idle.pc = "idle"
         /\ Ac!Idle.user.recipients = <<>> /\ Ac!Idle.stale = FALSE /\ RequestOK(Ac!Idle)
<1> DEFINE z == CHOOSE s \in Sessions : TRUE
           v == CHOOSE u \in Users : TRUE
<1>1. z \in Sessions /\ v \in Users
  BY DEF Ac!ConstantsAssumption
<1>a. Ac!Idle = Ac!Start(z, "none", "idle", v, None)
  BY DEF Ac!Idle
<1> HIDE DEF z, v
<1>b. "none" \in Ac!Ops /\ "idle" \in Ac!Pcs /\ None \in Ac!Args
  BY DEF Ac!Ops, Ac!Pcs, Ac!Args
<1>2. /\ Ac!Idle \in Ac!Request /\ Ac!Idle.op = "none" /\ Ac!Idle.pc = "idle"
      /\ Ac!Idle.user.recipients = <<>> /\ Ac!Idle.stale = FALSE
  <2>1. Ac!Start(z, "none", "idle", v, None) \in Ac!Request
    BY <1>1, <1>b, StartType
  <2>2. /\ Ac!Idle.op = "none" /\ Ac!Idle.pc = "idle"
        /\ Ac!Idle.user.recipients = <<>> /\ Ac!Idle.stale = FALSE
    BY <1>a DEF Ac!Start, Ac!NewUser
  <2> QED
    BY <1>a, <2>1, <2>2
<1> QED
  BY <1>2 DEF RequestOK

\* What a call does: slot r takes the new request h. An address or a password
\* was not used before; a reset that overlaps another one is noted.
Takes(r, h) ==
  /\ accReq[r].pc = "idle" /\ Becomes(r, h) /\ RequestOK(h)
  /\ h.pc \in {"gitea", "loadUser", "loadMerchant"}
  /\ h.user.recipients = <<>>
  /\ UNCHANGED <<userRows, merchants, gitea, copy, again>> /\ accCalls' = accCalls + 1
  /\ \/ /\ h.op = "reset" /\ h.pc = "gitea" /\ used' = used \cup {h.arg}
        /\ unsure' = IF \E q \in Reqs : accReq[q].op = "reset" /\ accReq[q].uid = h.uid
                     THEN unsure \cup {h.uid} ELSE unsure
     \/ /\ h.op = "add" /\ h.arg \in Addresses \ used /\ used' = used \cup {h.arg}
        /\ UNCHANGED unsure
     \/ h.op \notin {"reset", "add"} /\ UNCHANGED <<used, unsure>>

LEMMA ArriveTakes ==
  ASSUME AccountInv, NEW r \in Reqs, NEW s \in Sessions, NEW op \in Ac!Ops, NEW pc \in Ac!Pcs,
         NEW u \in Users, NEW arg \in Ac!Args, Ac!Arrive(r, s, op, pc, u, arg),
         pc \in {"gitea", "loadUser", "loadMerchant"},
         LET h == Ac!Start(s, op, pc, u, arg) IN
         /\ RequestOK(h)
         /\ \/ /\ h.op = "reset" /\ h.pc = "gitea" /\ used' = used \cup {h.arg}
               /\ unsure' = IF \E q \in Reqs : accReq[q].op = "reset" /\ accReq[q].uid = h.uid
                            THEN unsure \cup {h.uid} ELSE unsure
            \/ /\ h.op = "add" /\ h.arg \in Addresses \ used /\ used' = used \cup {h.arg}
               /\ UNCHANGED unsure
            \/ h.op \notin {"reset", "add"} /\ UNCHANGED <<used, unsure>>
  PROVE  \E h \in Ac!Request : Takes(r, h)
<1> DEFINE h == Ac!Start(s, op, pc, u, arg)
<1>1. h \in Ac!Request /\ h.pc = pc /\ h.user.recipients = <<>>
  <2>1. h \in Ac!Request
    BY StartType
  <2>2. h.pc = pc /\ h.user.recipients = <<>>
    BY DEF Ac!Start, Ac!NewUser
  <2> QED
    BY <2>1, <2>2
<1>2. accReq \in [Reqs -> Ac!Request] /\ accReq' = [accReq EXCEPT ![r] = h]
  BY DEF AccountInv, Ac!TypeOK, Ac!Arrive
<1> HIDE DEF h
<1>3. Becomes(r, h)
  BY <1>1, <1>2, ExceptBecomes
<1>4. accReq[r].pc = "idle" /\ UNCHANGED <<userRows, merchants, gitea, copy, again>> /\ accCalls' = accCalls + 1
  BY DEF Ac!Arrive
<1>5. Takes(r, h)
  BY <1>1, <1>3, <1>4 DEF Takes, h
<1> QED
  BY <1>1, <1>5

LEMMA CallTakes ==
  ASSUME Ac!ConstantsAssumption, AccountInv, NEW r \in Reqs, NEW s \in Sessions,
         \/ \E u \in Users : Ac!Ban(r, s, u) \/ Ac!Administer(r, s, u)
         \/ Ac!Rename(r, s) \/ Ac!Erase(r, s)
         \/ \E p \in Passwords : Ac!Reset(r, s, p)
         \/ \E a \in Addresses : Ac!Add(r, s, a)
  PROVE  \E h \in Ac!Request : Takes(r, h)
<1>0. Owner[s] \in Users /\ Merchants \subseteq Users
  BY DEF Ac!ConstantsAssumption
<1>1. ASSUME NEW op, NEW pc, NEW u, NEW arg
      PROVE  LET q == Ac!Start(s, op, pc, u, arg) IN
             q.op = op /\ q.pc = pc /\ q.uid = u /\ q.arg = arg
  BY DEF Ac!Start
<1>2. ASSUME NEW u \in Users, Ac!Ban(r, s, u) PROVE \E h \in Ac!Request : Takes(r, h)
  <2>1. RequestOK(Ac!Start(s, "ban", "loadUser", u, None))
    BY <1>1 DEF RequestOK
  <2> QED
    BY <1>1, <1>2, <2>1, ArriveTakes DEF Ac!Ban, Ac!Ops, Ac!Pcs, Ac!Args
<1>3. ASSUME NEW u \in Users, Ac!Administer(r, s, u) PROVE \E h \in Ac!Request : Takes(r, h)
  <2>0. UNCHANGED <<used, unsure>>
    BY <1>3 DEF Ac!Administer
  <2>1. ASSUME NEW op \in {"disable", "enable"}, Ac!Arrive(r, s, op, "loadMerchant", u, None)
        PROVE  \E h \in Ac!Request : Takes(r, h)
    <3>1. RequestOK(Ac!Start(s, op, "loadMerchant", u, None))
      BY <1>1 DEF RequestOK
    <3>2. op \in Ac!Ops /\ "loadMerchant" \in Ac!Pcs /\ None \in Ac!Args
      BY DEF Ac!Ops, Ac!Pcs, Ac!Args
    <3> QED
      BY <1>1, <2>0, <2>1, <3>1, <3>2, ArriveTakes
  <2>2. ASSUME NEW n \in Names, Ac!Arrive(r, s, "mchid", "loadMerchant", u, n)
        PROVE  \E h \in Ac!Request : Takes(r, h)
    <3>1. RequestOK(Ac!Start(s, "mchid", "loadMerchant", u, n))
      BY <1>1 DEF RequestOK
    <3> QED
      BY <1>1, <2>0, <2>2, <3>1, ArriveTakes DEF Ac!Ops, Ac!Pcs, Ac!Args
  <2> QED
    BY <1>3, <2>1, <2>2 DEF Ac!Administer
<1>4. CASE Ac!Rename(r, s)
  <2>1. PICK n \in Names : Ac!Arrive(r, s, "rename", "loadMerchant", Owner[s], n)
    BY <1>4 DEF Ac!Rename
  <2>2. RequestOK(Ac!Start(s, "rename", "loadMerchant", Owner[s], n))
    BY <1>1 DEF RequestOK
  <2>3. "rename" \in Ac!Ops /\ "loadMerchant" \in Ac!Pcs /\ n \in Ac!Args /\ UNCHANGED <<used, unsure>>
    BY <1>4 DEF Ac!Ops, Ac!Pcs, Ac!Args, Ac!Rename
  <2> QED
    BY <1>0, <1>1, <2>1, <2>2, <2>3, ArriveTakes
<1>5. CASE Ac!Erase(r, s)
  <2>1. PICK i \in 1..Len(copy[s].user.recipients) :
          Ac!Arrive(r, s, "erase", "loadUser", Owner[s], i - 1)
    BY <1>5 DEF Ac!Erase
  <2>2. i - 1 \in Nat
    OBVIOUS
  <2>3. RequestOK(Ac!Start(s, "erase", "loadUser", Owner[s], i - 1))
    BY <1>1, <2>2 DEF RequestOK
  <2>4. "erase" \in Ac!Ops /\ "loadUser" \in Ac!Pcs /\ i - 1 \in Ac!Args /\ UNCHANGED <<used, unsure>>
    BY <1>5, <2>2 DEF Ac!Ops, Ac!Pcs, Ac!Args, Ac!Erase
  <2> QED
    BY <1>0, <1>1, <2>1, <2>3, <2>4, ArriveTakes
<1>6. ASSUME NEW p \in Passwords, Ac!Reset(r, s, p) PROVE \E h \in Ac!Request : Takes(r, h)
  <2>1. RequestOK(Ac!Start(s, "reset", "gitea", Owner[s], p))
    BY <1>1, <1>6 DEF RequestOK, Ac!Reset
  <2>2. "reset" \in Ac!Ops /\ "gitea" \in Ac!Pcs /\ p \in Ac!Args
    BY DEF Ac!Ops, Ac!Pcs, Ac!Args
  <2>3. /\ Ac!Arrive(r, s, "reset", "gitea", Owner[s], p) /\ used' = used \cup {p}
        /\ unsure' = IF \E q \in Reqs : accReq[q].op = "reset" /\ accReq[q].uid = Owner[s]
                     THEN unsure \cup {Owner[s]} ELSE unsure
    BY <1>6 DEF Ac!Reset
  <2>4. LET h == Ac!Start(s, "reset", "gitea", Owner[s], p) IN
        /\ h.op = "reset" /\ h.pc = "gitea" /\ used' = used \cup {h.arg}
        /\ unsure' = IF \E q \in Reqs : accReq[q].op = "reset" /\ accReq[q].uid = h.uid
                     THEN unsure \cup {h.uid} ELSE unsure
    BY <2>3 DEF Ac!Start
  <2>5. Owner[s] \in Users /\ Ac!Arrive(r, s, "reset", "gitea", Owner[s], p)
    BY <1>0, <1>1, <2>3
  <2> HIDE <1>6
  <2> QED
    BY <2>1, <2>2, <2>4, <2>5, ArriveTakes
<1>7. ASSUME NEW a \in Addresses, Ac!Add(r, s, a) PROVE \E h \in Ac!Request : Takes(r, h)
  <2>1. RequestOK(Ac!Start(s, "add", "loadUser", Owner[s], a))
    BY <1>1, <1>7 DEF RequestOK
  <2>2. "add" \in Ac!Ops /\ "loadUser" \in Ac!Pcs /\ a \in Ac!Args
    BY DEF Ac!Ops, Ac!Pcs, Ac!Args
  <2> QED
    BY <1>0, <1>1, <1>7, <2>1, <2>2, ArriveTakes DEF Ac!Add
<1> QED
  BY <1>2, <1>3, <1>4, <1>5, <1>6, <1>7

LEMMA TakesType ==
  ASSUME Ac!ConstantsAssumption, AccountInv, NEW r \in Reqs, NEW h \in Ac!Request, Takes(r, h)
  PROVE  AccountInv'
<1>1. used' \subseteq Addresses \cup Passwords /\ unsure' \subseteq Merchants
  BY DEF Takes, RequestOK, AccountInv, Ac!TypeOK
<1>2. accCalls' \in Nat /\ h.pc # "writeMerchant"
  BY DEF Takes, AccountInv, Ac!TypeOK
<1> QED
  BY <1>1, <1>2, BecomesType DEF Takes, AccountInv, Ac!TypeOK

-----------------------------------------------------------------------------
(* What the steps of a handler do *)

\* The parts of the state
LEMMA Parts ==
  ASSUME AccountInv, NEW r \in Reqs
  PROVE  /\ accReq \in [Reqs -> Ac!Request] /\ accReq[r] \in Ac!Request /\ RequestOK(accReq[r])
         /\ accReq[r].uid \in Users /\ accReq[r].s \in Sessions /\ userRows[accReq[r].uid] \in Ac!User
         /\ accReq[r].pc = "writeMerchant" \/ accReq[r].op = "reset" => accReq[r].uid \in Merchants
  BY DEF AccountInv, Ac!TypeOK, Ac!Request, RequestOK

\* A handler ends.
LEMMA FinishBecomes ==
  ASSUME Ac!ConstantsAssumption, AccountInv, NEW r \in Reqs, Ac!Finish(r)
  PROVE  Becomes(r, Ac!Idle)
  BY Parts, NoRequest, ExceptBecomes DEF Ac!Finish

LEMMA ReloadType ==
  ASSUME Ac!ConstantsAssumption, AccountInv, NEW s \in Sessions, Ac!Reload(s)
  PROVE  AccountInv'
<1>1. /\ copy[s] \in [user: Ac!User, merchant: Ac!Merchant] /\ userRows[Owner[s]] \in Ac!User
      /\ Owner[s] \in Merchants => merchants[Owner[s]] \in Ac!Merchant
  BY DEF Ac!ConstantsAssumption, AccountInv, Ac!TypeOK
<1>2. copy' \in [Sessions -> [user: Ac!User, merchant: Ac!Merchant]]
  BY <1>1 DEF Ac!Reload, AccountInv, Ac!TypeOK
<1> QED
  BY <1>2 DEF Ac!Reload, AccountInv, Ac!TypeOK, RequestOK

LEMMA ChangePasswordFacts ==
  ASSUME Ac!ConstantsAssumption, AccountInv, NEW r \in Reqs, Ac!ChangePassword(r)
  PROVE  /\ AccountInv' /\ accReq[r].pc = "gitea" /\ accReq[r].op = "reset"
         /\ UNCHANGED <<userRows, merchants, used, accCalls, again>>
         /\ \/ /\ Becomes(r, [accReq[r] EXCEPT !.pc = "loadMerchant"])
               /\ gitea' = [gitea EXCEPT ![accReq[r].uid] = accReq[r].arg] /\ UNCHANGED unsure
            \/ /\ Becomes(r, Ac!Idle) /\ gitea' = [gitea EXCEPT ![accReq[r].uid] = accReq[r].arg]
               /\ unsure' = unsure \cup {accReq[r].uid}
            \/ Becomes(r, Ac!Idle) /\ UNCHANGED <<gitea, unsure>>
<1> DEFINE q == accReq[r]
           h == [q EXCEPT !.pc = "loadMerchant"]
<1>1. /\ q \in Ac!Request /\ RequestOK(q) /\ q.pc = "gitea" /\ q.op = "reset" /\ q.s \in Sessions
      /\ q.arg \in Passwords /\ q.uid \in Merchants /\ accReq \in [Reqs -> Ac!Request]
  BY Parts DEF Ac!ChangePassword, RequestOK
<1>2. UNCHANGED <<userRows, merchants, used, accCalls, again>>
  BY DEF Ac!ChangePassword
<1>3. gitea' = [gitea EXCEPT ![q.uid] = q.arg] => gitea' \in [Merchants -> Passwords \cup {None}]
  BY <1>1 DEF AccountInv, Ac!TypeOK
<1>4. h \in Ac!Request /\ RequestOK(h) /\ h.pc = "loadMerchant"
  BY <1>1 DEF Ac!Request, RequestOK, Ac!Pcs
<1>5. Ac!Idle.pc = "idle" /\ RequestOK(Ac!Idle)
  BY NoRequest
<1>6. CASE /\ gitea' = [gitea EXCEPT ![q.uid] = q.arg]
           /\ copy' = [copy EXCEPT ![q.s].merchant.pw = q.arg]
           /\ accReq' = [accReq EXCEPT ![r].pc = "loadMerchant"] /\ UNCHANGED unsure
  <2>1. accReq' = [accReq EXCEPT ![r] = h]
    BY <1>1, <1>6
  <2>2. Becomes(r, h)
    BY <1>1, <1>4, <2>1, ExceptBecomes
  <2>3. copy' \in [Sessions -> [user: Ac!User, merchant: Ac!Merchant]]
    <3>1. copy[q.s] \in [user: Ac!User, merchant: Ac!Merchant]
      BY <1>1 DEF AccountInv, Ac!TypeOK
    <3>2. [copy[q.s] EXCEPT !.merchant.pw = q.arg] \in [user: Ac!User, merchant: Ac!Merchant]
      BY <1>1, <3>1 DEF Ac!Merchant
    <3>3. copy' = [copy EXCEPT ![q.s] = [copy[q.s] EXCEPT !.merchant.pw = q.arg]]
      BY <1>1, <1>6 DEF AccountInv, Ac!TypeOK
    <3> QED
      BY <3>2, <3>3 DEF AccountInv, Ac!TypeOK
  <2>4. AccountInv'
    BY <1>2, <1>3, <1>4, <1>6, <2>2, <2>3, BecomesType DEF AccountInv, Ac!TypeOK
  <2> QED
    BY <1>1, <1>2, <1>6, <2>2, <2>4
<1>7. CASE /\ gitea' = [gitea EXCEPT ![q.uid] = q.arg]
           /\ unsure' = unsure \cup {q.uid} /\ Ac!Finish(r) /\ UNCHANGED copy
  <2>1. Becomes(r, Ac!Idle)
    BY <1>7, FinishBecomes
  <2>2. AccountInv'
    BY <1>1, <1>2, <1>3, <1>5, <1>7, <2>1, BecomesType DEF AccountInv, Ac!TypeOK
  <2> QED
    BY <1>1, <1>2, <1>7, <2>1, <2>2
<1>8. CASE Ac!Finish(r) /\ UNCHANGED <<gitea, copy, unsure>>
  <2>1. Becomes(r, Ac!Idle)
    BY <1>8, FinishBecomes
  <2>2. AccountInv'
    BY <1>2, <1>5, <1>8, <2>1, BecomesType DEF AccountInv, Ac!TypeOK
  <2> QED
    BY <1>1, <1>2, <1>8, <2>1, <2>2
<1> QED
  BY <1>6, <1>7, <1>8 DEF Ac!ChangePassword

LEMMA LoadUserFacts ==
  ASSUME AccountInv, NEW r \in Reqs, Ac!LoadUser(r)
  PROVE  LET h == [accReq[r] EXCEPT !.pc = "writeUser", !.user = userRows[accReq[r].uid],
                                 !.stale = FALSE]
         IN  /\ AccountInv' /\ Becomes(r, h) /\ h \in Ac!Request /\ accReq[r].pc = "loadUser"
             /\ UNCHANGED <<userRows, merchants, gitea, used, accCalls, again, unsure>>
<1> DEFINE h == [accReq[r] EXCEPT !.pc = "writeUser", !.user = userRows[accReq[r].uid],
                               !.stale = FALSE]
<1>1. accReq[r].pc = "loadUser" /\ accReq' = [accReq EXCEPT ![r] = h]
  BY DEF Ac!LoadUser
<1>2. h \in Ac!Request /\ h.s \in Sessions
  BY Parts DEF Ac!Request, Ac!Pcs
<1>3. RequestOK(h) /\ h.pc = "writeUser"
  BY <1>1, Parts DEF RequestOK, Ac!Request
<1>4. copy' \in [Sessions -> [user: Ac!User, merchant: Ac!Merchant]]
  <2>1. Ac!ChangeUser(h) \in Ac!User
    BY <1>2, <1>3, ChangeUserType
  <2>2. copy' = copy \/ copy' = [copy EXCEPT ![h.s].user = Ac!ChangeUser(h)]
    BY DEF Ac!LoadUser
  <2> HIDE DEF h
  <2>3. copy[h.s] \in [user: Ac!User, merchant: Ac!Merchant]
    BY <1>2 DEF AccountInv, Ac!TypeOK
  <2> QED
    BY <1>2, <2>1, <2>2, <2>3 DEF AccountInv, Ac!TypeOK
<1>5. UNCHANGED <<userRows, merchants, gitea, used, accCalls, again, unsure>>
  BY DEF Ac!LoadUser
<1> HIDE DEF h
<1>6. Becomes(r, h)
  BY <1>1, <1>2, Parts, ExceptBecomes
<1>7. AccountInv'
  BY <1>3, <1>4, <1>5, <1>6, BecomesType DEF AccountInv, Ac!TypeOK
<1> QED
  BY <1>1, <1>2, <1>5, <1>6, <1>7 DEF h

\* A handler that does its write again is as it was, but for its place.
LEMMA RepeatFacts ==
  ASSUME NEW q \in Ac!Request, NEW pc \in Ac!Pcs
  PROVE  LET h == Ac!Repeat(q, pc) IN
         /\ h \in Ac!Request /\ h.op = q.op /\ h.arg = q.arg /\ h.uid = q.uid
         /\ h.user = q.user /\ h.merchant = q.merchant /\ h.pc = pc /\ h # q
<1> DEFINE n == q.repeats + 1
           h == [q EXCEPT !.pc = pc, !.repeats = n]
<1>1. n \in Nat /\ n # q.repeats
  BY DEF Ac!Request
<1>2. Ac!Repeat(q, pc) = h
  BY DEF Ac!Repeat
<1> HIDE DEF n
<1>3. h \in Ac!Request
  BY <1>1 DEF Ac!Request
<1>4. /\ h.op = q.op /\ h.arg = q.arg /\ h.uid = q.uid
      /\ h.user = q.user /\ h.merchant = q.merchant /\ h.pc = pc /\ h.repeats = n
  BY DEF Ac!Request
<1> HIDE DEF h
<1> QED
  BY <1>1, <1>2, <1>3, <1>4

\* Every copy of row u that others mean to write at pc is stale.
StaleAll(r, pc, u) ==
  \A q \in Reqs \ {r} : accReq[q].pc = pc /\ accReq[q].uid = u => accReq'[q].stale

\* What the write of a user does: the handler does it again, goes on with the
\* merchant, or ends.
WritesUser(r, h) ==
  LET q == accReq[r] IN
  /\ q.pc = "writeUser" /\ Becomes(r, h) /\ StaleAll(r, "writeUser", q.uid)
  /\ userRows' = [userRows EXCEPT ![q.uid] = Ac!ChangeUser(q)]
  /\ UNCHANGED <<merchants, gitea, used, accCalls, unsure>>
  /\ \/ /\ h.op = q.op /\ h.arg = q.arg /\ h.uid = q.uid /\ h.user = q.user
        /\ h.pc = "loadUser"
        /\ again' = IF q.op = "add" THEN again \cup {q.arg} ELSE again
     \/ /\ q.op = "ban" /\ h.op = "ban" /\ h.user = q.user /\ h.pc = "loadMerchant"
        /\ UNCHANGED again
     \/ h = Ac!Idle /\ UNCHANGED again

LEMMA WriteUserFacts ==
  ASSUME Ac!ConstantsAssumption, AccountInv, NEW r \in Reqs, Ac!WriteUser(r)
  PROVE  AccountInv' /\ \E h \in Ac!Request : WritesUser(r, h)
<1> DEFINE q == accReq[r]
<1>1. /\ q.pc = "writeUser" /\ q \in Ac!Request /\ RequestOK(q) /\ q.uid \in Users
      /\ accReq \in [Reqs -> Ac!Request] /\ q.repeats \in Nat
  BY Parts DEF Ac!WriteUser, Ac!Request
<1>2. /\ userRows' = [userRows EXCEPT ![q.uid] = Ac!ChangeUser(q)]
      /\ UNCHANGED <<merchants, gitea, copy, used, accCalls, unsure>>
  BY DEF Ac!WriteUser
<1>3. userRows' \in [Users -> Ac!User]
  BY <1>1, <1>2, ChangeUserType DEF AccountInv, Ac!TypeOK
<1>4. ASSUME NEW h \in Ac!Request, RequestOK(h), h.pc # "writeMerchant",
             Ac!AfterWrite(r, q.uid, "writeUser", h),
             again' = again \/ (q.op = "add" /\ again' = again \cup {q.arg})
      PROVE  AccountInv' /\ Becomes(r, h) /\ StaleAll(r, "writeUser", q.uid)
  <2>1. Becomes(r, h) /\ StaleAll(r, "writeUser", q.uid)
    BY <1>1, <1>4, AfterWriteBecomes DEF StaleAll
  <2>2. again' \subseteq Addresses
    BY <1>1, <1>4 DEF RequestOK, AccountInv, Ac!TypeOK
  <2> QED
    BY <1>2, <1>3, <1>4, <2>1, <2>2, BecomesType DEF AccountInv, Ac!TypeOK
<1>5. CASE /\ Ac!AfterWrite(r, q.uid, "writeUser", Ac!Repeat(q, "loadUser"))
           /\ again' = IF q.op = "add" THEN again \cup {q.arg} ELSE again
  <2> DEFINE h == Ac!Repeat(q, "loadUser")
  <2>1. /\ h \in Ac!Request /\ h.op = q.op /\ h.arg = q.arg /\ h.uid = q.uid
        /\ h.user = q.user /\ h.pc = "loadUser"
    BY <1>1, RepeatFacts DEF Ac!Pcs
  <2> HIDE DEF h
  <2>2. RequestOK(h)
    BY <1>1, <2>1 DEF RequestOK
  <2>3. AccountInv' /\ Becomes(r, h) /\ StaleAll(r, "writeUser", q.uid)
    BY <1>4, <1>5, <2>1, <2>2 DEF h
  <2> QED
    BY <1>1, <1>2, <1>5, <2>1, <2>3 DEF WritesUser
<1>6. CASE /\ Ac!AfterWrite(r, q.uid, "writeUser",
                         IF q.op = "ban" THEN [q EXCEPT !.pc = "loadMerchant"] ELSE Ac!Idle)
           /\ UNCHANGED again
  <2>1. CASE q.op = "ban"
    <3> DEFINE h == [q EXCEPT !.pc = "loadMerchant"]
    <3>1. /\ h \in Ac!Request /\ h.op = q.op /\ h.user = q.user /\ h.pc = "loadMerchant"
      BY <1>1 DEF Ac!Request, Ac!Pcs
    <3>2. Ac!AfterWrite(r, q.uid, "writeUser", h)
      BY <1>6, <2>1
    <3> HIDE DEF h
    <3>3. RequestOK(h)
      BY <1>1, <2>1, <3>1 DEF RequestOK
    <3>4. AccountInv' /\ Becomes(r, h) /\ StaleAll(r, "writeUser", q.uid)
      BY <1>4, <1>6, <3>1, <3>2, <3>3
    <3> QED
      BY <1>1, <1>2, <1>6, <2>1, <3>1, <3>4 DEF WritesUser
  <2>2. CASE q.op # "ban"
    <3>1. Ac!Idle \in Ac!Request /\ RequestOK(Ac!Idle) /\ Ac!Idle.pc = "idle"
      BY NoRequest
    <3>2. AccountInv' /\ Becomes(r, Ac!Idle) /\ StaleAll(r, "writeUser", q.uid)
      BY <1>4, <1>6, <2>2, <3>1
    <3> QED
      BY <1>1, <1>2, <1>6, <3>1, <3>2 DEF WritesUser
  <2> QED
    BY <2>1, <2>2
<1> QED
  BY <1>5, <1>6 DEF Ac!WriteUser

LEMMA LoadMerchantFacts ==
  ASSUME Ac!ConstantsAssumption, AccountInv, NEW r \in Reqs, Ac!LoadMerchant(r)
  PROVE  LET q == accReq[r] IN
         /\ AccountInv' /\ q.pc = "loadMerchant"
         /\ UNCHANGED <<userRows, merchants, gitea, used, accCalls, again, unsure>>
         /\ IF q.uid \in Merchants
            THEN \E h \in Ac!Request :
                   /\ Becomes(r, h) /\ h.pc = "writeMerchant" /\ h.op = q.op
                   /\ h.arg = q.arg /\ h.uid = q.uid /\ h.user = q.user
                   /\ h.merchant = merchants[q.uid]
            ELSE Becomes(r, Ac!Idle)
<1> DEFINE q == accReq[r]
           h == [q EXCEPT !.pc = "writeMerchant", !.merchant = merchants[q.uid],
                          !.stale = FALSE]
<1>1. /\ q.pc = "loadMerchant" /\ q \in Ac!Request /\ RequestOK(q)
      /\ accReq \in [Reqs -> Ac!Request]
  BY Parts DEF Ac!LoadMerchant
<1>2. UNCHANGED <<userRows, merchants, gitea, copy, used, accCalls, again, unsure>>
  BY DEF Ac!LoadMerchant
<1>3. CASE q.uid \in Merchants
  <2>1. merchants[q.uid] \in Ac!Merchant
    BY <1>3 DEF AccountInv, Ac!TypeOK
  <2>2. /\ h \in Ac!Request /\ h.pc = "writeMerchant" /\ h.op = q.op
        /\ h.arg = q.arg /\ h.uid = q.uid /\ h.user = q.user
        /\ h.merchant = merchants[q.uid]
    BY <1>1, <2>1 DEF Ac!Request, Ac!Pcs
  <2>3. accReq' = [accReq EXCEPT ![r] = h]
    BY <1>3 DEF Ac!LoadMerchant
  <2> HIDE DEF h
  <2>4. Becomes(r, h) /\ RequestOK(h)
    BY <1>1, <2>2, <2>3, ExceptBecomes DEF RequestOK
  <2>5. AccountInv'
    BY <1>2, <1>3, <2>2, <2>4, BecomesType DEF AccountInv, Ac!TypeOK
  <2> QED
    BY <1>1, <1>2, <1>3, <2>2, <2>4, <2>5
<1>4. CASE q.uid \notin Merchants
  <2>1. Ac!Idle \in Ac!Request /\ RequestOK(Ac!Idle) /\ Ac!Idle.pc = "idle" /\ accReq' = [accReq EXCEPT ![r] = Ac!Idle]
    BY <1>4, NoRequest DEF Ac!LoadMerchant
  <2>2. Becomes(r, Ac!Idle)
    BY <1>1, <2>1, ExceptBecomes
  <2>3. AccountInv'
    BY <1>2, <2>1, <2>2, BecomesType DEF AccountInv, Ac!TypeOK
  <2> QED
    BY <1>1, <1>2, <1>4, <2>2, <2>3
<1> QED
  BY <1>3, <1>4

\* What the write of a merchant does: the handler does it again, loads again,
\* or ends.
WritesMerchant(r, h) ==
  LET q == accReq[r] IN
  /\ q.pc = "writeMerchant" /\ q.uid \in Merchants
  /\ Becomes(r, h) /\ h # q /\ StaleAll(r, "writeMerchant", q.uid)
  /\ merchants' = [merchants EXCEPT ![q.uid] = Ac!ChangeMerchant(q)]
  /\ unsure' = IF q.stale /\ Ac!ChangeMerchant(q).pw # merchants[q.uid].pw
               THEN unsure \cup {q.uid} ELSE unsure
  /\ UNCHANGED <<userRows, gitea, used, accCalls, again>>
  /\ \/ /\ h.op = q.op /\ h.arg = q.arg /\ h.uid = q.uid /\ h.user = q.user
        /\ h.merchant = q.merchant
        /\ h.pc = IF q.op = "mchid" THEN "writeMerchant" ELSE "loadMerchant"
     \/ h = Ac!Idle

LEMMA WriteMerchantFacts ==
  ASSUME Ac!ConstantsAssumption, AccountInv, NEW r \in Reqs, Ac!WriteMerchant(r)
  PROVE  AccountInv' /\ \E h \in Ac!Request : WritesMerchant(r, h)
<1> DEFINE q == accReq[r]
<1>1. /\ q.pc = "writeMerchant" /\ q \in Ac!Request /\ RequestOK(q) /\ q.uid \in Merchants
      /\ accReq \in [Reqs -> Ac!Request] /\ q.repeats \in Nat /\ q.s \in Sessions
  BY Parts DEF Ac!WriteMerchant, Ac!Request
<1>2. /\ merchants' = [merchants EXCEPT ![q.uid] = Ac!ChangeMerchant(q)]
      /\ unsure' = IF q.stale /\ Ac!ChangeMerchant(q).pw # merchants[q.uid].pw
                   THEN unsure \cup {q.uid} ELSE unsure
      /\ UNCHANGED <<userRows, gitea, used, accCalls, again>>
  BY DEF Ac!WriteMerchant
<1>3. merchants' \in [Merchants -> Ac!Merchant] /\ unsure' \subseteq Merchants
  BY <1>1, <1>2, ChangeMerchantType DEF AccountInv, Ac!TypeOK
<1>4. copy' \in [Sessions -> [user: Ac!User, merchant: Ac!Merchant]]
  <2>1. CASE q.op = "rename" /\ copy' = [copy EXCEPT ![q.s].merchant.name = q.arg]
    <3>1. copy[q.s] \in [user: Ac!User, merchant: Ac!Merchant] /\ q.arg \in Names
      BY <1>1, <2>1 DEF AccountInv, Ac!TypeOK, RequestOK
    <3>2. [copy[q.s] EXCEPT !.merchant.name = q.arg] \in [user: Ac!User, merchant: Ac!Merchant]
      BY <3>1 DEF Ac!Merchant
    <3>3. copy' = [copy EXCEPT ![q.s] = [copy[q.s] EXCEPT !.merchant.name = q.arg]]
      BY <1>1, <2>1 DEF AccountInv, Ac!TypeOK
    <3> QED
      BY <3>2, <3>3 DEF AccountInv, Ac!TypeOK
  <2>2. CASE UNCHANGED copy
    BY <2>2 DEF AccountInv, Ac!TypeOK
  <2> QED
    BY <2>1, <2>2 DEF Ac!WriteMerchant
<1>5. ASSUME NEW h \in Ac!Request, RequestOK(h), h.pc = "writeMerchant" => h.uid \in Merchants,
             Ac!AfterWrite(r, q.uid, "writeMerchant", h)
      PROVE  AccountInv' /\ Becomes(r, h) /\ StaleAll(r, "writeMerchant", q.uid)
  <2>1. Becomes(r, h) /\ StaleAll(r, "writeMerchant", q.uid)
    BY <1>1, <1>5, AfterWriteBecomes DEF StaleAll
  <2> QED
    BY <1>2, <1>3, <1>4, <1>5, <2>1, BecomesType DEF AccountInv, Ac!TypeOK
<1>6. CASE Ac!AfterWrite(r, q.uid, "writeMerchant",
             Ac!Repeat(q, IF q.op = "mchid" THEN "writeMerchant" ELSE "loadMerchant"))
  <2> DEFINE pc == IF q.op = "mchid" THEN "writeMerchant" ELSE "loadMerchant"
             h == Ac!Repeat(q, pc)
  <2>1. /\ h \in Ac!Request /\ h.op = q.op /\ h.arg = q.arg /\ h.uid = q.uid
        /\ h.user = q.user /\ h.merchant = q.merchant /\ h.pc = pc /\ h # q
    <3>1. pc \in Ac!Pcs
      BY DEF Ac!Pcs
    <3> HIDE DEF pc
    <3> QED
      BY <1>1, <3>1, RepeatFacts
  <2>2. Ac!AfterWrite(r, q.uid, "writeMerchant", h)
    BY <1>6
  <2> HIDE DEF h
  <2>3. RequestOK(h)
    BY <1>1, <2>1 DEF RequestOK
  <2>4. AccountInv' /\ Becomes(r, h) /\ StaleAll(r, "writeMerchant", q.uid)
    BY <1>1, <1>5, <2>1, <2>2, <2>3
  <2> QED
    BY <1>1, <1>2, <2>1, <2>3, <2>4 DEF WritesMerchant
<1>7. CASE Ac!AfterWrite(r, q.uid, "writeMerchant", Ac!Idle)
  <2>1. Ac!Idle \in Ac!Request /\ RequestOK(Ac!Idle) /\ Ac!Idle.pc = "idle"
    BY NoRequest
  <2>2. AccountInv' /\ Becomes(r, Ac!Idle) /\ StaleAll(r, "writeMerchant", q.uid)
    BY <1>5, <1>7, <2>1
  <2>3. Ac!Idle # q
    BY <1>1, <2>1
  <2> QED
    BY <1>1, <1>2, <2>1, <2>2, <2>3 DEF WritesMerchant
<1> QED
  BY <1>6, <1>7 DEF Ac!WriteMerchant

LEMMA ThrowsFacts ==
  ASSUME Ac!ConstantsAssumption, AccountInv, NEW r \in Reqs, Ac!Throws(r)
  PROVE  /\ AccountInv' /\ Becomes(r, Ac!Idle)
         /\ unsure' = IF accReq[r].op = "reset" THEN unsure \cup {accReq[r].uid} ELSE unsure
         /\ UNCHANGED <<userRows, merchants, gitea, used, accCalls, again>>
<1>1. Becomes(r, Ac!Idle) /\ RequestOK(Ac!Idle) /\ Ac!Idle.pc = "idle"
  BY FinishBecomes, NoRequest DEF Ac!Throws
<1>2. unsure' \subseteq Merchants
  BY Parts DEF Ac!Throws, AccountInv, Ac!TypeOK
<1>3. AccountInv'
  BY <1>1, <1>2, BecomesType DEF Ac!Throws, AccountInv, Ac!TypeOK
<1> QED
  BY <1>1, <1>3 DEF Ac!Throws

-----------------------------------------------------------------------------
(* Passwords and bans *)

\* The copies of the others are the rows still, or they are stale.
LEMMA CurrentStays ==
  ASSUME NEW r \in Reqs, NEW h, Becomes(r, h), NEW q \in Reqs \ {r}, Current(accReq[q]),
         accReq[q].pc = "writeUser" =>
           accReq'[q].stale \/ userRows'[accReq[q].uid] = userRows[accReq[q].uid],
         accReq[q].pc = "writeMerchant" =>
           accReq'[q].stale \/ merchants'[accReq[q].uid] = merchants[accReq[q].uid]
  PROVE  Current(accReq[q])'
<1>1. SameBut(accReq'[q], accReq[q])
  BY DEF Becomes
<1>2. Ac!ChangeMerchant(accReq'[q]) = Ac!ChangeMerchant(accReq[q]) \/ accReq[q].op # "mchid"
  BY <1>1 DEF SameBut, Ac!ChangeMerchant
<1> QED
  BY <1>1, <1>2 DEF Current, SameBut

\* A merchant keeps PasswordOK if r is no reset of his, before and after.
LEMMA PasswordStays ==
  ASSUME NEW r \in Reqs, NEW h, Becomes(r, h), NEW u \in Merchants, PasswordOK(u),
         ~(accReq[r].op = "reset" /\ accReq[r].uid = u), ~(h.op = "reset" /\ h.uid = u),
         unsure \subseteq unsure', gitea'[u] = gitea[u],
         u \in unsure' \/ merchants'[u].pw = merchants[u].pw
  PROVE  PasswordOK(u)'
<1> SUFFICES ASSUME u \notin unsure' PROVE PasswordOK(u)'
  BY DEF PasswordOK
<1>1. accReq'[r] = h /\ \A q \in Reqs \ {r} : SameBut(accReq'[q], accReq[q])
  BY DEF Becomes
<1>2. \A q \in Reqs : /\ Answered(accReq'[q], u) <=> Answered(accReq[q], u)
                      /\ Answered(accReq[q], u) => accReq'[q].arg = accReq[q].arg
                      /\ (accReq'[q].op = "reset" /\ accReq'[q].uid = u <=>
                            accReq[q].op = "reset" /\ accReq[q].uid = u)
  BY <1>1 DEF SameBut, Answered
<1> QED
  BY <1>2 DEF PasswordOK, Answered

\* A reset goes on after gitea has answered it.
LEMMA PasswordGoesOn ==
  ASSUME NEW r \in Reqs, NEW h, Becomes(r, h), NEW u \in Merchants, PasswordOK(u),
         accReq[r].op = "reset", accReq[r].uid = u, Answered(h, u), h.arg = accReq[r].arg,
         unsure \subseteq unsure', gitea'[u] = h.arg
  PROVE  PasswordOK(u)'
<1> SUFFICES ASSUME u \notin unsure' PROVE PasswordOK(u)'
  BY DEF PasswordOK
<1>1. accReq'[r] = h /\ \A q \in Reqs \ {r} : SameBut(accReq'[q], accReq[q])
  BY DEF Becomes
<1>2. \A q \in Reqs : accReq'[q].op = "reset" /\ accReq'[q].uid = u <=>
                      accReq[q].op = "reset" /\ accReq[q].uid = u
  BY <1>1 DEF SameBut, Answered
<1>3. \A q, p \in Reqs : /\ accReq'[q].op = "reset" /\ accReq'[q].uid = u
                         /\ accReq'[p].op = "reset" /\ accReq'[p].uid = u
                         => q = p
  BY <1>2 DEF PasswordOK
<1>4. \A q \in Reqs : Answered(accReq'[q], u) => q = r
  BY <1>2, <1>3 DEF Answered
<1> QED
  BY <1>1, <1>3, <1>4 DEF PasswordOK, Answered

\* A reset ends, and the passwords agree, or it is not known.
LEMMA PasswordEnds ==
  ASSUME NEW r \in Reqs, NEW h, Becomes(r, h), NEW u \in Merchants, PasswordOK(u),
         accReq[r].op = "reset", accReq[r].uid = u, h.op # "reset",
         unsure \subseteq unsure', u \in unsure' \/ merchants'[u].pw = gitea'[u]
  PROVE  PasswordOK(u)'
<1> SUFFICES ASSUME u \notin unsure' PROVE PasswordOK(u)'
  BY DEF PasswordOK
<1>1. accReq'[r] = h /\ \A q \in Reqs \ {r} : SameBut(accReq'[q], accReq[q])
  BY DEF Becomes
<1>2. ASSUME NEW q \in Reqs PROVE ~(accReq'[q].op = "reset" /\ accReq'[q].uid = u)
  BY <1>1 DEF SameBut, PasswordOK
<1> QED
  BY <1>2 DEF PasswordOK, Answered

LEMMA TakesKeeps ==
  ASSUME Ac!ConstantsAssumption, RowsInv, NEW r \in Reqs, NEW h \in Ac!Request, Takes(r, h)
  PROVE  RowsInv'
<1>1. AccountInv'
  BY TakesType DEF RowsInv
<1>2. /\ Becomes(r, h) /\ UNCHANGED <<userRows, merchants, gitea>> /\ accReq[r].op # "reset"
      /\ unsure \subseteq unsure' /\ h.pc \in {"gitea", "loadUser", "loadMerchant"}
  BY DEF Takes, RowsInv, AccountInv, RequestOK
<1>3. ASSUME NEW q \in Reqs PROVE Current(accReq[q])'
  <2>1. CASE q = r
    BY <1>2, <2>1 DEF Current, Becomes
  <2>2. CASE q # r
    BY <1>2, <2>2, CurrentStays DEF RowsInv
  <2> QED
    BY <2>1, <2>2
<1>4. ASSUME NEW u \in Merchants PROVE PasswordOK(u)'
  <2>0. PasswordOK(u)
    BY DEF RowsInv
  <2>1. CASE ~(h.op = "reset" /\ h.uid = u)
    BY <1>2, <2>0, <2>1, PasswordStays
  <2>2. CASE h.op = "reset" /\ h.uid = u
    <3> SUFFICES ASSUME u \notin unsure' PROVE PasswordOK(u)'
      BY DEF PasswordOK
    <3>1. h.pc = "gitea" /\ \A q \in Reqs : ~(accReq[q].op = "reset" /\ accReq[q].uid = u)
      BY <2>2 DEF Takes
    <3>2. accReq'[r] = h /\ \A q \in Reqs \ {r} : SameBut(accReq'[q], accReq[q])
      BY <1>2 DEF Becomes
    <3>3. /\ \A q \in Reqs \ {r} : ~(accReq'[q].op = "reset" /\ accReq'[q].uid = u)
          /\ ~Answered(accReq'[r], u)
      BY <3>1, <3>2 DEF SameBut, Answered
    <3>4. merchants[u].pw = gitea[u]
      BY <1>2, <2>0, <3>1 DEF PasswordOK, Answered
    <3> QED
      BY <1>2, <3>3, <3>4 DEF PasswordOK, Answered
  <2> QED
    BY <2>1, <2>2
<1> QED
  BY <1>1, <1>3, <1>4 DEF RowsInv

LEMMA ChangePasswordKeeps ==
  ASSUME Ac!ConstantsAssumption, RowsInv, NEW r \in Reqs, Ac!ChangePassword(r)
  PROVE  RowsInv'
<1> DEFINE q == accReq[r]
           h == [q EXCEPT !.pc = "loadMerchant"]
<1>0. AccountInv
  BY DEF RowsInv
<1>1. /\ AccountInv' /\ q.pc = "gitea" /\ q.op = "reset" /\ UNCHANGED <<userRows, merchants>>
      /\ q \in Ac!Request /\ q.uid \in Merchants /\ gitea \in [Merchants -> Passwords \cup {None}]
  BY <1>0, ChangePasswordFacts, Parts DEF AccountInv, Ac!TypeOK
<1>2. /\ h.pc = "loadMerchant" /\ h.op = q.op /\ h.uid = q.uid /\ h.arg = q.arg
  BY <1>1 DEF Ac!Request
<1>3. Ac!Idle.op = "none" /\ Ac!Idle.pc = "idle"
  BY NoRequest
<1> HIDE DEF h
<1>4. \/ Becomes(r, h) /\ gitea' = [gitea EXCEPT ![q.uid] = q.arg] /\ UNCHANGED unsure
      \/ /\ Becomes(r, Ac!Idle) /\ gitea' = [gitea EXCEPT ![q.uid] = q.arg]
         /\ unsure' = unsure \cup {q.uid}
      \/ Becomes(r, Ac!Idle) /\ UNCHANGED <<gitea, unsure>>
  BY <1>0, ChangePasswordFacts DEF h
<1>5. PICK k \in {h, Ac!Idle} :
        /\ Becomes(r, k) /\ unsure \subseteq unsure'
        /\ \A u \in Merchants \ {q.uid} : gitea'[u] = gitea[u]
        /\ \/ k = h /\ gitea'[q.uid] = q.arg
           \/ k = Ac!Idle /\ (q.uid \in unsure' \/ UNCHANGED gitea)
  BY <1>1, <1>4
<1>6. ASSUME NEW p \in Reqs PROVE Current(accReq[p])'
  <2>1. CASE p = r
    BY <1>2, <1>3, <1>5, <2>1 DEF Current, Becomes
  <2>2. CASE p # r
    BY <1>1, <1>5, <2>2, CurrentStays DEF RowsInv
  <2> QED
    BY <2>1, <2>2
<1>7. ASSUME NEW u \in Merchants PROVE PasswordOK(u)'
  <2>0. PasswordOK(u)
    BY DEF RowsInv
  <2>1. CASE u # q.uid
    <3>1. ~(k.op = "reset" /\ k.uid = u) /\ ~(q.op = "reset" /\ q.uid = u)
      BY <1>2, <1>3, <1>5, <2>1
    <3> QED
      BY <1>1, <1>5, <2>0, <2>1, <3>1, PasswordStays
  <2>2. CASE u = q.uid /\ k = h /\ gitea'[q.uid] = q.arg
    <3>1. Answered(h, u)
      BY <1>1, <1>2, <2>2 DEF Answered
    <3> QED
      BY <1>1, <1>2, <1>5, <2>0, <2>2, <3>1, PasswordGoesOn
  <2>3. CASE u = q.uid /\ k = Ac!Idle /\ (q.uid \in unsure' \/ UNCHANGED gitea)
    <3>1. u \in unsure' \/ merchants'[u].pw = gitea'[u]
      <4> SUFFICES ASSUME u \notin unsure' PROVE merchants[u].pw = gitea[u]
        BY <1>1, <2>3
      <4>1. u \notin unsure
        BY <1>5
      <4>2. ASSUME NEW p \in Reqs PROVE ~Answered(accReq[p], u)
        BY <1>1, <2>0, <2>3, <4>1 DEF PasswordOK, Answered
      <4> QED
        BY <2>0, <4>1, <4>2 DEF PasswordOK
    <3> QED
      BY <1>1, <1>3, <1>5, <2>0, <2>3, <3>1, PasswordEnds
  <2> QED
    BY <1>5, <2>1, <2>2, <2>3
<1> QED
  BY <1>1, <1>6, <1>7 DEF RowsInv

LEMMA LoadUserKeeps ==
  ASSUME Ac!ConstantsAssumption, RowsInv, NEW r \in Reqs, Ac!LoadUser(r)
  PROVE  RowsInv'
<1> DEFINE q == accReq[r]
           h == [q EXCEPT !.pc = "writeUser", !.user = userRows[q.uid], !.stale = FALSE]
<1>0. AccountInv
  BY DEF RowsInv
<1>1. /\ AccountInv' /\ Becomes(r, h) /\ h \in Ac!Request /\ q.pc = "loadUser" /\ q.op # "reset"
      /\ q \in Ac!Request /\ UNCHANGED <<userRows, merchants, gitea, used, accCalls, again, unsure>>
  BY <1>0, LoadUserFacts, Parts DEF RequestOK
<1>2. h.pc = "writeUser" /\ h.op = q.op /\ h.uid = q.uid /\ h.user = userRows[q.uid]
  BY <1>1 DEF Ac!Request
<1> HIDE DEF h
<1>3. ASSUME NEW p \in Reqs PROVE Current(accReq[p])'
  <2>1. CASE p = r
    BY <1>1, <1>2, <2>1 DEF Current, Becomes
  <2>2. CASE p # r
    BY <1>1, <2>2, CurrentStays DEF RowsInv
  <2> QED
    BY <2>1, <2>2
<1>4. ASSUME NEW u \in Merchants PROVE PasswordOK(u)'
  BY <1>1, <1>2, PasswordStays DEF RowsInv
<1> QED
  BY <1>1, <1>3, <1>4 DEF RowsInv

LEMMA WriteUserKeeps ==
  ASSUME Ac!ConstantsAssumption, RowsInv, NEW r \in Reqs, NEW h \in Ac!Request,
         AccountInv', WritesUser(r, h)
  PROVE  RowsInv'
<1> DEFINE q == accReq[r]
<1>0. AccountInv
  BY DEF RowsInv
<1>1. /\ Becomes(r, h) /\ q.pc = "writeUser" /\ q.op # "reset" /\ q.uid \in Users
      /\ StaleAll(r, "writeUser", q.uid) /\ UNCHANGED <<merchants, gitea, unsure>>
      /\ userRows' = [userRows EXCEPT ![q.uid] = Ac!ChangeUser(q)]
  BY <1>0, Parts DEF RequestOK, WritesUser
<1>2. h.pc # "writeUser" /\ h.pc # "writeMerchant" /\ h.op # "reset"
  BY <1>1, NoRequest DEF WritesUser
<1>3. ASSUME NEW p \in Reqs PROVE Current(accReq[p])'
  <2>1. CASE p = r
    BY <1>1, <1>2, <2>1 DEF Current, Becomes
  <2>2. CASE p # r
    <3>1. accReq[p].uid \in Users /\ userRows \in [Users -> Ac!User]
      BY <1>0, Parts DEF AccountInv, Ac!TypeOK
    <3>2. accReq[p].pc = "writeUser" =>
            accReq'[p].stale \/ userRows'[accReq[p].uid] = userRows[accReq[p].uid]
      BY <1>1, <2>2, <3>1 DEF StaleAll
    <3> QED
      BY <1>1, <2>2, <3>2, CurrentStays DEF RowsInv
  <2> QED
    BY <2>1, <2>2
<1>4. ASSUME NEW u \in Merchants PROVE PasswordOK(u)'
  BY <1>1, <1>2, PasswordStays DEF RowsInv
<1> QED
  BY <1>3, <1>4 DEF RowsInv

LEMMA LoadMerchantKeeps ==
  ASSUME Ac!ConstantsAssumption, RowsInv, NEW r \in Reqs, Ac!LoadMerchant(r)
  PROVE  RowsInv'
<1> DEFINE q == accReq[r]
<1>0. AccountInv
  BY DEF RowsInv
<1>1. /\ AccountInv' /\ q.pc = "loadMerchant" /\ (q.op = "reset" => q.uid \in Merchants)
      /\ UNCHANGED <<userRows, merchants, gitea, unsure>>
      /\ \/ /\ q.uid \in Merchants
            /\ \E h \in Ac!Request :
                 /\ Becomes(r, h) /\ h.pc = "writeMerchant" /\ h.op = q.op
                 /\ h.arg = q.arg /\ h.uid = q.uid /\ h.merchant = merchants[q.uid]
         \/ q.op # "reset" /\ Becomes(r, Ac!Idle)
  BY <1>0, LoadMerchantFacts, Parts
<1>2. ASSUME NEW p \in Reqs, NEW h, p # r, Becomes(r, h) PROVE Current(accReq[p])'
  BY <1>1, <1>2, CurrentStays DEF RowsInv
<1>3. CASE q.op # "reset" /\ Becomes(r, Ac!Idle)
  <2>1. Ac!Idle.pc = "idle" /\ Ac!Idle.op = "none"
    BY NoRequest
  <2>2. ASSUME NEW p \in Reqs PROVE Current(accReq[p])'
    <3>1. CASE p = r
      BY <1>3, <2>1, <3>1 DEF Current, Becomes
    <3> QED
      BY <1>2, <1>3, <3>1
  <2>3. ASSUME NEW u \in Merchants PROVE PasswordOK(u)'
    BY <1>1, <1>3, <2>1, PasswordStays DEF RowsInv
  <2> QED
    BY <1>1, <2>2, <2>3 DEF RowsInv
<1>4. ASSUME NEW h \in Ac!Request, q.uid \in Merchants, Becomes(r, h),
             h.pc = "writeMerchant", h.op = q.op, h.arg = q.arg, h.uid = q.uid,
             h.merchant = merchants[q.uid]
      PROVE  RowsInv'
  <2>2. ASSUME NEW p \in Reqs PROVE Current(accReq[p])'
    <3>1. CASE p = r
      BY <1>1, <1>4, <3>1 DEF Current, Becomes
    <3> QED
      BY <1>2, <1>4, <3>1
  <2>3. ASSUME NEW u \in Merchants PROVE PasswordOK(u)'
    <3>0. PasswordOK(u)
      BY DEF RowsInv
    <3>1. CASE ~(q.op = "reset" /\ q.uid = u)
      BY <1>1, <1>4, <3>0, <3>1, PasswordStays
    <3>2. CASE q.op = "reset" /\ q.uid = u
      <4> SUFFICES ASSUME u \notin unsure' PROVE PasswordOK(u)'
        BY DEF PasswordOK
      <4>1. Answered(q, u) /\ Answered(h, u)
        BY <1>1, <1>4, <3>2 DEF Answered
      <4>2. gitea'[u] = h.arg
        BY <1>1, <1>4, <3>0, <4>1 DEF PasswordOK
      <4> QED
        BY <1>1, <1>4, <3>0, <3>2, <4>1, <4>2, PasswordGoesOn
    <3> QED
      BY <3>1, <3>2
  <2> QED
    BY <1>1, <2>2, <2>3 DEF RowsInv
<1> QED
  BY <1>1, <1>3, <1>4

\* A write of a merchant from a copy that is not stale keeps the password,
\* but for a reset.
LEMMA WriteKeepsPassword ==
  ASSUME RowsInv, NEW r \in Reqs, accReq[r].pc = "writeMerchant", ~accReq[r].stale
  PROVE  LET q == accReq[r]
             new == Ac!ChangeMerchant(q)
         IN  /\ q.op # "reset" => new.pw = merchants[q.uid].pw
             /\ q.op \in {"mchid", "rename", "reset"} =>
                  new.state = merchants[q.uid].state
             /\ q.op = "ban" => new.state = "banned"
<1> DEFINE q == accReq[r]
<1>1. q \in Ac!Request /\ RequestOK(q) /\ Current(q)
  BY Parts DEF RowsInv
<1>2. /\ q.op # "reset" => Ac!ChangeMerchant(q).pw = q.merchant.pw
      /\ q.op \in {"mchid", "rename", "reset"} => Ac!ChangeMerchant(q).state = q.merchant.state
      /\ q.op = "ban" => Ac!ChangeMerchant(q).state = "banned"
  BY <1>1, ChangeMerchantType
<1>3. q.merchant = merchants[q.uid] \/ (q.op = "mchid" /\ Ac!ChangeMerchant(q) = merchants[q.uid])
  BY <1>1 DEF Current
<1> QED
  BY <1>2, <1>3

LEMMA WriteMerchantKeeps ==
  ASSUME Ac!ConstantsAssumption, RowsInv, NEW r \in Reqs, NEW h \in Ac!Request,
         AccountInv', WritesMerchant(r, h)
  PROVE  RowsInv'
<1> DEFINE q == accReq[r]
           new == Ac!ChangeMerchant(q)
<1>0. AccountInv
  BY DEF RowsInv
<1>1. /\ Becomes(r, h) /\ q.pc = "writeMerchant" /\ q.uid \in Merchants
      /\ StaleAll(r, "writeMerchant", q.uid) /\ UNCHANGED <<userRows, gitea>>
      /\ merchants' = [merchants EXCEPT ![q.uid] = new]
      /\ unsure' = IF q.stale /\ new.pw # merchants[q.uid].pw
                   THEN unsure \cup {q.uid} ELSE unsure
      /\ merchants \in [Merchants -> Ac!Merchant] /\ q \in Ac!Request /\ RequestOK(q)
  BY <1>0, Parts DEF WritesMerchant, AccountInv, Ac!TypeOK
<1>2. \/ /\ h.op = q.op /\ h.arg = q.arg /\ h.uid = q.uid /\ h.merchant = q.merchant
         /\ h.pc = IF q.op = "mchid" THEN "writeMerchant" ELSE "loadMerchant"
      \/ h.op = "none" /\ h.pc = "idle"
  BY NoRequest DEF WritesMerchant
<1>3. /\ q.op = "reset" => new.pw = q.arg
      /\ q.op # "reset" /\ ~q.stale => new.pw = merchants[q.uid].pw
  BY <1>1, ChangeMerchantType, WriteKeepsPassword
<1>4. /\ h.pc = "writeMerchant" => Ac!ChangeMerchant(h) = new /\ h.op = "mchid"
  BY <1>2 DEF Ac!ChangeMerchant
<1> HIDE DEF new
<1>5. ASSUME NEW p \in Reqs PROVE Current(accReq[p])'
  <2>1. CASE p = r
    <3>1. accReq'[r] = h
      BY <1>1 DEF Becomes
    <3>2. h.pc = "writeMerchant" => merchants'[h.uid] = Ac!ChangeMerchant(h)
      BY <1>1, <1>2, <1>4
    <3>3. h.pc # "writeUser"
      BY <1>2
    <3> QED
      BY <1>4, <2>1, <3>1, <3>2, <3>3 DEF Current
  <2>2. CASE p # r
    <3>1. accReq[p].pc = "writeMerchant" => accReq[p].uid \in Merchants
      BY <1>0, Parts
    <3>2. accReq[p].pc = "writeMerchant" =>
            accReq'[p].stale \/ merchants'[accReq[p].uid] = merchants[accReq[p].uid]
      BY <1>1, <2>2, <3>1 DEF StaleAll
    <3> QED
      BY <1>1, <2>2, <3>2, CurrentStays DEF RowsInv
  <2> QED
    BY <2>1, <2>2
<1>6. ASSUME NEW u \in Merchants PROVE PasswordOK(u)'
  <2>0. PasswordOK(u) /\ unsure \subseteq unsure'
    BY <1>1 DEF RowsInv
  <2>1. CASE ~(q.op = "reset" /\ q.uid = u)
    <3>1. u \in unsure' \/ merchants'[u].pw = merchants[u].pw
      BY <1>1, <1>3, <2>1
    <3>2. ~(h.op = "reset" /\ h.uid = u)
      BY <1>2, <2>1
    <3> QED
      BY <1>1, <2>0, <2>1, <3>1, <3>2, PasswordStays
  <2>2. CASE q.op = "reset" /\ q.uid = u
    <3> SUFFICES ASSUME u \notin unsure' PROVE PasswordOK(u)'
      BY DEF PasswordOK
    <3>1. u \notin unsure /\ Answered(q, u)
      BY <1>1, <2>0, <2>2 DEF Answered
    <3>2. gitea[u] = q.arg
      BY <2>0, <3>1 DEF PasswordOK
    <3>3. merchants'[u].pw = gitea'[u]
      BY <1>1, <1>3, <2>2, <3>2
    <3>4. CASE h.op = q.op /\ h.arg = q.arg /\ h.uid = q.uid /\ h.pc = "loadMerchant"
      <4>1. Answered(h, u) /\ gitea'[u] = h.arg
        BY <1>1, <2>2, <3>2, <3>4 DEF Answered
      <4> QED
        BY <1>1, <2>0, <2>2, <3>4, <4>1, PasswordGoesOn
    <3>5. CASE h.op = "none"
      BY <1>1, <2>0, <2>2, <3>3, <3>5, PasswordEnds
    <3> QED
      BY <1>2, <2>2, <3>4, <3>5
  <2> QED
    BY <2>1, <2>2
<1> QED
  BY <1>5, <1>6 DEF RowsInv

LEMMA ThrowsKeeps ==
  ASSUME Ac!ConstantsAssumption, RowsInv, NEW r \in Reqs, Ac!Throws(r)
  PROVE  RowsInv'
<1>0. AccountInv
  BY DEF RowsInv
<1>1. /\ AccountInv' /\ Becomes(r, Ac!Idle)
      /\ unsure' = IF accReq[r].op = "reset" THEN unsure \cup {accReq[r].uid} ELSE unsure
      /\ UNCHANGED <<userRows, merchants, gitea>>
  BY <1>0, ThrowsFacts
<1>2. Ac!Idle.pc = "idle" /\ Ac!Idle.op = "none"
  BY NoRequest
<1>3. ASSUME NEW p \in Reqs PROVE Current(accReq[p])'
  <2>1. CASE p = r
    BY <1>1, <1>2, <2>1 DEF Current, Becomes
  <2>2. CASE p # r
    BY <1>1, <2>2, CurrentStays DEF RowsInv
  <2> QED
    BY <2>1, <2>2
<1>4. ASSUME NEW u \in Merchants PROVE PasswordOK(u)'
  <2>0. PasswordOK(u) /\ unsure \subseteq unsure'
    BY <1>1 DEF RowsInv
  <2>1. CASE accReq[r].op = "reset" /\ accReq[r].uid = u
    BY <1>1, <2>1 DEF PasswordOK
  <2>2. CASE ~(accReq[r].op = "reset" /\ accReq[r].uid = u)
    BY <1>1, <1>2, <2>0, <2>2, PasswordStays
  <2> QED
    BY <2>1, <2>2
<1> QED
  BY <1>1, <1>3, <1>4 DEF RowsInv

LEMMA SameKeeps ==
  ASSUME RowsInv, AccountInv', UNCHANGED <<userRows, merchants, gitea, accReq, unsure>>
  PROVE  RowsInv'
<1>1. ASSUME NEW r \in Reqs PROVE Current(accReq[r])'
  BY DEF RowsInv, Current
<1>2. ASSUME NEW u \in Merchants PROVE PasswordOK(u)'
  BY DEF RowsInv, PasswordOK
<1> QED
  BY <1>1, <1>2 DEF RowsInv

\* The steps of the specification, by what they do
Steps ==
  \/ \E r \in Reqs : \E h \in Ac!Request : Takes(r, h)
  \/ \E s \in Sessions : Ac!Reload(s)
  \/ \E r \in Reqs : Ac!ChangePassword(r) \/ Ac!LoadUser(r) \/ Ac!LoadMerchant(r) \/ Ac!Throws(r)
  \/ \E r \in Reqs : \E h \in Ac!Request : WritesUser(r, h) \/ WritesMerchant(r, h)
  \/ UNCHANGED Ac!vars

LEMMA NextIsSteps ==
  ASSUME Ac!ConstantsAssumption, AccountInv, [Ac!Next]_(Ac!vars)
  PROVE  AccountInv' /\ Steps
<1>1. ASSUME NEW r \in Reqs, NEW s \in Sessions,
             \/ \E u \in Users : Ac!Ban(r, s, u) \/ Ac!Administer(r, s, u)
             \/ Ac!Rename(r, s) \/ Ac!Erase(r, s)
             \/ \E p \in Passwords : Ac!Reset(r, s, p)
             \/ \E a \in Addresses : Ac!Add(r, s, a)
      PROVE  AccountInv' /\ Steps
  <2>1. PICK h \in Ac!Request : Takes(r, h)
    BY <1>1, CallTakes
  <2> QED
    BY <2>1, TakesType DEF Steps
<1>2. ASSUME NEW s \in Sessions, Ac!Reload(s) PROVE AccountInv' /\ Steps
  BY <1>2, ReloadType DEF Steps
<1>3. ASSUME NEW r \in Reqs, Ac!Step(r) PROVE AccountInv' /\ Steps
  <2>1. CASE Ac!ChangePassword(r)
    BY <2>1, ChangePasswordFacts DEF Steps
  <2>2. CASE Ac!LoadUser(r)
    BY <2>2, LoadUserFacts DEF Steps
  <2>3. CASE Ac!WriteUser(r)
    BY <2>3, WriteUserFacts DEF Steps
  <2>4. CASE Ac!LoadMerchant(r)
    BY <2>4, LoadMerchantFacts DEF Steps
  <2>5. CASE Ac!WriteMerchant(r)
    BY <2>5, WriteMerchantFacts DEF Steps
  <2>6. CASE Ac!Throws(r)
    BY <2>6, ThrowsFacts DEF Steps
  <2> QED
    BY <1>3, <2>1, <2>2, <2>3, <2>4, <2>5, <2>6 DEF Ac!Step
<1>4. CASE UNCHANGED Ac!vars
  <2>1. AccountInv'
    BY <1>4 DEF AccountInv, Ac!TypeOK, RequestOK, Ac!vars
  <2> QED
    BY <1>4, <2>1 DEF Steps
<1> QED
  BY <1>1, <1>2, <1>3, <1>4 DEF Ac!Next

LEMMA RowsStep ==
  ASSUME Ac!ConstantsAssumption, RowsInv, [Ac!Next]_(Ac!vars)
  PROVE  RowsInv'
<1>1. AccountInv' /\ Steps
  BY NextIsSteps DEF RowsInv
<1>2. ASSUME NEW s \in Sessions, Ac!Reload(s) PROVE RowsInv'
  BY <1>1, <1>2, SameKeeps DEF Ac!Reload
<1>3. CASE UNCHANGED Ac!vars
  BY <1>1, <1>3, SameKeeps DEF Ac!vars
<1> QED
  BY <1>1, <1>2, <1>3, TakesKeeps, ChangePasswordKeeps, LoadUserKeeps, LoadMerchantKeeps,
     ThrowsKeeps, WriteUserKeeps, WriteMerchantKeeps
  DEF Steps

LEMMA RowsInit ==
  ASSUME Ac!ConstantsAssumption, Ac!Init
  PROVE  RowsInv
<1>1. /\ Ac!Idle \in Ac!Request /\ Ac!Idle.op = "none" /\ Ac!Idle.pc = "idle" /\ RequestOK(Ac!Idle)
      /\ \A r \in Reqs : accReq[r] = Ac!Idle
  BY NoRequest DEF Ac!Init
<1>2. Ac!NewUser \in Ac!User /\ Ac!NewMerchant \in Ac!Merchant /\ Ac!NewMerchant.pw = None
  BY DEF Ac!NewUser, Ac!NewMerchant, Ac!User, Ac!Merchant, Ac!States
<1>3. Ac!TypeOK
  BY <1>1, <1>2 DEF Ac!Init, Ac!TypeOK
<1>4. \A r \in Reqs : RequestOK(accReq[r]) /\ Current(accReq[r])
  BY <1>1 DEF Current
<1>5. \A u \in Merchants : PasswordOK(u)
  BY <1>1, <1>2 DEF Ac!Init, PasswordOK, Answered
<1> QED
  BY <1>3, <1>4, <1>5 DEF RowsInv, AccountInv

LEMMA RowsInvariant == Ac!ConstantsAssumption /\ Ac!Spec => []RowsInv
<1> SUFFICES ASSUME Ac!ConstantsAssumption PROVE Ac!Spec => []RowsInv
  OBVIOUS
<1>1. Ac!Init => RowsInv
  BY RowsInit
<1>2. RowsInv /\ [Ac!Next]_(Ac!vars) => RowsInv'
  BY RowsStep
<1> QED
  BY <1>1, <1>2, PTL DEF Ac!Spec

\* The rows of users and merchants, the passwords at gitea, the copies of the
\* sessions and the handlers always have their types.
THEOREM AccountTypes == Ac!Spec => []Ac!TypeOK
<1> USE UsersAssumption
<1>1. Ac!Spec => []RowsInv
  BY RowsInvariant
<1>2. RowsInv => Ac!TypeOK
  BY DEF RowsInv, AccountInv
<1> QED
  BY <1>1, <1>2, PTL

\* The password merchant_reset_gitea_password has stored opens the account at
\* gitea whenever no reset is under way, unless a step of a reset has failed,
\* two resets have overlapped or the row was written from an older copy.
THEOREM PasswordsAgree == Ac!Spec => []PasswordAgrees
<1> USE UsersAssumption
<1>1. Ac!Spec => []RowsInv
  BY RowsInvariant
<1>2. RowsInv => PasswordAgrees
  BY DEF RowsInv, PasswordOK, Answered, PasswordAgrees, Ac!PasswordAgrees
<1> QED
  BY <1>1, <1>2, PTL

\* What the updater of a user leaves of a ban
LEMMA ChangeUserBan ==
  ASSUME NEW q \in Ac!Request, RequestOK(q), q.user.banned
  PROVE  Ac!ChangeUser(q).banned
<1>1. q.user \in Ac!User
  BY DEF Ac!Request
<1>2. q.op = "ban" => Ac!ChangeUser(q).banned
  BY <1>1 DEF Ac!ChangeUser, Ac!User
<1>3. q.op = "add" => Ac!ChangeUser(q).banned = q.user.banned
  BY <1>1 DEF Ac!ChangeUser, Ac!User
<1>4. q.op = "erase" /\ q.arg < Len(q.user.recipients) =>
        Ac!ChangeUser(q).banned = q.user.banned
  BY <1>1 DEF Ac!ChangeUser, Ac!User
<1>5. q.op \notin {"ban", "add"} /\ ~(q.op = "erase" /\ q.arg < Len(q.user.recipients)) =>
        Ac!ChangeUser(q) = q.user
  BY DEF Ac!ChangeUser
<1> QED
  BY <1>2, <1>3, <1>4, <1>5

LEMMA BanStep ==
  ASSUME Ac!ConstantsAssumption, RowsInv, [Ac!Next]_(Ac!vars)
  PROVE  Ac!Unbans
<1>0. AccountInv /\ Steps
  BY NextIsSteps DEF RowsInv
<1>1. CASE UNCHANGED <<userRows, merchants>>
  BY <1>1 DEF Ac!Unbans
<1>2. ASSUME NEW r \in Reqs, NEW h \in Ac!Request, WritesUser(r, h) PROVE Ac!Unbans
  <2> DEFINE q == accReq[r]
  <2>1. /\ q \in Ac!Request /\ RequestOK(q) /\ q.uid \in Users /\ Current(q)
        /\ userRows \in [Users -> Ac!User]
    BY <1>0, Parts DEF RowsInv, AccountInv, Ac!TypeOK
  <2>2. /\ q.pc = "writeUser" /\ userRows' = [userRows EXCEPT ![q.uid] = Ac!ChangeUser(q)]
        /\ UNCHANGED merchants /\ accReq'[r] = h /\ h.pc # "writeUser"
    BY <1>2, NoRequest DEF WritesUser, Becomes
  <2>3. ASSUME NEW u \in Users, userRows[u].banned
        PROVE  userRows'[u].banned \/ Ac!StaleWrite("writeUser", u)
    <3>1. CASE u # q.uid
      BY <2>1, <2>2, <2>3, <3>1
    <3>2. CASE u = q.uid /\ q.stale
      BY <2>2, <3>2 DEF Ac!StaleWrite
    <3>3. CASE u = q.uid /\ ~q.stale
      <4>1. Ac!ChangeUser(q).banned
        BY <2>1, <2>2, <2>3, <3>3, ChangeUserBan DEF Current
      <4> QED
        BY <2>1, <2>2, <3>3, <4>1
    <3> QED
      BY <3>1, <3>2, <3>3
  <2> QED
    BY <2>2, <2>3 DEF Ac!Unbans
<1>3. ASSUME NEW r \in Reqs, NEW h \in Ac!Request, WritesMerchant(r, h) PROVE Ac!Unbans
  <2> DEFINE q == accReq[r]
  <2>1. /\ q \in Ac!Request /\ RequestOK(q) /\ q.uid \in Merchants
        /\ merchants \in [Merchants -> Ac!Merchant] /\ q.pc = "writeMerchant"
    BY <1>0, <1>3, Parts DEF AccountInv, Ac!TypeOK, WritesMerchant
  <2>2. /\ merchants' = [merchants EXCEPT ![q.uid] = Ac!ChangeMerchant(q)]
        /\ UNCHANGED userRows /\ accReq'[r] = h /\ h # q
    BY <1>3 DEF WritesMerchant, Becomes
  <2>3. ASSUME NEW u \in Merchants, merchants[u].state = "banned"
        PROVE  \/ merchants'[u].state = "banned" \/ Ac!StaleWrite("writeMerchant", u)
               \/ \E p \in Reqs : /\ accReq[p].op \in {"disable", "enable"}
                                  /\ accReq[p].uid = u /\ accReq'[p] # accReq[p]
    <3>1. CASE u # q.uid
      BY <2>1, <2>2, <2>3, <3>1
    <3>2. CASE u = q.uid /\ q.stale
      BY <2>1, <2>2, <3>2 DEF Ac!StaleWrite
    <3>3. CASE u = q.uid /\ q.op \in {"disable", "enable"}
      BY <2>2, <3>3
    <3>4. CASE u = q.uid /\ ~q.stale /\ q.op \notin {"disable", "enable"}
      <4>1. Ac!ChangeMerchant(q).state = "banned"
        BY <2>1, <2>3, <3>4, WriteKeepsPassword DEF RequestOK
      <4> QED
        BY <2>1, <2>2, <3>4, <4>1
    <3> QED
      BY <3>1, <3>2, <3>3, <3>4
  <2> QED
    BY <2>2, <2>3 DEF Ac!Unbans
<1>4. \/ UNCHANGED <<userRows, merchants>>
      \/ \E r \in Reqs : \E h \in Ac!Request : WritesUser(r, h) \/ WritesMerchant(r, h)
  <2>1. \A r \in Reqs, h \in Ac!Request : Takes(r, h) => UNCHANGED <<userRows, merchants>>
    BY DEF Takes
  <2>2. \A s \in Sessions : Ac!Reload(s) => UNCHANGED <<userRows, merchants>>
    BY DEF Ac!Reload
  <2>3. \A r \in Reqs : Ac!ChangePassword(r) \/ Ac!LoadUser(r) \/ Ac!LoadMerchant(r) \/ Ac!Throws(r) =>
                          UNCHANGED <<userRows, merchants>>
    BY DEF Ac!ChangePassword, Ac!LoadUser, Ac!LoadMerchant, Ac!Throws
  <2>4. UNCHANGED Ac!vars => UNCHANGED <<userRows, merchants>>
    BY DEF Ac!vars
  <2> QED
    BY <1>0, <2>1, <2>2, <2>3, <2>4 DEF Steps
<1> QED
  BY <1>1, <1>2, <1>3, <1>4

\* A ban (admin_user_ban) is undone only by an administrator who enables or
\* disables the merchant, or by the write of a whole row from a copy older
\* than the ban.
THEOREM BansAreKept == Ac!Spec => BansStick
<1> USE UsersAssumption
<1>1. Ac!Spec => []RowsInv
  BY RowsInvariant
<1>2. RowsInv /\ [Ac!Next]_(Ac!vars) => [Ac!Unbans]_(Ac!vars)
  BY BanStep
<1> QED
  BY <1>1, <1>2, PTL DEF Ac!Spec, BansStick, Ac!BansStick

-----------------------------------------------------------------------------
(* Addresses *)

LEMMA ListLess ==
  ASSUME NEW list, NEW A, NEW F, NEW B, NEW G, ListOK(list, A, F), A \subseteq B, G \subseteq F
  PROVE  ListOK(list, B, G)
  BY DEF ListOK, Once, NotIn

LEMMA ListEmpty ==
  ASSUME NEW A, NEW F
  PROVE  ListOK(<<>>, A, F)
  BY DEF ListOK, Once, NotIn

LEMMA ListAppend ==
  ASSUME NEW S, NEW list \in Seq(S), NEW A, NEW F, NEW a \in S, ListOK(list, A, F),
         a \in A \/ a \in F
  PROVE  ListOK(Append(list, a), A, F \ {a})
<1> DEFINE t == Append(list, a)
           n == Len(list)
<1>0. n \in Nat
  OBVIOUS
<1>1. Len(t) = n + 1 /\ t[n + 1] = a /\ \A i \in 1..n : t[i] = list[i]
  OBVIOUS
<1>2. /\ \A i, j \in 1..n : list[i] = list[j] /\ i # j => list[i] \in A
      /\ \A b \in F : \A i \in 1..n : list[i] # b
  BY DEF ListOK, Once, NotIn
<1> HIDE DEF t, n
<1>3. \A i \in 1..(n + 1) : i = n + 1 \/ i \in 1..n
  BY <1>0
<1>4. ASSUME NEW i \in 1..(n + 1), NEW j \in 1..(n + 1), t[i] = t[j], i # j PROVE t[i] \in A
  <2>1. CASE i \in 1..n /\ j \in 1..n
    BY <1>1, <1>2, <1>4, <2>1
  <2>2. CASE i = n + 1
    BY <1>1, <1>2, <1>3, <1>4, <2>2
  <2>3. CASE j = n + 1
    BY <1>1, <1>2, <1>3, <1>4, <2>3
  <2> QED
    BY <1>3, <2>1, <2>2, <2>3
<1>5. ASSUME NEW b \in F \ {a}, NEW i \in 1..(n + 1) PROVE t[i] # b
  BY <1>1, <1>2, <1>3
<1> QED
  BY <1>1, <1>4, <1>5 DEF ListOK, Once, NotIn, t

LEMMA ListRemove ==
  ASSUME NEW S, NEW list \in Seq(S), NEW A, NEW F, NEW k \in 1..Len(list),
         ListOK(list, A, F)
  PROVE  ListOK(Ac!RemoveAt(list, k), A, F)
<1> DEFINE t == Ac!RemoveAt(list, k)
           n == Len(list)
           At(j) == IF j < k THEN j ELSE j + 1
<1>0. n \in Nat /\ k \in 1..n
  OBVIOUS
<1>1. Len(t) = n - 1 /\ \A j \in 1..(n - 1) : t[j] = IF j < k THEN list[j] ELSE list[j + 1]
  BY RemoveAtFacts
<1>2. /\ \A i, j \in 1..n : list[i] = list[j] /\ i # j => list[i] \in A
      /\ \A b \in F : \A i \in 1..n : list[i] # b
  BY DEF ListOK, Once, NotIn
<1> HIDE DEF t, n
<1>3. \A j \in 1..(n - 1) : At(j) \in 1..n /\ t[j] = list[At(j)]
  BY <1>0, <1>1
<1>4. \A i, j \in 1..(n - 1) : i # j => At(i) # At(j)
  BY <1>0
<1> HIDE DEF At
<1>5. \A i, j \in 1..(n - 1) : t[i] = t[j] /\ i # j => t[i] \in A
  BY <1>2, <1>3, <1>4
<1>6. \A b \in F : \A i \in 1..(n - 1) : t[i] # b
  BY <1>2, <1>3
<1> QED
  BY <1>1, <1>5, <1>6 DEF ListOK, Once, NotIn, t

\* What the updater of a user makes of the list
LEMMA ChangeUserList ==
  ASSUME NEW q \in Ac!Request, RequestOK(q)
  PROVE  LET old == q.user.recipients
             new == Ac!ChangeUser(q).recipients
         IN  \/ q.op = "add" /\ new = Append(old, q.arg)
             \/ /\ q.op = "erase" /\ q.arg + 1 \in 1..Len(old)
                /\ new = Ac!RemoveAt(old, q.arg + 1)
             \/ q.op # "add" /\ new = old
<1>1. q.user \in Ac!User /\ q.user.recipients \in Seq(Addresses)
  BY DEF Ac!Request, Ac!User
<1>2. CASE q.op = "ban"
  BY <1>1, <1>2 DEF Ac!ChangeUser, Ac!User
<1>3. CASE q.op = "add"
  BY <1>1, <1>3 DEF Ac!ChangeUser, Ac!User
<1>4. CASE q.op = "erase" /\ q.arg < Len(q.user.recipients)
  <2>1. q.arg + 1 \in 1..Len(q.user.recipients)
    BY <1>1, <1>4 DEF RequestOK
  <2>2. Ac!ChangeUser(q).recipients = Ac!RemoveAt(q.user.recipients, q.arg + 1)
    BY <1>1, <1>4 DEF Ac!ChangeUser, Ac!User
  <2> QED
    BY <1>4, <2>1, <2>2
<1>5. CASE q.op \notin {"ban", "add"} /\ ~(q.op = "erase" /\ q.arg < Len(q.user.recipients))
  BY <1>5 DEF Ac!ChangeUser
<1> QED
  BY <1>2, <1>3, <1>4, <1>5

\* A handler goes on with its call, or ends: nothing becomes fresh.
LEMMA GoesOn ==
  ASSUME ListsInv, NEW r \in Reqs, NEW h, Becomes(r, h), UNCHANGED used, again \subseteq again',
         h.op = "add" => accReq[r].op = "add" /\ h.arg = accReq[r].arg
  PROVE  /\ ToCome' \subseteq ToCome
         /\ \A p \in Reqs : accReq'[p].op = "add" => accReq'[p].arg \in used'
         /\ \A q, p \in Reqs :
              accReq'[q].op = "add" /\ accReq'[p].op = "add" /\ accReq'[q].arg = accReq'[p].arg => q = p
<1>1. \A p \in Reqs : accReq'[p].op = "add" => accReq[p].op = "add" /\ accReq'[p].arg = accReq[p].arg
  BY DEF Becomes, SameBut
<1>2. ToCome' \subseteq ToCome
  BY <1>1 DEF ToCome, Pending
<1> QED
  BY <1>1, <1>2 DEF ListsInv

\* A step in which no list is written: handler r has a copy of a list.
LEMMA ListsStay ==
  ASSUME ListsInv, NEW r \in Reqs, NEW h, Becomes(r, h), UNCHANGED <<userRows, used, again>>,
         h.op = "add" => accReq[r].op = "add" /\ h.arg = accReq[r].arg,
         ListOK(h.user.recipients, again, ToCome)
  PROVE  ListsInv'
<1>1. /\ ToCome' \subseteq ToCome
      /\ \A p \in Reqs : accReq'[p].op = "add" => accReq'[p].arg \in used'
      /\ \A q, p \in Reqs :
           accReq'[q].op = "add" /\ accReq'[p].op = "add" /\ accReq'[q].arg = accReq'[p].arg => q = p
  BY GoesOn
<1>2. \A u \in Users : ListOK(userRows'[u].recipients, again', ToCome')
  BY <1>1, ListLess DEF ListsInv
<1>3. ASSUME NEW p \in Reqs PROVE ListOK(accReq'[p].user.recipients, again', ToCome')
  <2>1. ListOK(accReq'[p].user.recipients, again, ToCome)
    BY DEF Becomes, SameBut, ListsInv
  <2> QED
    BY <1>1, <2>1, ListLess
<1> QED
  BY <1>1, <1>2, <1>3 DEF ListsInv

LEMMA TakesLists ==
  ASSUME AccountInv, ListsInv, NEW r \in Reqs, NEW h \in Ac!Request, Takes(r, h)
  PROVE  ListsInv'
<1>1. /\ Becomes(r, h) /\ h.user.recipients = <<>> /\ UNCHANGED <<userRows, again>>
      /\ h.op = "add" => h.arg \in Addresses \ used /\ h.arg \in used'
      /\ used \subseteq used'
  BY DEF Takes
<1>2. /\ \A p \in Reqs \ {r} : /\ accReq'[p].op = accReq[p].op /\ accReq'[p].arg = accReq[p].arg
                               /\ accReq'[p].user = accReq[p].user
      /\ accReq'[r] = h
  BY <1>1 DEF Becomes, SameBut
<1>3. ToCome' \subseteq ToCome
  BY <1>1, <1>2 DEF ToCome, Pending
<1>4. \A u \in Users : ListOK(userRows'[u].recipients, again', ToCome')
  BY <1>1, <1>3, ListLess DEF ListsInv
<1>5. ASSUME NEW p \in Reqs PROVE ListOK(accReq'[p].user.recipients, again', ToCome')
  <2>1. CASE p = r
    BY <1>1, <1>2, <2>1, ListEmpty
  <2>2. CASE p # r
    BY <1>1, <1>2, <1>3, <2>2, ListLess DEF ListsInv
  <2> QED
    BY <2>1, <2>2
<1>6. \A p \in Reqs : accReq'[p].op = "add" => accReq'[p].arg \in used'
  BY <1>1, <1>2 DEF ListsInv
<1>7. \A p, q \in Reqs :
        accReq'[q].op = "add" /\ accReq'[p].op = "add" /\ accReq'[q].arg = accReq'[p].arg => q = p
  BY <1>1, <1>2 DEF ListsInv
<1> QED
  BY <1>4, <1>5, <1>6, <1>7 DEF ListsInv

\* The write of a user: an address that is added is fresh, or its call was
\* repeated, and it is not fresh any more.
LEMMA WriteUserLists ==
  ASSUME Ac!ConstantsAssumption, AccountInv, ListsInv, NEW r \in Reqs, NEW h \in Ac!Request,
         WritesUser(r, h)
  PROVE  ListsInv'
<1> DEFINE q == accReq[r]
           old == q.user.recipients
           new == Ac!ChangeUser(q).recipients
<1>1. /\ q \in Ac!Request /\ RequestOK(q) /\ q.uid \in Users /\ old \in Seq(Addresses)
      /\ userRows \in [Users -> Ac!User] /\ ListOK(old, again, ToCome)
  BY Parts DEF AccountInv, Ac!TypeOK, Ac!Request, Ac!User, ListsInv
<1>2. /\ Becomes(r, h) /\ userRows' = [userRows EXCEPT ![q.uid] = Ac!ChangeUser(q)]
      /\ UNCHANGED used
  BY DEF WritesUser
<1>3. \/ /\ h.op = q.op /\ h.arg = q.arg /\ again \subseteq again' /\ h.user = q.user
         /\ q.op = "add" => q.arg \in again'
      \/ h.op # "add" /\ UNCHANGED again /\ h.user.recipients \in {old, <<>>}
  <2>1. CASE h.op = q.op /\ h.arg = q.arg /\ h.user = q.user
             /\ again' = IF q.op = "add" THEN again \cup {q.arg} ELSE again
    BY <2>1
  <2>2. CASE h.op = "ban" /\ h.user = q.user /\ UNCHANGED again
    BY <2>2
  <2>3. CASE h = Ac!Idle /\ UNCHANGED again
    BY <2>3, NoRequest
  <2> QED
    BY <2>1, <2>2, <2>3 DEF WritesUser
<1>a. again \subseteq again'
  BY <1>3
<1>4. /\ ToCome' \subseteq ToCome
      /\ \A p \in Reqs : accReq'[p].op = "add" => accReq'[p].arg \in used'
      /\ \A k, p \in Reqs :
           accReq'[k].op = "add" /\ accReq'[p].op = "add" /\ accReq'[k].arg = accReq'[p].arg => k = p
  <2>1. h.op = "add" => q.op = "add" /\ h.arg = q.arg
    BY <1>3
  <2> QED
    BY <1>2, <1>a, <2>1, GoesOn
<1>5. q.op = "add" => q.arg \notin ToCome' /\ q.arg \in Addresses /\ (q.arg \in again \/ q.arg \in ToCome)
  <2> SUFFICES ASSUME q.op = "add"
               PROVE  q.arg \notin ToCome' /\ q.arg \in Addresses /\ (q.arg \in again \/ q.arg \in ToCome)
    OBVIOUS
  <2>1. q.arg \in Addresses /\ q.arg \in used
    BY <1>1 DEF RequestOK, ListsInv
  <2>2. q.arg \in Pending
    BY DEF Pending
  <2>3. ASSUME q.arg \in Pending', q.arg \notin again' PROVE FALSE
    <3>1. PICK p \in Reqs : accReq'[p].op = "add" /\ accReq'[p].arg = q.arg
      BY <2>3 DEF Pending
    <3>2. p # r
      BY <1>2, <1>3, <2>3, <3>1 DEF Becomes
    <3>3. accReq[p].op = "add" /\ accReq[p].arg = q.arg
      BY <1>2, <3>1, <3>2 DEF Becomes, SameBut
    <3> QED
      BY <3>2, <3>3 DEF ListsInv
  <2> QED
    BY <1>2, <2>1, <2>2, <2>3 DEF ToCome
<1>6. \/ q.op = "add" /\ new = Append(old, q.arg)
      \/ q.op = "erase" /\ q.arg + 1 \in 1..Len(old) /\ new = Ac!RemoveAt(old, q.arg + 1)
      \/ q.op # "add" /\ new = old
  BY <1>1, ChangeUserList
<1>b. \A u \in Users : userRows'[u].recipients = IF u = q.uid THEN new ELSE userRows[u].recipients
  BY <1>1, <1>2
<1> HIDE DEF old, new
<1>7. ListOK(new, again', ToCome')
  <2>1. CASE q.op = "add" /\ new = Append(old, q.arg)
    <3>1. ListOK(new, again, ToCome \ {q.arg})
      BY <1>1, <1>5, <2>1, ListAppend
    <3> QED
      BY <1>4, <1>5, <1>a, <2>1, <3>1, ListLess
  <2>2. CASE q.op = "erase" /\ q.arg + 1 \in 1..Len(old) /\ new = Ac!RemoveAt(old, q.arg + 1)
    <3>1. ListOK(new, again, ToCome)
      BY <1>1, <2>2, ListRemove
    <3> QED
      BY <1>4, <1>a, <3>1, ListLess
  <2>3. CASE q.op # "add" /\ new = old
    BY <1>1, <1>4, <1>a, <2>3, ListLess
  <2> QED
    BY <1>6, <2>1, <2>2, <2>3
<1>8. ASSUME NEW u \in Users PROVE ListOK(userRows'[u].recipients, again', ToCome')
  <2>1. ListOK(userRows[u].recipients, again', ToCome')
    BY <1>4, <1>a, ListLess DEF ListsInv
  <2> QED
    BY <1>7, <1>b, <2>1
<1>9. ASSUME NEW p \in Reqs PROVE ListOK(accReq'[p].user.recipients, again', ToCome')
  <2>1. CASE p = r
    <3>1. accReq'[p].user.recipients \in {old, <<>>}
      BY <1>2, <1>3, <2>1 DEF Becomes, old
    <3>2. ListOK(old, again', ToCome') /\ ListOK(<<>>, again', ToCome')
      BY <1>1, <1>4, <1>a, ListLess, ListEmpty
    <3> QED
      BY <3>1, <3>2
  <2>2. CASE p # r
    <3>1. accReq'[p].user = accReq[p].user
      BY <1>2, <2>2 DEF Becomes, SameBut
    <3> QED
      BY <1>4, <1>a, <3>1, ListLess DEF ListsInv
  <2> QED
    BY <2>1, <2>2
<1> QED
  BY <1>4, <1>8, <1>9 DEF ListsInv

LEMMA ListsStep ==
  ASSUME Ac!ConstantsAssumption, AccountInv, ListsInv, [Ac!Next]_(Ac!vars)
  PROVE  ListsInv'
<1>0. Steps /\ Ac!Idle.op = "none" /\ Ac!Idle.user.recipients = <<>>
  BY NextIsSteps, NoRequest
<1>1. CASE UNCHANGED <<userRows, accReq, used, again>>
  BY <1>1 DEF ListsInv, ToCome, Pending
<1>2. ASSUME NEW r \in Reqs, Becomes(r, Ac!Idle), UNCHANGED <<userRows, used, again>> PROVE ListsInv'
  BY <1>0, <1>2, ListEmpty, ListsStay
<1>3. ASSUME NEW r \in Reqs, NEW h, Becomes(r, h), UNCHANGED <<userRows, used, again>>,
             h.op = accReq[r].op, h.arg = accReq[r].arg, h.user = accReq[r].user
      PROVE  ListsInv'
  <2>1. ListOK(h.user.recipients, again, ToCome)
    BY <1>3 DEF ListsInv
  <2> QED
    BY <1>3, <2>1, ListsStay
<1>4. ASSUME NEW r \in Reqs, Ac!ChangePassword(r) PROVE ListsInv'
  <2> DEFINE h == [accReq[r] EXCEPT !.pc = "loadMerchant"]
  <2>1. h.op = accReq[r].op /\ h.arg = accReq[r].arg /\ h.user = accReq[r].user
    BY Parts DEF Ac!Request
  <2>2. (Becomes(r, h) \/ Becomes(r, Ac!Idle)) /\ UNCHANGED <<userRows, used, again>>
    BY <1>4, ChangePasswordFacts
  <2> HIDE DEF h
  <2> QED
    BY <1>2, <1>3, <2>1, <2>2
<1>5. ASSUME NEW r \in Reqs, Ac!LoadUser(r) PROVE ListsInv'
  <2> DEFINE h == [accReq[r] EXCEPT !.pc = "writeUser", !.user = userRows[accReq[r].uid],
                                 !.stale = FALSE]
  <2>1. h.op = accReq[r].op /\ h.arg = accReq[r].arg /\ h.user = userRows[accReq[r].uid] /\ accReq[r].uid \in Users
    BY Parts DEF Ac!Request
  <2>2. Becomes(r, h) /\ UNCHANGED <<userRows, used, again>>
    BY <1>5, LoadUserFacts
  <2> HIDE DEF h
  <2>3. ListOK(h.user.recipients, again, ToCome)
    BY <2>1 DEF ListsInv
  <2> QED
    BY <2>1, <2>2, <2>3, ListsStay
<1>6. ASSUME NEW r \in Reqs, Ac!LoadMerchant(r) PROVE ListsInv'
  <2>1. /\ UNCHANGED <<userRows, used, again>>
        /\ \/ \E h \in Ac!Request : /\ Becomes(r, h) /\ h.op = accReq[r].op /\ h.arg = accReq[r].arg
                                 /\ h.user = accReq[r].user
           \/ Becomes(r, Ac!Idle)
    BY <1>6, LoadMerchantFacts
  <2> QED
    BY <1>2, <1>3, <2>1
<1>7. ASSUME NEW r \in Reqs, Ac!Throws(r) PROVE ListsInv'
  BY <1>2, <1>7, ThrowsFacts
<1>8. ASSUME NEW r \in Reqs, NEW h \in Ac!Request, WritesMerchant(r, h) PROVE ListsInv'
  <2>1. /\ UNCHANGED <<userRows, used, again>> /\ Becomes(r, h)
        /\ \/ h.op = accReq[r].op /\ h.arg = accReq[r].arg /\ h.user = accReq[r].user
           \/ h = Ac!Idle
    BY <1>8 DEF WritesMerchant
  <2> QED
    BY <1>2, <1>3, <2>1
<1>9. ASSUME NEW s \in Sessions, Ac!Reload(s) PROVE ListsInv'
  BY <1>1, <1>9 DEF Ac!Reload
<1>10. CASE UNCHANGED Ac!vars
  BY <1>1, <1>10 DEF Ac!vars
<1> QED
  BY <1>0, <1>4, <1>5, <1>6, <1>7, <1>8, <1>9, <1>10, TakesLists, WriteUserLists DEF Steps

LEMMA ListsInit ==
  ASSUME Ac!ConstantsAssumption, Ac!Init
  PROVE  ListsInv
<1>1. /\ \A r \in Reqs : accReq[r].op = "none" /\ accReq[r].user.recipients = <<>>
      /\ \A u \in Users : userRows[u].recipients = <<>>
  BY NoRequest DEF Ac!Init, Ac!NewUser
<1> QED
  BY <1>1, ListEmpty DEF ListsInv

LEMMA ListsInvariant == Ac!ConstantsAssumption /\ Ac!Spec => [](RowsInv /\ ListsInv)
<1> SUFFICES ASSUME Ac!ConstantsAssumption PROVE Ac!Spec => [](RowsInv /\ ListsInv)
  OBVIOUS
<1>1. Ac!Init => RowsInv /\ ListsInv
  BY RowsInit, ListsInit
<1>2. RowsInv /\ ListsInv /\ [Ac!Next]_(Ac!vars) => (RowsInv /\ ListsInv)'
  BY RowsStep, ListsStep DEF RowsInv
<1> QED
  BY <1>1, <1>2, PTL DEF Ac!Spec

\* What the elements of a list are after an address was added or erased
LEMMA AppendElements ==
  ASSUME NEW S, NEW list \in Seq(S), NEW a \in S
  PROVE  Ac!ToSet(list) \subseteq Ac!ToSet(Append(list, a))
<1>1. /\ DOMAIN list = 1..Len(list) /\ DOMAIN Append(list, a) = 1..(Len(list) + 1)
      /\ Len(list) \in Nat /\ \A i \in 1..Len(list) : Append(list, a)[i] = list[i]
  OBVIOUS
<1>2. \A i \in 1..Len(list) : i \in 1..(Len(list) + 1)
  BY <1>1
<1> QED
  BY <1>1, <1>2 DEF Ac!ToSet

LEMMA RemoveElements ==
  ASSUME NEW S, NEW list \in Seq(S), NEW k \in 1..Len(list)
  PROVE  LET old == Ac!ToSet(list)
             new == Ac!ToSet(Ac!RemoveAt(list, k))
         IN  old \subseteq new \/ \E a \in old : old \ {a} = new
<1> DEFINE t == Ac!RemoveAt(list, k)
           n == Len(list)
           old == Ac!ToSet(list)
           new == Ac!ToSet(t)
           At(j) == IF j < k THEN j ELSE j + 1
           Back(i) == IF i < k THEN i ELSE i - 1
<1>0. n \in Nat /\ k \in 1..n /\ DOMAIN list = 1..n
  OBVIOUS
<1>1. /\ t \in Seq(S) /\ Len(t) = n - 1
      /\ \A j \in 1..(n - 1) : t[j] = IF j < k THEN list[j] ELSE list[j + 1]
  BY RemoveAtFacts
<1>2. DOMAIN t = 1..(n - 1)
  BY <1>1
<1> HIDE DEF t, n
<1>3. \A j \in 1..(n - 1) : At(j) \in 1..n /\ t[j] = list[At(j)]
  BY <1>0, <1>1
<1>4. \A i \in 1..n : i # k => Back(i) \in 1..(n - 1) /\ list[i] = t[Back(i)]
  BY <1>0, <1>1
<1> HIDE DEF At, Back
<1>5. new \subseteq old
  BY <1>0, <1>2, <1>3 DEF Ac!ToSet
<1>6. \A x \in old : x = list[k] \/ x \in new
  BY <1>0, <1>2, <1>4 DEF Ac!ToSet
<1>7. list[k] \in old
  BY <1>0 DEF Ac!ToSet
<1> HIDE DEF old, new
<1>8. old \subseteq new \/ \E a \in old : old \ {a} = new
  <2>1. CASE list[k] \in new
    BY <1>6, <2>1
  <2>2. CASE list[k] \notin new
    BY <1>5, <1>6, <1>7, <2>2
  <2> QED
    BY <2>1, <2>2
<1> QED
  BY <1>8 DEF old, new, t

LEMMA DropStep ==
  ASSUME Ac!ConstantsAssumption, RowsInv, [Ac!Next]_(Ac!vars)
  PROVE  Ac!Drops
<1>0. AccountInv /\ Steps
  BY NextIsSteps DEF RowsInv
<1>1. CASE UNCHANGED userRows
  BY <1>1 DEF Ac!Drops
<1>2. ASSUME NEW r \in Reqs, NEW h \in Ac!Request, WritesUser(r, h) PROVE Ac!Drops
  <2> DEFINE q == accReq[r]
  <2>1. /\ q \in Ac!Request /\ RequestOK(q) /\ q.uid \in Users /\ Current(q)
        /\ userRows \in [Users -> Ac!User] /\ q.user.recipients \in Seq(Addresses)
    BY <1>0, Parts DEF RowsInv, AccountInv, Ac!TypeOK, Ac!Request, Ac!User
  <2>2. /\ q.pc = "writeUser" /\ userRows' = [userRows EXCEPT ![q.uid] = Ac!ChangeUser(q)]
        /\ accReq'[r] = h /\ h.pc # "writeUser"
    BY <1>2, NoRequest DEF WritesUser, Becomes
  <2> SUFFICES ASSUME NEW u \in Users
               PROVE  LET old == Ac!ToSet(userRows[u].recipients)
                          new == Ac!ToSet(userRows'[u].recipients)
                      IN  \/ old \subseteq new \/ Ac!StaleWrite("writeUser", u)
                          \/ /\ \E p \in Reqs : accReq[p].op = "erase" /\ accReq[p].pc = "writeUser"
                             /\ \E a \in old : old \ {a} = new
    BY DEF Ac!Drops
  <2>3. CASE u # q.uid
    BY <2>1, <2>2, <2>3
  <2>4. CASE u = q.uid /\ q.stale
    BY <2>2, <2>4 DEF Ac!StaleWrite
  <2>5. CASE u = q.uid /\ ~q.stale
    <3> DEFINE list == q.user.recipients
               new == Ac!ChangeUser(q).recipients
    <3>1. userRows[u].recipients = list /\ userRows'[u].recipients = new
      BY <2>1, <2>2, <2>5 DEF Current
    <3>2. \/ q.op = "add" /\ new = Append(list, q.arg)
          \/ q.op = "erase" /\ q.arg + 1 \in 1..Len(list) /\ new = Ac!RemoveAt(list, q.arg + 1)
          \/ q.op # "add" /\ new = list
      BY <2>1, ChangeUserList
    <3> HIDE DEF list, new
    <3>3. list \in Seq(Addresses) /\ (q.op = "add" => q.arg \in Addresses)
      BY <2>1 DEF RequestOK, list
    <3>4. CASE q.op = "add" /\ new = Append(list, q.arg)
      BY <3>1, <3>3, <3>4, AppendElements
    <3>5. CASE q.op = "erase" /\ q.arg + 1 \in 1..Len(list) /\ new = Ac!RemoveAt(list, q.arg + 1)
      <4>1. \/ Ac!ToSet(list) \subseteq Ac!ToSet(new)
            \/ \E a \in Ac!ToSet(list) : Ac!ToSet(list) \ {a} = Ac!ToSet(new)
        BY <3>3, <3>5, RemoveElements
      <4> QED
        BY <2>2, <3>1, <3>5, <4>1
    <3> QED
      BY <3>1, <3>2, <3>4, <3>5
  <2> QED
    BY <2>3, <2>4, <2>5
<1>3. \/ UNCHANGED userRows
      \/ \E r \in Reqs : \E h \in Ac!Request : WritesUser(r, h)
  <2>1. \A r \in Reqs, h \in Ac!Request : Takes(r, h) \/ WritesMerchant(r, h) => UNCHANGED userRows
    BY DEF Takes, WritesMerchant
  <2>2. \A s \in Sessions : Ac!Reload(s) => UNCHANGED userRows
    BY DEF Ac!Reload
  <2>3. \A r \in Reqs : Ac!ChangePassword(r) \/ Ac!LoadUser(r) \/ Ac!LoadMerchant(r) \/ Ac!Throws(r) =>
                          UNCHANGED userRows
    BY DEF Ac!ChangePassword, Ac!LoadUser, Ac!LoadMerchant, Ac!Throws
  <2>4. UNCHANGED Ac!vars => UNCHANGED userRows
    BY DEF Ac!vars
  <2> QED
    BY <1>0, <2>1, <2>2, <2>3, <2>4 DEF Steps
<1> QED
  BY <1>1, <1>2, <1>3

\* An address that is in the list of a user goes only when one is erased
\* (user_erase_receipt_address), and only one with it, or with the write of a
\* whole row from an older copy; it comes a second time only if its call
\* (user_add_recipient_address) was repeated after its commit.
THEOREM AddressesAreKept == Ac!Spec => AddressesStay
<1> USE UsersAssumption
<1>1. Ac!Spec => [](RowsInv /\ ListsInv)
  BY ListsInvariant
<1>2. RowsInv /\ ListsInv => Ac!OnceUnlessRepeated
  <2> SUFFICES ASSUME RowsInv, ListsInv, NEW u \in Users
               PROVE  LET list == userRows[u].recipients IN
                      \A i, j \in DOMAIN list : list[i] = list[j] /\ i # j => list[i] \in again
    BY DEF Ac!OnceUnlessRepeated
  <2>1. userRows[u].recipients \in Seq(Addresses)
    BY DEF RowsInv, AccountInv, Ac!TypeOK, Ac!User
  <2>2. DOMAIN userRows[u].recipients = 1..Len(userRows[u].recipients)
    BY <2>1
  <2> QED
    BY <2>2 DEF ListsInv, ListOK, Once
<1>3. RowsInv /\ [Ac!Next]_(Ac!vars) => Ac!Drops
  BY DropStep
<1> DEFINE P == Ac!OnceUnlessRepeated
           I == RowsInv /\ ListsInv
<1>4. I /\ I' /\ [Ac!Next]_(Ac!vars) => [Ac!Drops /\ P']_(Ac!vars)
  <2>1. I => P
    BY <1>2
  <2>2. I' => P'
    BY <2>1, PTL
  <2> QED
    BY <1>3, <2>2
<1> QED
  BY <1>1, <1>4, PTL DEF Ac!Spec, AddressesStay, Ac!AddressesStay

-----------------------------------------------------------------------------
\* Every variable of the three parts keeps its type: ids are ids of rows that
\* exist, and no cookie has two codes.
THEOREM UsersTypes == Spec /\ VC!Spec /\ Ac!Spec => []UsersTypeOK
<1>1. WakesInTime => VC!TypeOK
  BY DEF WakesInTime
<1>2. TypeOK /\ VC!TypeOK /\ Ac!TypeOK => UsersTypeOK
  BY DEF UsersTypeOK
<1> QED
  BY <1>1, <1>2, SessionTypes, CodesInvariant, AccountTypes, UsersAssumption, PTL
=============================================================================
