--------------------------- MODULE Services_proofs ---------------------------
(***************************************************************************)
(* What the server does for as long as it runs, for every value of the     *)
(* constants: the safety properties of Repos, the websocket connection as  *)
(* an implementation of what it promises, and the configuration of WeChat  *)
(* payment.                                                                *)
(***************************************************************************)
EXTENDS Services, SequenceTheorems, FiniteSetTheorems, TLAPS

\* Nothing has been done for the repository of a merchant.
Untouched(m) ==
  /\ \A k \in Loads : bg[m][k].pc = "none"
  /\ index[m] = <<>> /\ snap[m] = NoCommit /\ m \notin repos

Adding == {"spawned", "addHead", "addGoods", "addStore"}

\* A repository is loaded by the approval or by the start of the server, and
\* the one coroutine that follows it adds its goods to an empty index.
Loading(m) ==
  /\ m \notin known => approving[m] = "done" /\ head[m] = NoCommit
  /\ approving[m] # "done" \/ head[m] = NoCommit => Untouched(m)
  /\ \A k \in Loads : /\ bg[m][k].pc # "none" => m \in repos
                      /\ bg[m][k].pc \in Adding /\ Single(m) => index[m] = <<>>
  /\ index[m] # <<>> => m \in repos

\* Coroutine b has read its goods after their label: if that is HEAD h, so are
\* they, or HEAD has come back to the label.
Fresh(b, h) ==
  b.pc \in {"addStore", "reStore"} =>
    b.goods # NoCommit /\ (b.seen = h /\ ~b.back => b.goods = h)

\* Goods are read after their label, in the coroutines and in the index.
GoodsAfterLabel(m) ==
  /\ \A k \in Loads : Fresh(bg[m][k], head[m])
  /\ m \notin returned /\ snap[m] # NoCommit /\ snap[m] = head[m] =>
       head[m] \in Range(index[m])

MerchantInv(m) == Loading(m) /\ GoodsAfterLabel(m)

\* The inductive invariant
ReposInv == TypeOK /\ \A m \in Merchants : MerchantInv(m)

-----------------------------------------------------------------------------
\* The parts of the state that a merchant has.
LEMMA Parts ==
  ASSUME TypeOK, NEW m \in Merchants
  PROVE  /\ approving[m] \in {"init", "load", "done"} /\ head[m] \in Maybe
         /\ snap[m] \in Maybe /\ index[m] \in Seq(Commits)
         /\ Single(m) => Len(index[m]) <= 1
         /\ bg[m] \in [Loads -> Coroutine]
         /\ \A k \in Loads : /\ bg[m][k] \in Coroutine /\ bg[m][k].pc \in Pcs
                             /\ bg[m][k].seen \in Maybe /\ bg[m][k].goods \in Maybe
                             /\ bg[m][k].back \in BOOLEAN
  BY DEF TypeOK, Coroutine

\* A step that leaves what a merchant has as it is keeps its invariant.
LEMMA Frame ==
  ASSUME NEW m \in Merchants, MerchantInv(m),
         approving'[m] = approving[m], head'[m] = head[m], snap'[m] = snap[m],
         index'[m] = index[m], bg'[m] = bg[m], m \in known' <=> m \in known,
         m \in repos' <=> m \in repos, m \in returned' <=> m \in returned
  PROVE  MerchantInv(m)'
  BY DEF MerchantInv, Loading, Untouched, Single, GoodsAfterLabel, Fresh, Range

\* Sequences of commits, and what is in them
LEMMA One ==
  ASSUME NEW c \in Commits
  PROVE  /\ <<c>> \in Seq(Commits) /\ Len(<<c>>) = 1 /\ <<c>> # <<>> /\ c \in Range(<<c>>)
         /\ \A s \in Seq(Commits) :
              /\ Append(s, c) \in Seq(Commits) /\ c \in Range(Append(s, c))
              /\ Append(s, c) # <<>>
              /\ s = <<>> => Len(Append(s, c)) = 1
              /\ Len(s) <= 1 /\ c \in Range(s) => s = <<c>>
<1>1. <<c>> \in Seq(Commits) /\ Len(<<c>>) = 1 /\ <<c>> # <<>> /\ c \in Range(<<c>>)
  <2>1. 1 \in DOMAIN <<c>> /\ <<c>>[1] = c
    OBVIOUS
  <2> QED
    BY <2>1 DEF Range
<1>2. ASSUME NEW s \in Seq(Commits)
      PROVE  /\ Append(s, c) \in Seq(Commits) /\ c \in Range(Append(s, c))
             /\ Append(s, c) # <<>>
             /\ s = <<>> => Len(Append(s, c)) = 1
             /\ Len(s) <= 1 /\ c \in Range(s) => s = <<c>>
  <2>1. /\ Append(s, c) \in Seq(Commits) /\ Len(Append(s, c)) = Len(s) + 1
        /\ Len(s) + 1 \in DOMAIN Append(s, c) /\ Append(s, c)[Len(s) + 1] = c
        /\ Len(s) \in Nat
    OBVIOUS
  <2>2. c \in Range(Append(s, c))
    BY <2>1 DEF Range
  <2>3. ASSUME Len(s) <= 1, c \in Range(s) PROVE s = <<c>>
    <3>1. PICK i \in DOMAIN s : s[i] = c
      BY <2>3 DEF Range
    <3>2. DOMAIN s = 1..Len(s) /\ i \in 1..Len(s)
      BY <3>1
    <3>3. i = 1 /\ Len(s) = 1
      BY <2>1, <2>3, <3>2
    <3>4. <<c>> \in Seq(Commits) /\ Len(<<c>>) = 1 /\ <<c>>[1] = c
      OBVIOUS
    <3> QED
      BY <3>1, <3>3, <3>4, SeqEqual
  <2> QED
    BY <2>1, <2>2, <2>3
<1> QED
  BY <1>1, <1>2

\* The invariant of all merchants, from that of the one that takes the step.
LEMMA OthersStay ==
  ASSUME ReposInv, NEW m \in Merchants, MerchantInv(m)',
         \A n \in Merchants \ {m} :
           /\ approving'[n] = approving[n] /\ head'[n] = head[n]
           /\ snap'[n] = snap[n] /\ index'[n] = index[n] /\ bg'[n] = bg[n]
           /\ n \in known' <=> n \in known
           /\ n \in repos' <=> n \in repos
           /\ n \in returned' <=> n \in returned
  PROVE  (\A n \in Merchants : MerchantInv(n))'
<1> SUFFICES ASSUME NEW n \in Merchants PROVE MerchantInv(n)'
  OBVIOUS
<1>1. CASE n = m
  BY <1>1
<1>2. CASE n # m
  BY <1>2, Frame DEF ReposInv
<1> QED
  BY <1>1, <1>2

\* The index has goods at most once, when the merchants that are not touched
\* have the coroutines they had.
LEMMA OnceStays ==
  ASSUME TypeOK, NEW m \in Merchants,
         \A n \in Merchants \ {m} : bg'[n] = bg[n] /\ index'[n] = index[n],
         Single(m)' => Len(index'[m]) <= 1
  PROVE  (\A n \in Merchants : Single(n) => Len(index[n]) <= 1)'
<1> SUFFICES ASSUME NEW n \in Merchants, n # m, Single(n)' PROVE Len(index'[n]) <= 1
  OBVIOUS
<1>1. Single(n)
  BY DEF Single
<1> QED
  BY <1>1 DEF TypeOK

-----------------------------------------------------------------------------
\* Steps of an approval and of a push
LEMMA ApproveStep ==
  ASSUME ReposInv, NEW m \in Merchants, Approve(m)
  PROVE  ReposInv'
<1> USE DEF ReposInv
<1>1. TypeOK'
  BY DEF TypeOK, Approve, search, Single
<1>2. MerchantInv(m)'
  BY DEF TypeOK, Approve, search, MerchantInv, Loading, Untouched, Single,
         GoodsAfterLabel, Fresh, Range
<1> QED
  BY <1>1, <1>2, OthersStay DEF TypeOK, Approve, search

LEMMA InitUserStep ==
  ASSUME ReposInv, NEW m \in Merchants, InitUser(m)
  PROVE  ReposInv'
<1> USE DEF ReposInv
<1>1. TypeOK'
  <2>0. pushes \in Nat /\ head \in [Merchants -> Maybe] /\ Commits \subseteq Maybe
    BY DEF TypeOK, Maybe
  <2>1. pushes' \in Nat /\ head' \in [Merchants -> Maybe]
    <3>1. CASE UNCHANGED <<head, pushes>>
      BY <2>0, <3>1
    <3>2. CASE pushes' = pushes + 1 /\ \E c \in Commits : head' = [head EXCEPT ![m] = c]
      BY <2>0, <3>2
    <3> QED
      BY <3>1, <3>2 DEF InitUser
  <2> QED
    BY <2>1 DEF TypeOK, InitUser, search, Single
<1>2. MerchantInv(m)'
  BY ConstantsAssumption DEF TypeOK, InitUser, search, MerchantInv, Loading,
         Untouched, Single, GoodsAfterLabel, Fresh, Range
<1> QED
  BY <1>1, <1>2, OthersStay DEF TypeOK, InitUser, search

\* What coroutines are that do nothing or begin
LEMMA NewCoroutines ==
  /\ Spawned \in Coroutine /\ Spawned.pc = "spawned"
  /\ Ended \in Coroutine /\ Ended.pc = "none"
  /\ 1 \in Loads
<1>1. Ended \in Coroutine /\ Ended.pc = "none"
  BY DEF Ended, Coroutine, Pcs, Maybe
<1>2. Spawned \in Coroutine /\ Spawned.pc = "spawned"
  BY <1>1 DEF Spawned, Coroutine, Pcs
<1>3. 1 \in Loads
  BY ConstantsAssumption DEF Loads
<1> QED
  BY <1>1, <1>2, <1>3

\* Coroutine k of merchant m becomes b.
Becomes(m, k, b) ==
  /\ bg' \in [Merchants -> [Loads -> Coroutine]] /\ bg'[m][k] = b
  /\ \A j \in Loads \ {k} : bg'[m][j] = bg[m][j]
  /\ \A n \in Merchants \ {m} : bg'[n] = bg[n]

LEMMA ExceptBecomes ==
  ASSUME TypeOK, NEW m \in Merchants, NEW k \in Loads, NEW b \in Coroutine,
         bg' = [bg EXCEPT ![m][k] = b]
  PROVE  Becomes(m, k, b)
  BY DEF TypeOK, Becomes

LEMMA LoadMerchantGitStep ==
  ASSUME ReposInv, NEW m \in Merchants, LoadMerchantGit(m)
  PROVE  ReposInv'
<1> USE DEF ReposInv
<1>1. /\ approving[m] = "load" /\ m \in known /\ Untouched(m)
      /\ UNCHANGED <<known, head, pushes, index, snap, returned, restarts>>
      /\ approving' = [approving EXCEPT ![m] = "done"]
  BY DEF LoadMerchantGit, search, MerchantInv, Loading
<1>2. CASE head[m] # NoCommit /\ repos' = repos \cup {m} /\ bg' = [bg EXCEPT ![m][1] = Spawned]
  <2>1. Becomes(m, 1, Spawned)
    BY <1>2, NewCoroutines, ExceptBecomes
  <2>2. \A n \in Merchants : Len(index'[n]) <= 1 \/ (n # m /\ index'[n] = index[n])
    BY <1>1 DEF Untouched
  <2>3. (\A n \in Merchants : Single(n) => Len(index[n]) <= 1)'
    BY <1>1, <2>1, <2>2, OnceStays DEF Becomes
  <2>4. TypeOK'
    BY <1>1, <1>2, <2>1, <2>3 DEF TypeOK, Becomes
  <2>5. MerchantInv(m)'
    BY <1>1, <1>2, <2>1, NewCoroutines
    DEF TypeOK, Becomes, MerchantInv, Loading, Untouched, GoodsAfterLabel, Fresh
  <2> QED
    BY <1>1, <1>2, <2>1, <2>4, <2>5, OthersStay DEF TypeOK, Becomes
<1>3. CASE head[m] = NoCommit /\ repos' = repos \ {m} /\ UNCHANGED bg
  <2>1. TypeOK'
    BY <1>1, <1>3 DEF TypeOK, Single
  <2>2. MerchantInv(m)'
    BY <1>1, <1>3 DEF TypeOK, MerchantInv, Loading, Untouched, GoodsAfterLabel, Fresh
  <2> QED
    BY <1>1, <1>3, <2>1, <2>2, OthersStay DEF TypeOK
<1> QED
  BY <1>2, <1>3 DEF LoadMerchantGit

\* HEAD moves: coroutines and an index with other goods under a label that is
\* HEAD now are on record.
LEMMA PushStep ==
  ASSUME ReposInv, NEW m \in Merchants, NEW c \in Commits, Push(m, c)
  PROVE  ReposInv'
<1> USE DEF ReposInv
<1> DEFINE hit(k) == /\ bg[m][k].pc \in {"addStore", "reStore"}
                     /\ bg[m][k].seen = c /\ bg[m][k].goods # c
           B(k) == [bg[m][k] EXCEPT !.back = @ \/ hit(k)]
<1>1. /\ m \in known /\ head' = [head EXCEPT ![m] = c] /\ pushes' = pushes + 1
      /\ bg' = [bg EXCEPT ![m] = [k \in Loads |-> B(k)]]
      /\ returned' = IF snap[m] = c /\ c \notin Range(index[m])
                     THEN returned \cup {m} ELSE returned
      /\ approving[m] # "init"
      /\ UNCHANGED <<known, approving, repos, index, snap, restarts>>
  BY DEF Push, search
<1>2. ASSUME NEW k \in Loads
      PROVE  /\ B(k) \in Coroutine /\ B(k).pc = bg[m][k].pc /\ B(k).seen = bg[m][k].seen
             /\ B(k).goods = bg[m][k].goods /\ (hit(k) => B(k).back)
  <2>1. bg[m][k] \in Coroutine /\ bg[m][k].back \in BOOLEAN
    BY Parts
  <2> DEFINE b == hit(k)
  <2>2. b \in BOOLEAN
    OBVIOUS
  <2> HIDE DEF b
  <2>3. (bg[m][k].back \/ b) \in BOOLEAN
    BY <2>1, <2>2
  <2>4. LET x == [bg[m][k] EXCEPT !.back = @ \/ b]
        IN  /\ x \in Coroutine /\ x.pc = bg[m][k].pc /\ x.seen = bg[m][k].seen
            /\ x.goods = bg[m][k].goods /\ x.back = (bg[m][k].back \/ b)
    BY <2>1, <2>3 DEF Coroutine
  <2> QED
    BY <2>2, <2>4 DEF b
<1> HIDE DEF B
<1>3. /\ bg' \in [Merchants -> [Loads -> Coroutine]] /\ \A k \in Loads : bg'[m][k] = B(k)
      /\ \A n \in Merchants \ {m} : bg'[n] = bg[n]
  BY <1>1, <1>2 DEF TypeOK
<1>4. Single(m)' => Single(m)
  BY <1>2, <1>3 DEF Single
<1>5. (\A n \in Merchants : Single(n) => Len(index[n]) <= 1)'
  BY <1>1, <1>3, <1>4, OnceStays, Parts
<1>6. head' \in [Merchants -> Maybe] /\ pushes' \in Nat /\ head'[m] = c /\ c # NoCommit
  BY <1>1, ConstantsAssumption DEF TypeOK, Maybe
<1>7. TypeOK'
  BY <1>1, <1>3, <1>5, <1>6 DEF TypeOK
<1>8. Loading(m)'
  BY <1>1, <1>2, <1>3, <1>4, <1>6 DEF MerchantInv, Loading, Untouched
<1>9. ASSUME NEW k \in Loads PROVE Fresh(bg'[m][k], c)
  <2>1. Fresh(bg[m][k], head[m])
    BY DEF MerchantInv, GoodsAfterLabel
  <2> QED
    BY <1>2, <1>3, <2>1 DEF Fresh
<1>10. m \notin returned' /\ snap'[m] # NoCommit /\ snap'[m] = c => c \in Range(index'[m])
  BY <1>1
<1>11. MerchantInv(m)'
  BY <1>6, <1>8, <1>9, <1>10 DEF MerchantInv, GoodsAfterLabel, Fresh, Range
<1> QED
  BY <1>1, <1>3, <1>7, <1>11, OthersStay DEF TypeOK

-----------------------------------------------------------------------------
\* A step of a coroutine that reads keeps the invariant.
LEMMA ReadingStep ==
  ASSUME ReposInv, NEW m \in Merchants, NEW k \in Loads,
         Begin(m, k) \/ ReadHead(m, k) \/ ReadGoods(m, k) \/ Wake(m, k)
           \/ CheckChanged(m, k) \/ GitFails(m, k)
  PROVE  ReposInv'
<1> USE DEF ReposInv, At, Goto
<1> DEFINE b == bg[m][k]
<1>1. /\ UNCHANGED <<known, approving, head, pushes, repos, index, snap, returned, restarts>>
      /\ b.pc # "none"
  BY DEF Begin, ReadHead, ReadGoods, Wake, CheckChanged, GitFails, disk, search
<1>2. m \in repos /\ approving[m] = "done" /\ head[m] # NoCommit
  BY <1>1 DEF MerchantInv, Loading, Untouched
<1>3. b \in Coroutine /\ head[m] \in Maybe /\ snap[m] \in Maybe /\ Fresh(b, head[m])
  BY Parts DEF MerchantInv, GoodsAfterLabel
<1>4. PICK x \in Coroutine : /\ bg' = [bg EXCEPT ![m][k] = x] /\ x.pc # "none"
                             /\ x.pc \in Adding => b.pc \in Adding
                             /\ Fresh(x, head[m])
  <2> HIDE DEF ReposInv
  <2>0. bg \in [Merchants -> [Loads -> Coroutine]]
    BY DEF ReposInv, TypeOK
  <2>1. CASE Begin(m, k)
    <3> DEFINE x == [b EXCEPT !.pc = "addHead"]
    <3>1. bg' = [bg EXCEPT ![m][k] = x] /\ b.pc = "spawned"
      BY <1>2, <2>0, <2>1 DEF Begin
    <3>2. x \in Coroutine /\ x.pc = "addHead"
      BY <1>3 DEF Coroutine, Pcs
    <3> QED
      BY <3>1, <3>2 DEF Adding, Fresh
  <2>2. CASE ReadHead(m, k)
    <3> DEFINE to == IF b.pc = "addHead" THEN "addGoods" ELSE "reGoods"
               x == [b EXCEPT !.pc = to, !.seen = head[m], !.back = FALSE]
    <3>1. bg' = [bg EXCEPT ![m][k] = x] /\ b.pc \in {"addHead", "reHead"}
      BY <2>0, <2>2 DEF ReadHead
    <3>2. /\ to \in Pcs /\ to \notin {"none", "addStore", "reStore"}
          /\ to \in Adding => b.pc \in Adding
      BY DEF Pcs, Adding
    <3> HIDE DEF to
    <3>3. x \in Coroutine /\ x.pc = to
      BY <1>3, <3>2 DEF Coroutine
    <3> HIDE DEF x
    <3>4. Fresh(x, head[m])
      BY <3>2, <3>3 DEF Fresh
    <3> QED
      BY <3>1, <3>2, <3>3, <3>4
  <2>3. CASE ReadGoods(m, k)
    <3> DEFINE to == IF b.pc = "addGoods" THEN "addStore" ELSE "reStore"
               x == [b EXCEPT !.pc = to, !.goods = head[m]]
    <3>1. bg' = [bg EXCEPT ![m][k] = x] /\ b.pc \in {"addGoods", "reGoods"}
      BY <2>0, <2>3 DEF ReadGoods
    <3>2. /\ to \in Pcs /\ to # "none"
          /\ to \in Adding => b.pc \in Adding
      BY DEF Pcs, Adding
    <3> HIDE DEF to
    <3>3. x \in Coroutine /\ x.pc = to /\ x.goods = head[m]
      BY <1>3, <3>2 DEF Coroutine
    <3> HIDE DEF x
    <3>4. Fresh(x, head[m])
      BY <1>2, <3>3 DEF Fresh
    <3> QED
      BY <3>1, <3>2, <3>3, <3>4
  <2>4. CASE Wake(m, k)
    <3> DEFINE x == [b EXCEPT !.pc = "check", !.seen = snap[m]]
    <3>1. bg' = [bg EXCEPT ![m][k] = x]
      BY <2>0, <2>4 DEF Wake
    <3>2. x \in Coroutine /\ x.pc = "check"
      BY <1>3 DEF Coroutine, Pcs
    <3> QED
      BY <3>1, <3>2 DEF Adding, Fresh
  <2>5. CASE CheckChanged(m, k)
    <3> DEFINE to == IF head[m] # b.seen THEN "reHead" ELSE "sleep"
               x == [b EXCEPT !.pc = to]
    <3>1. bg' = [bg EXCEPT ![m][k] = x]
      BY <2>0, <2>5 DEF CheckChanged
    <3>2. to \in Pcs /\ to \notin {"none", "addStore", "reStore"} /\ to \notin Adding
      BY DEF Pcs, Adding
    <3> HIDE DEF to
    <3>3. x \in Coroutine /\ x.pc = to
      BY <1>3, <3>2 DEF Coroutine
    <3> HIDE DEF x
    <3>4. Fresh(x, head[m])
      BY <3>2, <3>3 DEF Fresh
    <3> QED
      BY <3>1, <3>2, <3>3, <3>4
  <2>6. CASE GitFails(m, k)
    <3> DEFINE x == [b EXCEPT !.pc = "dead"]
    <3>1. bg' = [bg EXCEPT ![m][k] = x]
      BY <2>0, <2>6 DEF GitFails
    <3>2. x \in Coroutine /\ x.pc = "dead"
      BY <1>3 DEF Coroutine, Pcs
    <3> QED
      BY <3>1, <3>2 DEF Adding, Fresh
  <2> QED
    BY <2>1, <2>2, <2>3, <2>4, <2>5, <2>6
<1>5. Becomes(m, k, x)
  BY <1>4, ExceptBecomes
<1>6. Single(m)' => Single(m)
  BY <1>1, <1>4, <1>5 DEF Single, Becomes
<1>7. TypeOK'
  <2>1. (\A n \in Merchants : Single(n) => Len(index[n]) <= 1)'
    BY <1>1, <1>5, <1>6, OnceStays, Parts DEF Becomes
  <2> QED
    BY <1>1, <1>5, <2>1 DEF TypeOK, Becomes
<1>8. MerchantInv(m)'
  <2>1. \A j \in Loads : /\ bg'[m][j].pc # "none" => m \in repos
                         /\ bg'[m][j].pc \in Adding /\ Single(m)' => index[m] = <<>>
                         /\ Fresh(bg'[m][j], head[m])
    BY <1>2, <1>4, <1>5, <1>6 DEF Becomes, MerchantInv, Loading, GoodsAfterLabel
  <2> QED
    BY <1>1, <1>2, <2>1 DEF MerchantInv, Loading, Untouched, GoodsAfterLabel, Fresh, Range
<1> QED
  BY <1>1, <1>5, <1>7, <1>8, OthersStay DEF Becomes

\* A step that writes the index keeps the invariant: the first time the index
\* is empty, or others have added goods to it, later it is replaced.
LEMMA WritingStep ==
  ASSUME ReposInv, NEW m \in Merchants, NEW k \in Loads, AddMerchant(m, k) \/ ReloadMerchant(m, k)
  PROVE  ReposInv'
<1> USE DEF ReposInv, At, Goto
<1> DEFINE b == bg[m][k]
           x == [b EXCEPT !.pc = "sleep"]
<1>1. /\ UNCHANGED <<known, approving, head, pushes, repos, restarts>>
      /\ snap' = [snap EXCEPT ![m] = b.seen]
      /\ returned' = IF b.back THEN returned \cup {m} ELSE returned \ {m}
      /\ bg' = [bg EXCEPT ![m][k] = x]
      /\ b.pc \in {"addStore", "reStore"}
  BY DEF AddMerchant, ReloadMerchant, Label, disk, TypeOK
<1>2. /\ b \in Coroutine /\ Fresh(b, head[m]) /\ index[m] \in Seq(Commits) /\ b.goods \in Commits
      /\ b.seen \in Maybe /\ (Single(m) => Len(index[m]) <= 1)
  BY <1>1, Parts DEF MerchantInv, GoodsAfterLabel, Fresh, Maybe
<1>3. x \in Coroutine /\ x.pc = "sleep"
  BY <1>2 DEF Coroutine, Pcs
<1> HIDE DEF x
<1>4. Becomes(m, k, x)
  BY <1>1, <1>3, ExceptBecomes
<1>5. Single(m)' => Single(m)
  BY <1>1, <1>3, <1>4 DEF Single, Becomes
<1>6. PICK s \in Seq(Commits) : /\ index' = [index EXCEPT ![m] = s] /\ b.goods \in Range(s)
                                /\ Single(m) => Len(s) <= 1
  <2>1. CASE AddMerchant(m, k)
    <3>1. Single(m) => index[m] = <<>>
      BY <2>1 DEF AddMerchant, MerchantInv, Loading, Adding
    <3> DEFINE new == Append(index[m], b.goods)
    <3>2. index' = [index EXCEPT ![m] = new]
      BY <2>1 DEF AddMerchant
    <3>3. new \in Seq(Commits) /\ b.goods \in Range(new) /\ (index[m] = <<>> => Len(new) = 1)
      BY <1>2, One
    <3>4. Single(m) => Len(new) <= 1
      BY <3>1, <3>3
    <3> HIDE DEF new
    <3> QED
      BY <3>2, <3>3, <3>4, Zenon
  <2>2. CASE ReloadMerchant(m, k)
    <3> DEFINE new == <<b.goods>>
    <3>1. index' = [index EXCEPT ![m] = new]
      BY <2>2 DEF ReloadMerchant
    <3>2. new \in Seq(Commits) /\ b.goods \in Range(new) /\ Len(new) = 1
      BY <1>2, One
    <3>3. Single(m) => Len(new) <= 1
      BY <3>2
    <3> HIDE DEF new
    <3> QED
      BY <3>1, <3>2, <3>3, Zenon
  <2> QED
    BY <2>1, <2>2
<1>7. index'[m] = s /\ snap'[m] = b.seen /\ \A n \in Merchants \ {m} : index'[n] = index[n] /\ snap'[n] = snap[n]
  BY <1>1, <1>6 DEF TypeOK
<1>8. TypeOK'
  <2>1. (\A n \in Merchants : Single(n) => Len(index[n]) <= 1)'
    BY <1>4, <1>5, <1>6, <1>7, OnceStays DEF Becomes
  <2> QED
    BY <1>1, <1>2, <1>4, <1>6, <2>1 DEF TypeOK, Becomes
<1>9. m \in repos /\ approving[m] = "done" /\ head[m] # NoCommit /\ m \in known
  BY <1>1 DEF MerchantInv, Loading, Untouched
<1>10. \A j \in Loads \ {k} : Single(m) => bg[m][j].pc = "none"
  BY <1>1 DEF Single
<1>11. \A j \in Loads : /\ bg'[m][j].pc \in Adding => ~Single(m)
                        /\ Fresh(bg'[m][j], head[m])
  BY <1>3, <1>4, <1>10 DEF Becomes, MerchantInv, GoodsAfterLabel, Adding, Fresh
<1>12. m \notin returned' /\ b.seen = head[m] => head[m] \in Range(s)
  BY <1>1, <1>2, <1>6 DEF Fresh
<1>13. MerchantInv(m)'
  <2>1. Loading(m)'
    BY <1>1, <1>5, <1>9, <1>11 DEF Loading
  <2>2. GoodsAfterLabel(m)'
    BY <1>1, <1>7, <1>11, <1>12 DEF GoodsAfterLabel, Fresh, Range
  <2> QED
    BY <2>1, <2>2 DEF MerchantInv
<1> QED
  BY <1>1, <1>4, <1>7, <1>8, <1>13, OthersStay DEF Becomes

\* The start of the server keeps the invariant, however often it loads a
\* repository.
LEMMA RestartStep ==
  ASSUME ReposInv, Restart
  PROVE  ReposInv'
<1>1. PICK n \in [Merchants -> Loads] :
        bg' = [m \in Merchants |-> [k \in Loads |->
                 IF m \in known /\ head[m] # NoCommit /\ k <= n[m] THEN Spawned ELSE Ended]]
  BY DEF Restart
<1>2. /\ repos' = {m \in known : head[m] # NoCommit} /\ returned' = {}
      /\ index' = [m \in Merchants |-> <<>>] /\ snap' = [m \in Merchants |-> NoCommit]
      /\ approving' = [m \in Merchants |-> "done"] /\ restarts' = restarts + 1
      /\ UNCHANGED <<known, head, pushes>>
  BY DEF Restart
<1>3. /\ bg' \in [Merchants -> [Loads -> Coroutine]]
      /\ \A m \in Merchants : \A k \in Loads :
           bg'[m][k].pc \in {"spawned", "none"} /\ (bg'[m][k].pc # "none" => m \in repos')
  BY <1>1, <1>2, NewCoroutines DEF ReposInv, TypeOK
<1>4. TypeOK'
  <2>1. <<>> \in Seq(Commits) /\ Len(<<>>) <= 1
    OBVIOUS
  <2> QED
    BY <1>2, <1>3, <2>1 DEF ReposInv, TypeOK, Maybe
<1>5. ASSUME NEW m \in Merchants PROVE MerchantInv(m)'
  BY <1>2, <1>3 DEF ReposInv, TypeOK, MerchantInv, Loading, Untouched, GoodsAfterLabel, Fresh
<1> QED
  BY <1>4, <1>5 DEF ReposInv

\* The invariant is inductive, so it always holds.
LEMMA ReposInvHolds == Spec => []ReposInv
<1>1. Init => ReposInv
  <2> SUFFICES ASSUME Init PROVE ReposInv
    OBVIOUS
  <2>1. <<>> \in Seq(Commits) /\ Len(<<>>) <= 1
    OBVIOUS
  <2>2. TypeOK
    BY <2>1, NewCoroutines DEF Init, TypeOK, Maybe
  <2>3. ASSUME NEW m \in Merchants PROVE MerchantInv(m)
    BY NewCoroutines DEF Init, MerchantInv, Loading, Untouched, GoodsAfterLabel, Fresh, Adding
  <2> QED
    BY <2>2, <2>3 DEF ReposInv
<1>2. ReposInv /\ [Next]_vars => ReposInv'
  <2> SUFFICES ASSUME ReposInv, [Next]_vars PROVE ReposInv'
    OBVIOUS
  <2>1. CASE Restart
    BY <2>1, RestartStep
  <2>2. CASE UNCHANGED vars
    <3>1. TypeOK'
      BY <2>2 DEF vars, ReposInv, TypeOK, Single
    <3>2. ASSUME NEW m \in Merchants PROVE MerchantInv(m)'
      BY <2>2, Frame DEF vars, ReposInv
    <3> QED
      BY <3>1, <3>2 DEF ReposInv
  <2>3. ASSUME NEW m \in Merchants,
               \/ Approve(m) \/ InitUser(m) \/ LoadMerchantGit(m)
               \/ (\E c \in Commits : Push(m, c))
               \/ (\E k \in Loads : Works(m, k) \/ GitFails(m, k))
        PROVE  ReposInv'
    BY <2>3, ApproveStep, InitUserStep, LoadMerchantGitStep, PushStep,
       ReadingStep, WritingStep DEF Works
  <2> QED
    BY <2>1, <2>2, <2>3 DEF Next
<1> QED
  BY <1>1, <1>2, PTL DEF Spec

-----------------------------------------------------------------------------
\* The tables, the repositories and the index have their types; no goods are
\* in the index twice, unless load_repos had the merchant twice in its vector.
THEOREM TypeCorrect == Spec => []TypeOK
BY ReposInvHolds, PTL DEF ReposInv

\* search_goods only finds goods of repositories that are loaded.
THEOREM IndexHasRepos == Spec => []IndexedIsLoaded
<1>1. ReposInv => IndexedIsLoaded
  BY DEF ReposInv, MerchantInv, Loading, IndexedIsLoaded
<1> QED
  BY <1>1, ReposInvHolds, PTL

\* When repo_push_check sees no change the goods of HEAD are in the index, and
\* no others if one coroutine follows the repository, for any number of
\* coroutines and whatever is pushed between their steps, but for a HEAD that
\* has come back to the label of other goods.
THEOREM NoChangeIsMissed == Spec => []UnchangedIsCurrent
<1>1. ReposInv => UnchangedIsCurrent
  <2> SUFFICES ASSUME ReposInv, NEW m \in Merchants \ returned, snap[m] # NoCommit, snap[m] = head[m]
               PROVE  HasHead(m)
    BY DEF UnchangedIsCurrent
  <2>1. /\ head[m] \in Range(index[m]) /\ index[m] \in Seq(Commits) /\ head[m] \in Commits
        /\ Single(m) => Len(index[m]) <= 1
    BY Parts DEF ReposInv, MerchantInv, GoodsAfterLabel, Maybe
  <2> QED
    BY <2>1, One DEF HasHead
<1> QED
  BY <1>1, ReposInvHolds, PTL

-----------------------------------------------------------------------------
(* A websocket connection *)

\* What has been given to websocket_write while the connection was there
Handled ==
  UNION {Ws!Elements(writing), Ws!Elements(channel), Ws!Elements(got), lost}

\* A call in the inbox is there once, and nobody has taken it out.
InboxOK ==
  \A i \in DOMAIN inbox :
    /\ inbox[i] \in sent \ Handled /\ handler[inbox[i]] = "none"
    /\ inbox[i] # reader
    /\ \A j \in DOMAIN inbox : inbox[i] = inbox[j] => i = j

\* The call the reader makes itself has no handler and no answer.
ReaderOK == reader # NoCall => reader \in sent \ Handled /\ handler[reader] = "none"

\* A call has no answer before its handler is done.
HandlersOK ==
  \A q \in Calls :
    /\ handler[q] # "none" => q \in sent
    /\ handler[q] \in {"posted", "running"} => q \notin Handled

\* The inductive invariant of a connection: a call that has no answer yet is
\* in one place.
WsInv ==
  /\ Ws!TypeOK /\ Handled \subseteq sent \cup noted
  /\ InboxOK /\ ReaderOK /\ HandlersOK

\* A sequence has one element, or two.
LEMMA ShortSeqs ==
  ASSUME NEW S
  PROVE  /\ \A s \in Seq(S) : Len(s) = 0 => s = <<>>
         /\ \A s \in Seq(S) : Len(s) = 1 => s[1] \in S /\ s = <<s[1]>>
<1>1. ASSUME NEW s \in Seq(S), Len(s) = 0 PROVE s = <<>>
  BY <1>1, EmptySeq
<1>2. ASSUME NEW s \in Seq(S), Len(s) = 1 PROVE s[1] \in S /\ s = <<s[1]>>
  <2>1. s[1] \in S
    BY <1>2, ElementOfSeq
  <2>2. <<s[1]>> \in Seq(S) /\ Len(<<s[1]>>) = 1 /\ <<s[1]>>[1] = s[1]
    BY <2>1
  <2> QED
    BY <1>2, <2>1, <2>2, SeqEqual
<1> QED
  BY <1>1, <1>2

\* What is accepted and has not arrived: nothing, the message that is being
\* written, or that one and one in the buffer.
LEMMA Shapes ==
  ASSUME Ws!TypeOK
  PROVE  \/ writing = <<>> /\ channel = <<>>
         \/ \E a \in Ws!Messages : writing = <<a>> /\ channel = <<>>
         \/ \E a, b \in Ws!Messages : writing = <<a>> /\ channel = <<b>>
<1>1. /\ writing \in Seq(Ws!Messages) /\ Len(writing) <= 1
      /\ channel \in Seq(Ws!Messages) /\ Len(channel) <= Len(writing)
  BY DEF Ws!TypeOK
<1>2. Len(writing) \in {0, 1} /\ Len(channel) \in {0, 1}
  <2>1. Len(writing) \in Nat /\ Len(channel) \in Nat
    BY <1>1, LenProperties
  <2>2. \A m, n \in Nat : m <= 1 /\ n <= m => m \in {0, 1} /\ n \in {0, 1}
    OBVIOUS
  <2> QED
    BY <1>1, <2>1, <2>2
<1> QED
  BY <1>1, <1>2, ShortSeqs

\* One message behind another
LEMMA Pairs ==
  ASSUME NEW S, NEW a \in S, NEW b \in S
  PROVE  /\ <<a>> \in Seq(S) /\ Len(<<a>>) = 1
         /\ <<a>> \o <<>> = <<a>> /\ <<a>> \o <<b>> = <<a, b>>
         /\ Append(<<a>>, b) = <<a, b>>
         /\ Head(<<a, b>>) = a /\ Tail(<<a, b>>) = <<b>>
         /\ Head(<<a>>) = a /\ Tail(<<a>>) = <<>>
<1>1. /\ <<a>> \in Seq(S) /\ Len(<<a>>) = 1 /\ <<b>> \in Seq(S) /\ Len(<<b>>) = 1
      /\ <<a, b>> \in Seq(S) /\ Len(<<a, b>>) = 2
      /\ <<a, b>>[1] = a /\ <<a, b>>[2] = b /\ <<a>>[1] = a /\ <<b>>[1] = b
  OBVIOUS
<1>2. <<a>> \o <<>> = <<a>>
  BY <1>1, ConcatEmptySeq
<1>3. <<a>> \o <<b>> = <<a, b>>
  <2> DEFINE s == <<a>> \o <<b>>
  <2>1. /\ s \in Seq(S) /\ Len(s) = 2
        /\ \A i \in 1..2 : s[i] = IF i <= 1 THEN <<a>>[i] ELSE <<b>>[i - 1]
    BY <1>1, ConcatProperties
  <2> HIDE DEF s
  <2>2. s[1] = a /\ s[2] = b
    BY <1>1, <2>1
  <2>3. s = <<a, b>>
    BY <1>1, <2>1, <2>2, SeqEqual
  <2> QED
    BY <2>3 DEF s
<1>4. Append(<<a>>, b) = <<a, b>>
  <2> DEFINE s == Append(<<a>>, b)
  <2>1. s \in Seq(S) /\ Len(s) = 2 /\ s[1] = a /\ s[2] = b
    BY <1>1
  <2> HIDE DEF s
  <2>2. s = <<a, b>>
    BY <1>1, <2>1, SeqEqual
  <2> QED
    BY <2>2 DEF s
<1>5. Head(<<a, b>>) = a /\ Head(<<a>>) = a
  OBVIOUS
<1>6. Tail(<<a, b>>) = <<b>>
  OBVIOUS
<1>7. Tail(<<a>>) = <<>>
  OBVIOUS
<1> QED
  BY <1>1, <1>2, <1>3, <1>4, <1>5, <1>6, <1>7

\* The messages of short sequences
LEMMA ShortElements ==
  /\ Ws!Elements(<<>>) = {}
  /\ \A a : Ws!Elements(<<a>>) = {a}
  BY DEF Ws!Elements

\* What try_send does: it is accepted in its turn, or refused because two
\* wait, or the connection is over.
LEMMA TrySendFacts ==
  ASSUME Ws!TypeOK, NEW m \in Ws!Messages, Ws!TrySend(m), UNCHANGED <<got, ended>>
  PROVE  /\ writing' \in Seq(Ws!Messages) /\ Len(writing') <= 1
         /\ channel' \in Seq(Ws!Messages) /\ Len(channel') <= Len(writing')
         /\ lost' \subseteq Ws!Messages
         /\ Handled' \subseteq Handled \cup {m}
         /\ IF ended THEN UNCHANGED <<writing, channel, lost>>
            ELSE \/ /\ Len(writing \o channel) < 2 /\ lost' = lost
                    /\ writing' \o channel' = Append(writing \o channel, m)
                 \/ /\ Len(writing \o channel) = 2 /\ lost' = lost \cup {m}
                    /\ UNCHANGED <<writing, channel>>
<1>1. /\ writing \in Seq(Ws!Messages) /\ Len(writing) <= 1
      /\ channel \in Seq(Ws!Messages) /\ Len(channel) <= Len(writing)
      /\ lost \subseteq Ws!Messages /\ ended \in BOOLEAN
  BY DEF Ws!TypeOK
<1>2. CASE ended
  <2>1. UNCHANGED <<writing, channel, lost>>
    BY <1>2 DEF Ws!TrySend, Ws!out
  <2> QED
    BY <1>1, <1>2, <2>1 DEF Handled
<1>3. CASE ~ended /\ writing = <<>>
  <2>1. channel = <<>>
    BY <1>3, Shapes
  <2>2. writing' = <<m>> /\ channel' = <<>> /\ lost' = lost
    BY <1>3, <2>1 DEF Ws!TrySend
  <2>3. /\ writing \o channel = <<>> /\ writing' \o channel' = <<m>>
        /\ Append(<<>>, m) = <<m>> /\ Len(<<>>) = 0 /\ Len(<<m>>) = 1
        /\ <<m>> \in Seq(Ws!Messages)
    BY <1>3, <2>1, <2>2
  <2>4. Handled' \subseteq Handled \cup {m}
    BY <2>2, ShortElements DEF Handled
  <2> QED
    BY <1>1, <1>3, <2>1, <2>2, <2>3, <2>4
<1>4. CASE ~ended /\ writing # <<>> /\ channel = <<>>
  <2>1. PICK a \in Ws!Messages : writing = <<a>>
    BY <1>4, Shapes
  <2>2. writing' = <<a>> /\ channel' = <<m>> /\ lost' = lost
    BY <1>4, <2>1 DEF Ws!TrySend
  <2>3. /\ writing \o channel = <<a>> /\ writing' \o channel' = <<a, m>>
        /\ Append(<<a>>, m) = <<a, m>> /\ Len(<<a>>) = 1 /\ Len(<<m>>) = 1
        /\ <<a>> \in Seq(Ws!Messages) /\ <<m>> \in Seq(Ws!Messages)
    BY <1>4, <2>1, <2>2, Pairs
  <2>4. Handled' \subseteq Handled \cup {m}
    BY <2>1, <2>2, ShortElements DEF Handled
  <2> QED
    BY <1>1, <1>4, <2>1, <2>2, <2>3, <2>4
<1>5. CASE ~ended /\ writing # <<>> /\ channel # <<>>
  <2>1. PICK a, b \in Ws!Messages : writing = <<a>> /\ channel = <<b>>
    BY <1>5, Shapes
  <2>2. UNCHANGED <<writing, channel>> /\ lost' = lost \cup {m}
    BY <1>5 DEF Ws!TrySend
  <2>3. Len(writing \o channel) = 2
    BY <2>1
  <2>4. Handled' \subseteq Handled \cup {m}
    BY <2>2 DEF Handled
  <2> QED
    BY <1>1, <1>5, <2>2, <2>3, <2>4
<1> QED
  BY <1>2, <1>3, <1>4, <1>5

\* The rest of a sequence without repetitions does not have its head.
LEMMA TailFacts ==
  ASSUME NEW S, NEW s \in Seq(S), s # <<>>
  PROVE  /\ Head(s) \in S /\ Tail(s) \in Seq(S)
         /\ 1 \in DOMAIN s /\ Head(s) = s[1]
         /\ \A i \in DOMAIN Tail(s) :
              i + 1 \in DOMAIN s /\ Tail(s)[i] = s[i + 1] /\ i + 1 # 1
<1>1. /\ Head(s) \in S /\ Tail(s) \in Seq(S) /\ Len(Tail(s)) = Len(s) - 1
      /\ \A i \in 1..Len(Tail(s)) : Tail(s)[i] = s[i + 1]
  BY HeadTailProperties
<1>2. Len(s) \in Nat \ {0} /\ DOMAIN s = 1..Len(s) /\ DOMAIN Tail(s) = 1..Len(Tail(s))
  BY <1>1, EmptySeq, LenProperties
<1>3. Head(s) = s[1]
  OBVIOUS
<1> QED
  BY <1>1, <1>2, <1>3

\* What the client receives is what was written.
LEMMA WrittenFacts ==
  ASSUME Ws!TypeOK, Ws!Written
  PROVE  /\ got' \in Seq(Ws!Messages) /\ got' = Append(got, Head(writing \o channel))
         /\ writing' \in Seq(Ws!Messages) /\ Len(writing') <= 1 /\ channel' = <<>>
         /\ writing \o channel # <<>>
         /\ writing' \o channel' = Tail(writing \o channel)
         /\ Handled' = Handled
<1>1. /\ writing # <<>> /\ got' = got \o writing /\ writing' = channel
      /\ channel' = <<>> /\ lost' = lost /\ got \in Seq(Ws!Messages)
  BY DEF Ws!Written, Ws!TypeOK
<1>2. PICK a \in Ws!Messages : writing = <<a>>
  BY <1>1, Shapes
<1>3. /\ got \o <<a>> = Append(got, a) /\ Append(got, a) \in Seq(Ws!Messages)
      /\ Ws!Elements(Append(got, a)) = Ws!Elements(got) \cup {a}
  <2>1. got \o <<a>> = Append(got, a) /\ Append(got, a) \in Seq(Ws!Messages)
    BY <1>1, AppendIsConcat, AppendProperties
  <2>2. /\ Len(Append(got, a)) = Len(got) + 1 /\ Len(got) \in Nat
        /\ \A i \in 1..Len(got) : Append(got, a)[i] = got[i]
        /\ Append(got, a)[Len(got) + 1] = a
    BY <1>1
  <2>3. \A i \in 1..(Len(got) + 1) : i \in 1..Len(got) \/ i = Len(got) + 1
    BY <2>2
  <2>4. Ws!Elements(Append(got, a)) \subseteq Ws!Elements(got) \cup {a}
    BY <2>2, <2>3 DEF Ws!Elements
  <2>5. 1..Len(got) \subseteq 1..(Len(got) + 1) /\ Len(got) + 1 \in 1..(Len(got) + 1)
    BY <2>2
  <2>6. Ws!Elements(got) \cup {a} \subseteq Ws!Elements(Append(got, a))
    BY <2>2, <2>5 DEF Ws!Elements
  <2> QED
    BY <2>1, <2>4, <2>6
<1>4. Handled' = Handled
  <2>1. /\ Ws!Elements(writing') = Ws!Elements(channel) /\ Ws!Elements(channel') = {}
        /\ Ws!Elements(got') = Ws!Elements(got) \cup {a} /\ Ws!Elements(writing) = {a}
    BY <1>1, <1>2, <1>3, ShortElements
  <2> QED
    BY <1>1, <2>1 DEF Handled
<1>5. CASE channel = <<>>
  <2>1. writing \o channel = <<a>> /\ Head(<<a>>) = a /\ Tail(<<a>>) = <<>>
    BY <1>2, <1>5, Pairs
  <2>2. <<>> \o <<>> = <<>> /\ <<>> \in Seq(Ws!Messages) /\ Len(<<>>) = 0 /\ <<a>> # <<>>
    OBVIOUS
  <2> QED
    BY <1>1, <1>2, <1>3, <1>4, <1>5, <2>1, <2>2
<1>6. CASE channel # <<>>
  <2>1. PICK b \in Ws!Messages : channel = <<b>>
    BY <1>6, Shapes
  <2>2. /\ writing \o channel = <<a, b>> /\ Head(<<a, b>>) = a /\ Tail(<<a, b>>) = <<b>>
        /\ <<b>> \o <<>> = <<b>> /\ <<b>> \in Seq(Ws!Messages) /\ Len(<<b>>) = 1
    BY <1>2, <2>1, Pairs
  <2>3. <<a, b>> # <<>>
    OBVIOUS
  <2>4. writing' = <<b>> /\ channel' = <<>> /\ got' = Append(got, a)
    BY <1>1, <1>2, <1>3, <2>1
  <2>5. writing' \o channel' = Tail(writing \o channel) /\ writing \o channel # <<>>
    BY <2>2, <2>3, <2>4
  <2>6. got' = Append(got, Head(writing \o channel)) /\ got' \in Seq(Ws!Messages)
    BY <1>3, <2>2, <2>4
  <2> QED
    BY <1>4, <2>2, <2>4, <2>5, <2>6
<1> QED
  BY <1>5, <1>6

\* A step of do_ws_read, of a handler or of another connection that ends in
\* websocket_write(m), where m is a message that waits nowhere any more.
LEMMA SendStep ==
  ASSUME WsInv, NEW m \in Ws!Messages, Ws!TrySend(m), UNCHANGED <<window, sent, got, ended>>,
         m \in sent \cup noted', noted \subseteq noted', noted' \subseteq Notes,
         session' \in BOOLEAN, inbox' \in Seq(Calls), reader' \in Calls \cup {NoCall},
         handler' \in [Calls -> Ws!HandlerStates],
         \A i \in DOMAIN inbox' :
           /\ inbox'[i] \in sent \ Handled /\ inbox'[i] # m
           /\ handler'[inbox'[i]] = "none" /\ inbox'[i] # reader'
           /\ \A j \in DOMAIN inbox' : inbox'[i] = inbox'[j] => i = j,
         reader' # NoCall => /\ reader' \in sent \ Handled /\ reader' # m
                             /\ handler'[reader'] = "none",
         \A q \in Calls : /\ handler'[q] # "none" => q \in sent
                          /\ handler'[q] \in {"posted", "running"} =>
                               q \notin Handled /\ q # m
  PROVE  WsInv'
<1>1. /\ writing' \in Seq(Ws!Messages) /\ Len(writing') <= 1
      /\ channel' \in Seq(Ws!Messages) /\ Len(channel') <= Len(writing')
      /\ lost' \subseteq Ws!Messages /\ Handled' \subseteq Handled \cup {m}
  BY TrySendFacts DEF WsInv
<1>2. Ws!TypeOK'
  BY <1>1 DEF WsInv, Ws!TypeOK
<1>3. Handled' \subseteq sent' \cup noted'
  BY <1>1 DEF WsInv
<1>4. InboxOK' /\ ReaderOK' /\ HandlersOK'
  BY <1>1 DEF InboxOK, ReaderOK, HandlersOK
<1> QED
  BY <1>2, <1>3, <1>4 DEF WsInv

\* A step in which nothing is sent and what was handled stays, or is gone.
LEMMA QuietStep ==
  ASSUME WsInv, Ws!TypeOK', Handled' \subseteq Handled, sent \subseteq sent', noted' = noted,
         InboxOK', ReaderOK', HandlersOK'
  PROVE  WsInv'
  BY DEF WsInv

\* Every step keeps the invariant of a connection.
LEMMA WsStep ==
  ASSUME Ws!ConstantsAssumption, WsInv, [Ws!Next]_(Ws!vars)
  PROVE  WsInv'
<1>1. /\ Ws!TypeOK /\ InboxOK /\ ReaderOK /\ HandlersOK
      /\ Handled \subseteq sent \cup noted
  BY DEF WsInv
<1>2. /\ inbox \in Seq(Calls) /\ sent \subseteq Calls /\ reader \in Calls \cup {NoCall}
      /\ handler \in [Calls -> Ws!HandlerStates] /\ noted \subseteq Notes
      /\ session \in BOOLEAN /\ DOMAIN inbox = 1..Len(inbox)
      /\ \A i \in DOMAIN inbox : inbox[i] \in Calls
  BY <1>1, LenProperties, ElementOfSeq DEF Ws!TypeOK
<1>3. Calls \cap Notes = {} /\ NoCall \notin Calls /\ Ws!Messages = Calls \cup Notes
  BY DEF Ws!ConstantsAssumption, Ws!Messages
<1>4. CASE UNCHANGED Ws!vars
  <2>1. UNCHANGED <<window, sent, inbox, session, reader, handler, writing, channel, got,
                    lost, noted, ended>>
    BY <1>4 DEF Ws!vars
  <2>2. Handled' = Handled
    BY <2>1 DEF Handled
  <2> QED
    BY <1>1, <2>1, <2>2 DEF WsInv, InboxOK, ReaderOK, HandlersOK, Ws!TypeOK
<1>5. ASSUME NEW q \in Calls, Ws!ClientSends(q) PROVE WsInv'
  <2>1. /\ q \notin sent /\ sent' = sent \cup {q} /\ inbox' = Append(inbox, q)
        /\ UNCHANGED <<window, session, reader, handler, writing, channel, lost, got,
                       noted, ended>>
    BY <1>5 DEF Ws!ClientSends, Ws!out
  <2>2. Handled' = Handled /\ q \notin Handled
    BY <1>1, <1>2, <1>3, <2>1 DEF Handled
  <2>3. handler[q] = "none" /\ q # reader
    BY <1>1, <1>3, <2>1 DEF HandlersOK, ReaderOK
  <2>4. /\ inbox' \in Seq(Calls) /\ DOMAIN inbox' = 1..(Len(inbox) + 1)
        /\ Len(inbox) \in Nat /\ \A i \in 1..Len(inbox) : inbox'[i] = inbox[i]
        /\ inbox'[Len(inbox) + 1] = q
    BY <1>2, <2>1, AppendProperties, LenProperties
  <2>5. \A i \in DOMAIN inbox' : i \in DOMAIN inbox \/ i = Len(inbox) + 1
    BY <1>2, <2>4
  <2>6. \A i \in DOMAIN inbox : inbox[i] \in sent \ Handled /\ inbox[i] # q
    BY <1>1, <2>1 DEF InboxOK
  <2>7. InboxOK'
    <3> SUFFICES ASSUME NEW i \in DOMAIN inbox'
                 PROVE  /\ inbox'[i] \in sent' \ Handled' /\ handler'[inbox'[i]] = "none"
                        /\ inbox'[i] # reader'
                        /\ \A j \in DOMAIN inbox' : inbox'[i] = inbox'[j] => i = j
      BY DEF InboxOK
    <3>1. CASE i \in DOMAIN inbox
      <4>1. inbox'[i] = inbox[i]
        BY <1>2, <2>4, <3>1
      <4> QED
        BY <1>1, <1>2, <2>1, <2>2, <2>4, <2>5, <2>6, <3>1, <4>1 DEF InboxOK
    <3>2. CASE i = Len(inbox) + 1
      BY <1>2, <2>1, <2>2, <2>3, <2>4, <2>5, <2>6, <3>2
    <3> QED
      BY <2>5, <3>1, <3>2
  <2>8. Ws!TypeOK'
    BY <1>1, <2>1, <2>4 DEF Ws!TypeOK
  <2>9. ReaderOK' /\ HandlersOK'
    BY <1>1, <2>1, <2>2 DEF ReaderOK, HandlersOK
  <2> QED
    BY <2>1, <2>2, <2>7, <2>8, <2>9, QuietStep
<1>6. ASSUME inbox # <<>>
      PROVE  /\ Head(inbox) \in Calls /\ Tail(inbox) \in Seq(Calls)
             /\ Head(inbox) \in sent \ Handled /\ handler[Head(inbox)] = "none"
             /\ Head(inbox) # reader
             /\ \A i \in DOMAIN Tail(inbox) :
                  /\ Tail(inbox)[i] \in sent \ Handled /\ Tail(inbox)[i] # Head(inbox)
                  /\ handler[Tail(inbox)[i]] = "none" /\ Tail(inbox)[i] # reader
                  /\ \A j \in DOMAIN Tail(inbox) : Tail(inbox)[i] = Tail(inbox)[j] => i = j
  <2>1. /\ Head(inbox) \in Calls /\ Tail(inbox) \in Seq(Calls)
        /\ 1 \in DOMAIN inbox /\ Head(inbox) = inbox[1]
        /\ \A i \in DOMAIN Tail(inbox) :
             i + 1 \in DOMAIN inbox /\ Tail(inbox)[i] = inbox[i + 1] /\ i + 1 # 1
    BY <1>2, <1>6, TailFacts
  <2>2. DOMAIN Tail(inbox) \subseteq Int
    BY <2>1, LenProperties
  <2> QED
    BY <1>1, <2>1, <2>2 DEF InboxOK
<1>7. CASE Ws!ReadCall
  <2> DEFINE q == Head(inbox)
  <2>1. /\ inbox # <<>> /\ reader = NoCall /\ inbox' = Tail(inbox)
        /\ handler' = [handler EXCEPT ![q] = "posted"]
        /\ UNCHANGED <<window, sent, session, reader, writing, channel, lost, got,
                       noted, ended>>
    BY <1>7 DEF Ws!ReadCall, Ws!out
  <2>2. Handled' = Handled
    BY <2>1 DEF Handled
  <2>3. /\ handler' \in [Calls -> Ws!HandlerStates] /\ handler'[q] = "posted"
        /\ \A x \in Calls \ {q} : handler'[x] = handler[x]
    BY <1>2, <1>6, <2>1 DEF Ws!HandlerStates
  <2>4. InboxOK'
    BY <1>2, <1>6, <2>1, <2>2, <2>3 DEF InboxOK
  <2>5. ReaderOK' /\ HandlersOK'
    BY <1>1, <1>6, <2>1, <2>2, <2>3 DEF ReaderOK, HandlersOK
  <2>6. Ws!TypeOK'
    BY <1>1, <1>6, <2>1, <2>3 DEF Ws!TypeOK
  <2> QED
    BY <2>1, <2>2, <2>4, <2>5, <2>6, QuietStep
<1>8. CASE Ws!ReadFirst
  <2>1. /\ inbox # <<>> /\ inbox' = Tail(inbox) /\ reader' = Head(inbox)
        /\ UNCHANGED <<window, sent, session, handler, writing, channel, lost, got,
                       noted, ended>>
    BY <1>8 DEF Ws!ReadFirst, Ws!out
  <2>2. Handled' = Handled
    BY <2>1 DEF Handled
  <2>3. InboxOK' /\ ReaderOK' /\ HandlersOK'
    BY <1>1, <1>6, <2>1, <2>2 DEF InboxOK, ReaderOK, HandlersOK
  <2>4. Ws!TypeOK'
    BY <1>1, <1>6, <2>1 DEF Ws!TypeOK
  <2> QED
    BY <2>1, <2>2, <2>3, <2>4, QuietStep
<1>9. CASE Ws!ReadInvalid
  <2> DEFINE q == Head(inbox)
  <2>1. /\ inbox # <<>> /\ inbox' = Tail(inbox) /\ reader = NoCall /\ Ws!TrySend(q)
        /\ UNCHANGED <<window, sent, session, reader, handler, got, noted, ended>>
    BY <1>9 DEF Ws!ReadInvalid
  <2> QED
    BY <1>1, <1>2, <1>3, <1>6, <2>1, SendStep DEF HandlersOK
<1>10. CASE Ws!FirstReplies
  <2>1. /\ reader # NoCall /\ session' \in BOOLEAN /\ Ws!TrySend(reader)
        /\ reader' = NoCall
        /\ UNCHANGED <<window, sent, inbox, handler, got, noted, ended>>
    BY <1>10 DEF Ws!FirstReplies
  <2>2. reader \in Calls /\ reader \in sent \ Handled /\ handler[reader] = "none"
    BY <1>1, <1>2, <2>1 DEF ReaderOK
  <2>3. \A i \in DOMAIN inbox : /\ inbox[i] \in sent \ Handled /\ inbox[i] # reader
                                /\ handler[inbox[i]] = "none" /\ inbox[i] # NoCall
                                /\ \A j \in DOMAIN inbox : inbox[i] = inbox[j] => i = j
    BY <1>1, <1>2, <1>3 DEF InboxOK
  <2> QED
    BY <1>1, <1>2, <1>3, <2>1, <2>2, <2>3, SendStep DEF HandlersOK
<1>11. ASSUME NEW q \in Calls, Ws!Start(q) PROVE WsInv'
  <2>1. /\ handler[q] = "posted" /\ handler' = [handler EXCEPT ![q] = "running"]
        /\ UNCHANGED <<window, sent, inbox, session, reader, writing, channel, lost, got,
                       noted, ended>>
    BY <1>11 DEF Ws!Start, Ws!out
  <2>2. Handled' = Handled
    BY <2>1 DEF Handled
  <2>3. /\ handler' \in [Calls -> Ws!HandlerStates] /\ handler'[q] = "running"
        /\ \A x \in Calls \ {q} : handler'[x] = handler[x]
    BY <1>2, <2>1 DEF Ws!HandlerStates
  <2>4. InboxOK' /\ ReaderOK' /\ HandlersOK'
    BY <1>1, <1>2, <2>1, <2>2, <2>3 DEF InboxOK, ReaderOK, HandlersOK
  <2>5. Ws!TypeOK'
    BY <1>1, <2>1, <2>3 DEF Ws!TypeOK
  <2> QED
    BY <2>1, <2>2, <2>4, <2>5, QuietStep
<1>12. ASSUME NEW q \in Calls, Ws!Reply(q) PROVE WsInv'
  <2>1. /\ handler[q] = "running" /\ handler' = [handler EXCEPT ![q] = "done"]
        /\ Ws!TrySend(q)
        /\ UNCHANGED <<window, sent, inbox, session, reader, got, noted, ended>>
    BY <1>12 DEF Ws!Reply
  <2>2. /\ handler' \in [Calls -> Ws!HandlerStates] /\ handler'[q] = "done"
        /\ \A x \in Calls \ {q} : handler'[x] = handler[x]
    BY <1>2, <2>1 DEF Ws!HandlerStates
  <2>3. q \in sent
    BY <1>1, <2>1 DEF HandlersOK
  <2>4. \A i \in DOMAIN inbox : /\ inbox[i] \in sent \ Handled /\ inbox[i] # q
                                /\ handler'[inbox[i]] = "none" /\ inbox[i] # reader
                                /\ \A j \in DOMAIN inbox : inbox[i] = inbox[j] => i = j
    BY <1>1, <1>2, <2>1, <2>2 DEF InboxOK
  <2>5. reader # NoCall => /\ reader \in sent \ Handled /\ reader # q
                           /\ handler'[reader] = "none"
    BY <1>1, <1>2, <2>1, <2>2 DEF ReaderOK
  <2>6. \A x \in Calls : /\ handler'[x] # "none" => x \in sent
                         /\ handler'[x] \in {"posted", "running"} =>
                              x \notin Handled /\ x # q
    BY <1>1, <2>2, <2>3 DEF HandlersOK
  <2> QED
    BY <1>2, <1>3, <2>1, <2>2, <2>3, <2>4, <2>5, <2>6, SendStep
<1>13. ASSUME NEW n \in Notes, Ws!Notify(n) PROVE WsInv'
  <2>1. /\ noted' = noted \cup {n} /\ Ws!TrySend(n)
        /\ UNCHANGED <<window, sent, inbox, session, reader, handler, got, ended>>
    BY <1>13 DEF Ws!Notify
  <2>2. n \in Ws!Messages /\ n \notin Calls
    BY <1>3
  <2>3. \A i \in DOMAIN inbox : /\ inbox[i] \in sent \ Handled /\ inbox[i] # n
                                /\ handler[inbox[i]] = "none" /\ inbox[i] # reader
                                /\ \A j \in DOMAIN inbox : inbox[i] = inbox[j] => i = j
    BY <1>1, <1>2, <2>2 DEF InboxOK
  <2>4. reader # NoCall => /\ reader \in sent \ Handled /\ reader # n
                           /\ handler[reader] = "none"
    BY <1>1, <1>2, <2>2 DEF ReaderOK
  <2>5. \A x \in Calls : /\ handler[x] # "none" => x \in sent
                         /\ handler[x] \in {"posted", "running"} =>
                              x \notin Handled /\ x # n
    BY <1>1, <2>2 DEF HandlersOK
  <2> QED
    BY <1>2, <2>1, <2>2, <2>3, <2>4, <2>5, SendStep
<1>14. CASE Ws!Written
  <2>1. /\ UNCHANGED <<window, sent, inbox, session, reader, handler, lost, noted, ended>>
        /\ got' \in Seq(Ws!Messages) /\ writing' \in Seq(Ws!Messages)
        /\ Len(writing') <= 1 /\ channel' = <<>> /\ Handled' = Handled
    BY <1>1, <1>14, WrittenFacts DEF Ws!Written
  <2>2. <<>> \in Seq(Ws!Messages) /\ Len(<<>>) = 0 /\ Len(writing') \in Nat
    BY <2>1, EmptySeq, LenProperties
  <2>3. Ws!TypeOK'
    BY <1>1, <2>1, <2>2 DEF Ws!TypeOK
  <2>4. InboxOK' /\ ReaderOK' /\ HandlersOK'
    BY <1>1, <2>1 DEF InboxOK, ReaderOK, HandlersOK
  <2> QED
    BY <2>1, <2>3, <2>4, QuietStep
<1>15. CASE Ws!End \/ Ws!Close
  <2>1. /\ writing' = <<>> /\ channel' = <<>> /\ inbox' = <<>> /\ reader' = NoCall
        /\ ended' = TRUE /\ UNCHANGED <<window, sent, session, got, lost, noted>>
        /\ \/ handler' = handler
           \/ handler' = [q \in Calls |-> IF handler[q] = "running" THEN "done"
                                          ELSE handler[q]]
    BY <1>15 DEF Ws!End, Ws!Close
  <2>2. /\ handler' \in [Calls -> Ws!HandlerStates]
        /\ \A q \in Calls : handler'[q] \in {handler[q], "done"}
        /\ \A q \in Calls : handler'[q] = "none" <=> handler[q] = "none"
    BY <1>2, <2>1 DEF Ws!HandlerStates
  <2>3. Handled' \subseteq Handled
    BY <2>1, ShortElements DEF Handled
  <2>4. /\ <<>> \in Seq(Ws!Messages) /\ <<>> \in Seq(Calls) /\ Len(<<>>) = 0
        /\ DOMAIN <<>> = {}
    BY EmptySeq
  <2>5. Ws!TypeOK'
    BY <1>1, <2>1, <2>2, <2>4 DEF Ws!TypeOK
  <2>6. InboxOK' /\ ReaderOK' /\ HandlersOK'
    BY <1>1, <2>1, <2>2, <2>3, <2>4 DEF InboxOK, ReaderOK, HandlersOK
  <2> QED
    BY <2>1, <2>3, <2>5, <2>6, QuietStep
<1> QED
  BY <1>4, <1>5, <1>7, <1>8, <1>9, <1>10, <1>11, <1>12, <1>13, <1>14, <1>15
     DEF Ws!Next, Ws!Server

\* What the queue has seen was given to websocket_write.
LEMMA SeenIsHandled ==
  ASSUME Ws!TypeOK, NEW m, m \notin Handled
  PROVE  m \notin Ws!Fifo!Seen
<1> DEFINE queue == writing \o channel
<1>1. \A i \in DOMAIN queue : queue[i] \in Ws!Elements(writing) \cup Ws!Elements(channel)
  <2>1. /\ Len(writing) \in Nat /\ Len(channel) \in Nat
        /\ DOMAIN queue = 1..(Len(writing) + Len(channel))
        /\ \A i \in 1..(Len(writing) + Len(channel)) :
             queue[i] = IF i <= Len(writing) THEN writing[i] ELSE channel[i - Len(writing)]
    BY ConcatProperties, LenProperties DEF Ws!TypeOK
  <2> HIDE DEF queue
  <2>2. ASSUME NEW i \in 1..(Len(writing) + Len(channel))
        PROVE  i \in 1..Len(writing) \/ (i > Len(writing) /\ i - Len(writing) \in 1..Len(channel))
    BY <2>1, <2>2
  <2>3. ASSUME NEW i \in DOMAIN queue
        PROVE  queue[i] \in Ws!Elements(writing) \cup Ws!Elements(channel)
    <3>1. CASE i \in 1..Len(writing)
      <4>1. queue[i] = writing[i]
        BY <2>1, <3>1
      <4> QED
        BY <3>1, <4>1 DEF Ws!Elements
    <3>2. CASE i > Len(writing) /\ i - Len(writing) \in 1..Len(channel)
      <4>1. queue[i] = channel[i - Len(writing)]
        BY <2>1, <3>2
      <4> QED
        BY <3>2, <4>1 DEF Ws!Elements
    <3> QED
      BY <2>1, <2>2, <2>3, <3>1, <3>2
  <2> QED
    BY <2>3
<1>2. \A i \in DOMAIN got : got[i] \in Ws!Elements(got)
  BY LenProperties DEF Ws!Elements, Ws!TypeOK
<1> QED
  BY <1>1, <1>2 DEF Ws!Fifo!Seen, Handled

\* A message that try_send has not seen before enters the queue in its turn or
\* is refused.
LEMMA SendRefines ==
  ASSUME Ws!TypeOK, NEW m \in Ws!Messages, m \notin Handled, Ws!TrySend(m),
         UNCHANGED <<got, ended>>
  PROVE  [Ws!Fifo!Next]_(Ws!Fifo!vars)
<1>1. m \notin Ws!Fifo!Seen
  BY SeenIsHandled
<1>2. CASE ended
  BY <1>2, TrySendFacts DEF Ws!Fifo!vars
<1>3. CASE ~ended
  <2>1. \/ /\ Len(writing \o channel) < 2 /\ lost' = lost
           /\ writing' \o channel' = Append(writing \o channel, m)
        \/ /\ Len(writing \o channel) = 2 /\ lost' = lost \cup {m}
           /\ UNCHANGED <<writing, channel>>
    BY <1>3, TrySendFacts
  <2>2. Ws!Fifo!Accept(m) \/ Ws!Fifo!Refuse(m)
    BY <1>1, <1>3, <2>1 DEF Ws!Fifo!Accept, Ws!Fifo!Refuse
  <2> QED
    BY <2>2 DEF Ws!Fifo!Next
<1> QED
  BY <1>2, <1>3

\* Every step of a connection is a step of the queue, or none.
LEMMA WsRefines ==
  ASSUME Ws!ConstantsAssumption, WsInv, [Ws!Next]_(Ws!vars)
  PROVE  [Ws!Fifo!Next]_(Ws!Fifo!vars)
<1>1. /\ Ws!TypeOK /\ InboxOK /\ ReaderOK /\ HandlersOK
      /\ Handled \subseteq sent \cup noted
      /\ Ws!Messages = Calls \cup Notes /\ Calls \cap Notes = {}
  BY DEF WsInv, Ws!ConstantsAssumption, Ws!Messages
<1>2. CASE UNCHANGED <<writing, channel, got, lost, ended>>
  BY <1>2 DEF Ws!Fifo!vars
<1>3. \/ UNCHANGED Ws!vars \/ (\E q \in Calls : Ws!ClientSends(q) \/ Ws!Start(q))
      \/ Ws!ReadCall \/ Ws!ReadFirst
      => UNCHANGED <<writing, channel, got, lost, ended>>
  BY DEF Ws!vars, Ws!ClientSends, Ws!Start, Ws!ReadCall, Ws!ReadFirst, Ws!out
<1>4. CASE Ws!ReadInvalid
  <2>1. /\ inbox # <<>> /\ Ws!TrySend(Head(inbox)) /\ UNCHANGED <<got, ended>>
    BY <1>4 DEF Ws!ReadInvalid
  <2>2. /\ Head(inbox) \in Calls /\ 1 \in DOMAIN inbox /\ Head(inbox) = inbox[1]
    BY <1>1, <2>1, TailFacts DEF Ws!TypeOK
  <2>3. Head(inbox) \notin Handled
    BY <1>1, <2>2 DEF InboxOK
  <2> QED
    BY <1>1, <2>1, <2>2, <2>3, SendRefines
<1>5. CASE Ws!FirstReplies
  <2>1. reader # NoCall /\ Ws!TrySend(reader) /\ UNCHANGED <<got, ended>>
    BY <1>5 DEF Ws!FirstReplies
  <2>2. reader \in Calls /\ reader \notin Handled
    BY <1>1, <2>1 DEF ReaderOK, Ws!TypeOK
  <2> QED
    BY <1>1, <2>1, <2>2, SendRefines
<1>6. ASSUME NEW q \in Calls, Ws!Reply(q) PROVE [Ws!Fifo!Next]_(Ws!Fifo!vars)
  <2>1. handler[q] = "running" /\ Ws!TrySend(q) /\ UNCHANGED <<got, ended>>
    BY <1>6 DEF Ws!Reply
  <2>2. q \notin Handled
    BY <1>1, <2>1 DEF HandlersOK
  <2> QED
    BY <1>1, <2>1, <2>2, SendRefines
<1>7. ASSUME NEW n \in Notes, Ws!Notify(n) PROVE [Ws!Fifo!Next]_(Ws!Fifo!vars)
  <2>1. n \notin noted /\ Ws!TrySend(n) /\ UNCHANGED <<got, ended>>
    BY <1>7 DEF Ws!Notify
  <2>2. n \notin Handled
    BY <1>1, <2>1 DEF Ws!TypeOK
  <2> QED
    BY <1>1, <2>1, <2>2, SendRefines
<1>8. CASE Ws!Written
  <2>1. /\ got' = Append(got, Head(writing \o channel))
        /\ writing \o channel # <<>> /\ writing' \o channel' = Tail(writing \o channel)
        /\ ~ended /\ UNCHANGED <<lost, ended>>
    BY <1>1, <1>8, WrittenFacts DEF Ws!Written
  <2>2. Ws!Fifo!Arrive
    BY <2>1 DEF Ws!Fifo!Arrive
  <2> QED
    BY <2>2 DEF Ws!Fifo!Next
<1>9. CASE Ws!End \/ Ws!Close
  <2>1. writing' = <<>> /\ channel' = <<>> /\ ended' = TRUE /\ UNCHANGED <<got, lost>>
    BY <1>9 DEF Ws!End, Ws!Close
  <2>2. writing' \o channel' = <<>>
    BY <2>1
  <2>3. Ws!Fifo!End
    BY <2>1, <2>2 DEF Ws!Fifo!End
  <2> QED
    BY <2>3 DEF Ws!Fifo!Next
<1> QED
  BY <1>2, <1>3, <1>4, <1>5, <1>6, <1>7, <1>8, <1>9 DEF Ws!Next, Ws!Server

\* The invariant of a connection holds in every reachable state.
LEMMA WsInvariant == Ws!ConstantsAssumption /\ Ws!Spec => []WsInv
<1> SUFFICES ASSUME Ws!ConstantsAssumption PROVE Ws!Spec => []WsInv
  OBVIOUS
<1>1. Ws!Init => WsInv
  <2> SUFFICES ASSUME Ws!Init PROVE WsInv
    OBVIOUS
  <2>1. /\ <<>> \in Seq(Ws!Messages) /\ <<>> \in Seq(Calls) /\ Len(<<>>) = 0
        /\ DOMAIN <<>> = {}
    BY EmptySeq
  <2>2. Ws!TypeOK
    <3>1. Len(writing) = 0 /\ Len(channel) = 0
      BY <2>1 DEF Ws!Init
    <3>2. /\ writing \in Seq(Ws!Messages) /\ channel \in Seq(Ws!Messages)
          /\ got \in Seq(Ws!Messages) /\ inbox \in Seq(Calls)
      BY <2>1 DEF Ws!Init
    <3>3. handler \in [Calls -> Ws!HandlerStates]
      BY DEF Ws!Init, Ws!HandlerStates
    <3>4. Len(writing) <= 1 /\ Len(channel) <= Len(writing)
      BY <3>1
    <3> QED
      BY <3>2, <3>3, <3>4 DEF Ws!Init, Ws!TypeOK
  <2>3. Handled = {}
    BY ShortElements DEF Ws!Init, Handled
  <2> QED
    BY <2>1, <2>2, <2>3 DEF Ws!Init, WsInv, InboxOK, ReaderOK, HandlersOK
<1>2. WsInv /\ [Ws!Next]_(Ws!vars) => WsInv'
  BY WsStep
<1> QED
  BY <1>1, <1>2, PTL DEF Ws!Spec

\* do_ws_read, do_ws_write and the handlers around message_channel implement
\* LossyFifo: messages arrive in the order they were accepted in, each at most
\* once, and one is refused only while two others wait, for any number of
\* calls in flight and notifications of other connections.
THEOREM ConnectionIsAFifo == Ws!Spec => FifoSpec
<1> USE ServicesAssumption
<1>1. Ws!Init => Ws!Fifo!Init
  BY DEF Ws!Init, Ws!Fifo!Init
<1>2. WsInv /\ [Ws!Next]_(Ws!vars) => [Ws!Fifo!Next]_(Ws!Fifo!vars)
  BY WsRefines
<1>3. Ws!Spec => []WsInv
  BY WsInvariant
<1> QED
  BY <1>1, <1>2, <1>3, PTL DEF Ws!Spec, FifoSpec, Ws!FifoSpec, Ws!Fifo!Spec

-----------------------------------------------------------------------------
(* The configuration of WeChat payment *)

\* The rows that one transaction inserts
Batch(c, b) == {[field |-> f, call |-> c, batch |-> b] : f \in Fields}

\* A set of rows has all rows of a transaction, or none.
Whole(S) ==
  /\ S \subseteq Wx!Row /\ IsFiniteSet(S)
  /\ \A x \in S : Batch(x.call, x.batch) \subseteq S

\* They are the rows of one transaction.
OneBatch(S) == \A x \in S : S = Batch(x.call, x.batch)

\* Whatever a DELETE or a load has seen, and what is in the table, is whole.
RowsWhole ==
  /\ Whole(rows) /\ \A r \in Reqs : Whole(req[r].seen)
  /\ \A x \in rows : x.batch <= batches
  /\ \A x, y \in rows : x.batch = y.batch => x.call = y.call

\* A set that is alone deletes all rows.
AloneSeesAll ==
  \A r \in Reqs : Wx!Setting(r) /\ req[r].alone =>
    req[r].seen = rows /\ \A q \in Reqs : Wx!Setting(q) => q = r

\* A service has the configuration of the rows.
Served ==
  OneBatch(rows) /\ \A x \in rows : services[AppOf[x.call]] = [f \in Fields |-> x.call]

\* As long as nothing overlapped or failed there is one handler, on its way
\* from the DELETE to the service.
SureOfRows ==
  ~unsure =>
    /\ \A q, r \in Reqs : req[q].pc # "idle" /\ req[r].pc # "idle" => q = r
    /\ \A r \in Reqs :
         /\ Wx!Setting(r) => req[r].alone
         /\ req[r].pc = "load" => OneBatch(rows)
         /\ req[r].pc = "apply" => req[r].seen = rows /\ ~req[r].twice /\ OneBatch(rows)
    /\ up /\ (\A r \in Reqs : req[r].pc = "idle") => Served

\* The inductive invariant of the configuration
WxInv ==
  /\ Wx!TypeOK /\ RowsWhole /\ AloneSeesAll /\ SureOfRows
  /\ Wx!NoMixture /\ Wx!OnceUnlessCrowded

\* The operators on finite sets that WxConfig uses
LEMMA SameFinite ==
  ASSUME NEW S
  PROVE  (Wx!IsFiniteSet(S) <=> IsFiniteSet(S)) /\ Wx!Cardinality(S) = Cardinality(S)
<1>1. Wx!IsFiniteSet(S) <=> IsFiniteSet(S)
  BY DEF Wx!IsFiniteSet, IsFiniteSet
<1>2. Wx!Cardinality(S) = Cardinality(S)
  BY DEF Wx!Cardinality, Cardinality
<1> QED
  BY <1>1, <1>2

\* The rows of a transaction are as many as there are names.
LEMMA BatchFacts ==
  ASSUME Wx!ConstantsAssumption, NEW c \in Details, NEW b \in Nat
  PROVE  /\ Batch(c, b) \subseteq Wx!Row /\ Batch(c, b) # {}
         /\ IsFiniteSet(Batch(c, b)) /\ Cardinality(Batch(c, b)) = Cardinality(Fields)
         /\ \A x \in Batch(c, b) : x.call = c /\ x.batch = b
         /\ \A x, y \in Batch(c, b) : x.field = y.field => x = y
         /\ \A f \in Fields : \E x \in Batch(c, b) : x.field = f
<1> DEFINE B == Batch(c, b)
           row == [f \in Fields |-> [field |-> f, call |-> c, batch |-> b]]
<1>1. "appid" \in Fields /\ IsFiniteSet(Fields)
  BY SameFinite DEF Wx!ConstantsAssumption
<1>2. B \subseteq Wx!Row
  BY DEF Batch, Wx!Row
<1>3. /\ \A x \in B : x.call = c /\ x.batch = b
      /\ \A x, y \in B : x.field = y.field => x = y
      /\ \A f \in Fields : \E x \in B : x.field = f
  <2>1. \A f \in Fields : row[f].field = f /\ row[f].call = c /\ row[f].batch = b
    OBVIOUS
  <2>2. B = {row[f] : f \in Fields}
    BY DEF Batch
  <2> HIDE DEF row, B
  <2> QED
    BY <2>1, <2>2
<1>4. B # {}
  BY <1>1, <1>3
<1>5. /\ row \in [Fields -> B] /\ \A f, g \in Fields : row[f] = row[g] => f = g
      /\ \A x \in B : \E f \in Fields : row[f] = x
  BY DEF Batch
<1> HIDE DEF B, row
<1>6. row \in Bijection(Fields, B)
  BY <1>5 DEF Bijection, Injection, Surjection, IsInjective
<1>7. ExistsBijection(Fields, B)
  BY <1>6 DEF ExistsBijection
<1>8. IsFiniteSet(B) /\ Cardinality(B) = Cardinality(Fields)
  BY <1>1, <1>7, FS_Bijection
<1> QED
  BY <1>2, <1>3, <1>4, <1>8 DEF B

LEMMA BatchWhole ==
  ASSUME Wx!ConstantsAssumption, NEW c \in Details, NEW b \in Nat
  PROVE  Whole(Batch(c, b)) /\ OneBatch(Batch(c, b))
  BY BatchFacts DEF Whole, OneBatch

LEMMA WholeSets ==
  ASSUME NEW S, NEW T, Whole(S), Whole(T)
  PROVE  Whole(S \cap T) /\ Whole(S \cup T) /\ Whole(S \ T)
<1>1. IsFiniteSet(S \cap T) /\ IsFiniteSet(S \cup T) /\ IsFiniteSet(S \ T)
  BY FS_Intersection, FS_Union, FS_Difference DEF Whole
<1>2. ASSUME NEW x \in S \ T, NEW y \in Batch(x.call, x.batch) PROVE y \in S \ T
  <2>1. y \in S /\ x \in Wx!Row
    BY DEF Whole
  <2>2. x.field \in Fields /\ x = [field |-> x.field, call |-> x.call, batch |-> x.batch]
    BY <2>1 DEF Wx!Row
  <2>3. x \in Batch(x.call, x.batch)
    BY <2>2 DEF Batch
  <2>4. y.call = x.call /\ y.batch = x.batch
    BY DEF Batch
  <2> QED
    BY <2>1, <2>3, <2>4 DEF Whole
<1> QED
  BY <1>1, <1>2 DEF Whole

LEMMA WholeEmpty == Whole({}) /\ OneBatch({})
  BY FS_EmptySet DEF Whole, OneBatch

\* A load that finds as many rows as there are names has found the rows of one
\* call: complete == 7 is enough, for the rows of a call come and go together.
LEMMA CompleteIsOneCall ==
  ASSUME Wx!ConstantsAssumption, NEW h \in Wx!Handler, Whole(h.seen), Wx!Complete(h),
         NEW cfg \in Wx!Read(h)
  PROVE  \E c \in Details : cfg = [f \in Fields |-> c]
<1>1. "appid" \in Fields /\ cfg \in [Fields -> Details]
  BY DEF Wx!ConstantsAssumption, Wx!Read
<1>2. PICK x \in h.seen : x.field = "appid"
  BY <1>1 DEF Wx!Read
<1>3. x.call \in Details /\ x.batch \in Nat
  BY DEF Whole, Wx!Row
<1> DEFINE B == Batch(x.call, x.batch)
           n == Cardinality(Fields)
<1>4. B \subseteq h.seen /\ IsFiniteSet(h.seen)
  BY DEF Whole
<1>5. B # {} /\ IsFiniteSet(B) /\ Cardinality(B) = n /\ \A y \in B : y.call = x.call
  BY <1>3, BatchFacts
<1> HIDE DEF B
<1>6. n \in Nat /\ n # 0
  BY <1>5, FS_CardinalityType, FS_EmptySet
<1>7. Cardinality(h.seen) \in Nat /\ n <= Cardinality(h.seen)
      /\ (Cardinality(h.seen) = n => h.seen = B)
  BY <1>4, <1>5, FS_CardinalityType, FS_Subset
<1> HIDE DEF n
<1>8. Cardinality(h.seen) = n
  <2>1. (IF h.twice THEN 2 ELSE 1) * Cardinality(h.seen) = n
    BY SameFinite DEF Wx!Complete, n
  <2> QED
    BY <1>6, <1>7, <2>1
<1>9. \A f \in Fields : cfg[f] = x.call
  BY <1>5, <1>7, <1>8 DEF Wx!Read
<1> QED
  BY <1>1, <1>3, <1>9

LEMMA WxIdle ==
  ASSUME Wx!ConstantsAssumption
  PROVE  /\ Wx!Idle \in Wx!Handler /\ Wx!Idle.pc = "idle" /\ Wx!Idle.seen = {}
         /\ Wx!Idle.twice = FALSE /\ Wx!Idle.call \in Details
<1> DEFINE d == CHOOSE c \in Details : TRUE
<1>1. d \in Details
  BY DEF Wx!ConstantsAssumption
<1>2. Wx!Idle = [pc |-> "idle", call |-> d, seen |-> {}, twice |-> FALSE, alone |-> TRUE]
  BY DEF Wx!Idle
<1> HIDE DEF d
<1> QED
  BY <1>1, <1>2 DEF Wx!Handler

LEMMA WxParts ==
  ASSUME WxInv, NEW r \in Reqs
  PROVE  /\ req \in [Reqs -> Wx!Handler] /\ req[r] \in Wx!Handler
         /\ req[r].call \in Details /\ req[r].alone \in BOOLEAN
         /\ Whole(req[r].seen) /\ Whole(rows) /\ batches \in Nat
  BY DEF WxInv, Wx!TypeOK, Wx!Handler, RowsWhole

\* Handler r becomes h.
Turns(r, h) ==
  /\ req' \in [Reqs -> Wx!Handler] /\ req'[r] = h
  /\ \A q \in Reqs \ {r} : req'[q] = req[q]

LEMMA ExceptTurns ==
  ASSUME WxInv, NEW r \in Reqs, NEW h \in Wx!Handler, req' = [req EXCEPT ![r] = h]
  PROVE  Turns(r, h)
  BY WxParts DEF Turns

\* Handler r goes on, and the table stays.
LEMMA TableStays ==
  ASSUME WxInv, NEW r \in Reqs, NEW h, Turns(r, h), UNCHANGED <<rows, batches, crowded>>,
         Whole(h.seen),
         h.pc \in {"delete", "insert"} =>
           /\ Wx!Setting(r) /\ h.alone = req[r].alone
           /\ h.alone => h.seen = rows
  PROVE  RowsWhole' /\ AloneSeesAll' /\ Wx!OnceUnlessCrowded'
<1>1. RowsWhole'
  <2>1. \A q \in Reqs : Whole(req'[q].seen)
    BY DEF WxInv, RowsWhole, Turns
  <2> QED
    BY <2>1 DEF WxInv, RowsWhole, Whole
<1>2. \A q \in Reqs : req'[q].pc \in {"delete", "insert"} => Wx!Setting(q)
  BY DEF Turns, Wx!Setting
<1>3. AloneSeesAll'
  <2> SUFFICES ASSUME NEW q \in Reqs, req'[q].pc \in {"delete", "insert"}, req'[q].alone
               PROVE  /\ req'[q].seen = rows'
                      /\ \A p \in Reqs : req'[p].pc \in {"delete", "insert"} => p = q
    BY DEF AloneSeesAll, Wx!Setting
  <2>1. Wx!Setting(q) /\ req[q].alone
    BY <1>2 DEF Turns
  <2>2. req[q].seen = rows /\ \A p \in Reqs : Wx!Setting(p) => p = q
    BY <2>1 DEF WxInv, AloneSeesAll
  <2>3. req'[q].seen = rows'
    BY <2>2 DEF Turns
  <2> QED
    BY <1>2, <2>2, <2>3
<1>4. Wx!OnceUnlessCrowded'
  BY DEF WxInv, Wx!OnceUnlessCrowded
<1> QED
  BY <1>1, <1>3, <1>4

\* The one handler of a configuration that is sure goes on.
LEMMA StaysSure ==
  ASSUME WxInv, NEW r \in Reqs, NEW h, Turns(r, h), req[r].pc # "idle",
         ~unsure' =>
           /\ ~unsure
           /\ h.pc \in {"delete", "insert"} => h.alone
           /\ h.pc = "load" => OneBatch(rows')
           /\ h.pc = "apply" => h.seen = rows' /\ ~h.twice /\ OneBatch(rows')
           /\ h.pc = "idle" => Served'
  PROVE  SureOfRows'
<1> SUFFICES ASSUME ~unsure' PROVE SureOfRows'
  BY DEF SureOfRows
<1>1. ~unsure
  OBVIOUS
<1>2. \A q \in Reqs \ {r} : req'[q].pc = "idle"
  BY <1>1 DEF WxInv, SureOfRows, Turns
<1>3. \A p, q \in Reqs : req'[q].pc # "idle" /\ req'[p].pc # "idle" => q = p
  BY <1>2
<1>4. \A q \in Reqs :
        /\ req'[q].pc \in {"delete", "insert"} => req'[q].alone
        /\ req'[q].pc = "load" => OneBatch(rows')
        /\ req'[q].pc = "apply" => req'[q].seen = rows' /\ ~req'[q].twice /\ OneBatch(rows')
  BY <1>2 DEF Turns
<1>5. (\A q \in Reqs : req'[q].pc = "idle") => Served'
  BY DEF Turns
<1> QED
  BY <1>3, <1>4, <1>5 DEF SureOfRows, Wx!Setting, OneBatch

LEMMA WxErase ==
  ASSUME Wx!ConstantsAssumption, WxInv, NEW r \in Reqs, Wx!Erase(r)
  PROVE  WxInv'
<1> DEFINE q == req[r]
           h == [q EXCEPT !.pc = "insert", !.seen = q.seen \cap rows]
<1>1. q \in Wx!Handler /\ q.pc = "delete" /\ Whole(q.seen \cap rows) /\ up
  BY WxParts, WholeSets DEF Wx!Erase, WxInv, Wx!TypeOK
<1>2. /\ h \in Wx!Handler /\ h.pc = "insert" /\ h.seen = q.seen \cap rows
      /\ h.alone = q.alone
  BY <1>1 DEF Wx!Handler, Whole
<1>3. req' = [req EXCEPT ![r] = h]
  BY WxParts DEF Wx!Erase
<1> HIDE DEF h
<1>4. Turns(r, h) /\ UNCHANGED <<rows, batches, services, up, starts, crowded, unsure>>
  BY <1>2, <1>3, ExceptTurns DEF Wx!Erase
<1>5. Wx!Setting(r) /\ (q.alone => q.seen = rows) /\ (~unsure => q.alone)
  BY <1>1 DEF WxInv, AloneSeesAll, SureOfRows, Wx!Setting
<1>6. RowsWhole' /\ AloneSeesAll' /\ Wx!OnceUnlessCrowded'
  BY <1>1, <1>2, <1>4, <1>5, TableStays
<1>7. SureOfRows'
  BY <1>1, <1>2, <1>4, <1>5, StaysSure
<1>8. Wx!TypeOK' /\ Wx!NoMixture'
  BY <1>1, <1>4 DEF WxInv, Wx!TypeOK, Wx!NoMixture, Turns
<1> QED
  BY <1>6, <1>7, <1>8 DEF WxInv

LEMMA WxRepeats ==
  ASSUME Wx!ConstantsAssumption, WxInv, NEW r \in Reqs, Wx!Repeats(r)
  PROVE  WxInv'
<1> DEFINE q == req[r]
           h == [q EXCEPT !.pc = "delete", !.seen = rows]
<1>1. q \in Wx!Handler /\ Wx!Setting(r) /\ Whole(rows) /\ q.pc # "idle" /\ up
  BY WxParts DEF Wx!Repeats, Wx!Setting, WxInv, Wx!TypeOK
<1>2. h \in Wx!Handler /\ h.pc = "delete" /\ h.seen = rows /\ h.alone = q.alone
  BY <1>1 DEF Wx!Handler, Whole
<1>3. req' = [req EXCEPT ![r] = h]
  BY WxParts DEF Wx!Repeats
<1> HIDE DEF h
<1>4. Turns(r, h) /\ UNCHANGED <<rows, batches, services, up, starts, crowded, unsure>>
  BY <1>2, <1>3, ExceptTurns DEF Wx!Repeats
<1>5. ~unsure => q.alone
  BY <1>1 DEF WxInv, SureOfRows
<1>6. RowsWhole' /\ AloneSeesAll' /\ Wx!OnceUnlessCrowded'
  BY <1>1, <1>2, <1>4, TableStays
<1>7. SureOfRows'
  BY <1>1, <1>2, <1>4, <1>5, StaysSure
<1>8. Wx!TypeOK' /\ Wx!NoMixture'
  BY <1>1, <1>4 DEF WxInv, Wx!TypeOK, Wx!NoMixture, Turns
<1> QED
  BY <1>6, <1>7, <1>8 DEF WxInv

LEMMA WxGivesUp ==
  ASSUME Wx!ConstantsAssumption, WxInv, NEW r \in Reqs, Wx!GivesUp(r)
  PROVE  WxInv'
<1>1. /\ Wx!Idle \in Wx!Handler /\ Wx!Idle.pc = "idle" /\ Wx!Idle.seen = {}
      /\ req[r].pc # "idle" /\ unsure' = TRUE
  BY WxIdle DEF Wx!GivesUp, Wx!Setting
<1>2. Turns(r, Wx!Idle) /\ UNCHANGED <<rows, batches, services, up, starts, crowded>>
  BY <1>1, ExceptTurns DEF Wx!GivesUp
<1>3. RowsWhole' /\ AloneSeesAll' /\ Wx!OnceUnlessCrowded'
  BY <1>1, <1>2, WholeEmpty, TableStays
<1>4. SureOfRows'
  BY <1>1, <1>2, StaysSure
<1>5. Wx!TypeOK' /\ Wx!NoMixture'
  BY <1>1, <1>2 DEF WxInv, Wx!TypeOK, Wx!NoMixture, Turns
<1> QED
  BY <1>3, <1>4, <1>5 DEF WxInv

LEMMA WxLoad ==
  ASSUME Wx!ConstantsAssumption, WxInv, NEW r \in Reqs, Wx!Load(r)
  PROVE  WxInv'
<1> DEFINE q == req[r]
           H(t) == [q EXCEPT !.pc = "apply", !.seen = rows, !.twice = t]
<1>1. q \in Wx!Handler /\ q.pc = "load" /\ Whole(rows) /\ up
  BY WxParts DEF Wx!Load, WxInv, Wx!TypeOK
<1>2. PICK t \in BOOLEAN : req' = [req EXCEPT ![r] = H(t)] /\ unsure' = (unsure \/ t)
  BY WxParts DEF Wx!Load
<1> DEFINE h == H(t)
<1>3. h \in Wx!Handler /\ h.pc = "apply" /\ h.seen = rows /\ h.twice = t
  BY <1>1 DEF Wx!Handler, Whole
<1>4. req' = [req EXCEPT ![r] = h]
  BY <1>2
<1> HIDE DEF H, h
<1>5. Turns(r, h) /\ UNCHANGED <<rows, batches, services, up, starts, crowded>>
  BY <1>3, <1>4, ExceptTurns DEF Wx!Load
<1>6. RowsWhole' /\ AloneSeesAll' /\ Wx!OnceUnlessCrowded'
  BY <1>1, <1>3, <1>5, TableStays
<1>7. unsure \in BOOLEAN /\ (~unsure => OneBatch(rows))
  BY <1>1 DEF WxInv, SureOfRows, Wx!TypeOK
<1>8. SureOfRows'
  <2>1. ~unsure' => ~unsure /\ ~t
    BY <1>2, <1>7
  <2> QED
    BY <1>1, <1>3, <1>5, <1>7, <2>1, StaysSure
<1>9. Wx!TypeOK' /\ Wx!NoMixture'
  BY <1>1, <1>2, <1>5, <1>7 DEF WxInv, Wx!TypeOK, Wx!NoMixture, Turns
<1> QED
  BY <1>6, <1>8, <1>9 DEF WxInv

LEMMA WxApply ==
  ASSUME Wx!ConstantsAssumption, WxInv, NEW r \in Reqs, Wx!Apply(r)
  PROVE  WxInv'
<1> DEFINE q == req[r]
<1>1. /\ Wx!Idle \in Wx!Handler /\ Wx!Idle.pc = "idle" /\ Wx!Idle.seen = {}
      /\ q \in Wx!Handler /\ q.pc = "apply" /\ Whole(q.seen) /\ up
  BY WxIdle, WxParts DEF Wx!Apply, WxInv, Wx!TypeOK
<1>2. Turns(r, Wx!Idle) /\ UNCHANGED <<rows, batches, up, starts, crowded, unsure>>
  BY <1>1, ExceptTurns DEF Wx!Apply
<1>3. RowsWhole' /\ AloneSeesAll' /\ Wx!OnceUnlessCrowded'
  BY <1>1, <1>2, WholeEmpty, TableStays
<1>4. \/ /\ Wx!Complete(q)
         /\ \E c \in Details :
              /\ services' = [services EXCEPT ![AppOf[c]] = [f \in Fields |-> c]]
              /\ \A f \in Fields : \E x \in q.seen : x.field = f /\ x.call = c
      \/ ~Wx!Complete(q) /\ UNCHANGED services
  <2>1. CASE Wx!Complete(q)
    <3>1. PICK cfg \in Wx!Read(q) : services' = [services EXCEPT ![AppOf[cfg["appid"]]] = cfg]
      BY <2>1 DEF Wx!Apply
    <3>2. PICK c \in Details : cfg = [f \in Fields |-> c]
      BY <1>1, <2>1, CompleteIsOneCall
    <3>3. "appid" \in Fields
      BY DEF Wx!ConstantsAssumption
    <3>4. services' = [services EXCEPT ![AppOf[c]] = [f \in Fields |-> c]]
      BY <3>1, <3>2, <3>3
    <3>5. \A f \in Fields : \E x \in q.seen : x.field = f /\ x.call = c
      BY <3>2 DEF Wx!Read
    <3> QED
      BY <2>1, <3>4, <3>5
  <2>2. CASE ~Wx!Complete(q)
    BY <2>2 DEF Wx!Apply
  <2> QED
    BY <2>1, <2>2
<1>5. /\ services \in [Apps -> [Fields -> Details] \cup {None}] /\ AppOf \in [Details -> Apps]
      /\ None \notin [Fields -> Details] /\ "appid" \in Fields
  BY DEF WxInv, Wx!TypeOK, Wx!ConstantsAssumption
<1>6. services' \in [Apps -> [Fields -> Details] \cup {None}]
  <2>1. ASSUME NEW c \in Details, services' = [services EXCEPT ![AppOf[c]] = [f \in Fields |-> c]]
        PROVE  services' \in [Apps -> [Fields -> Details] \cup {None}]
    <3> DEFINE cfg == [f \in Fields |-> c]
    <3>1. cfg \in [Fields -> Details] /\ services' = [services EXCEPT ![AppOf[c]] = cfg]
      BY <2>1
    <3> HIDE DEF cfg
    <3> QED
      BY <1>5, <3>1
  <2> QED
    BY <1>4, <1>5, <2>1
<1>7. Wx!NoMixture'
  <2>1. CASE UNCHANGED services
    BY <2>1 DEF WxInv, Wx!NoMixture
  <2>2. ASSUME NEW c \in Details, services' = [services EXCEPT ![AppOf[c]] = [f \in Fields |-> c]]
        PROVE  Wx!NoMixture'
    <3> SUFFICES ASSUME NEW a \in Apps, services'[a] # None
                 PROVE  \E d \in Details : AppOf[d] = a /\ services'[a] = [f \in Fields |-> d]
      BY DEF Wx!NoMixture
    <3>1. CASE a = AppOf[c]
      BY <1>5, <2>2, <3>1
    <3>2. CASE a # AppOf[c]
      BY <1>5, <2>2, <3>2 DEF WxInv, Wx!NoMixture
    <3> QED
      BY <3>1, <3>2
  <2> QED
    BY <1>4, <2>1, <2>2
<1>8. ASSUME ~unsure PROVE Served'
  <2>1. q.seen = rows /\ ~q.twice /\ OneBatch(rows)
    BY <1>1, <1>8 DEF WxInv, SureOfRows
  <2>2. ASSUME NEW x \in rows PROVE services'[AppOf[x.call]] = [f \in Fields |-> x.call]
    <3>1. x.call \in Details /\ x.batch \in Nat /\ rows = Batch(x.call, x.batch)
      BY <1>1, <2>1, <2>2 DEF Whole, Wx!Row, OneBatch
    <3>2. Cardinality(rows) = Cardinality(Fields) /\ \A y \in rows : y.call = x.call
      BY <3>1, BatchFacts
    <3>3. IsFiniteSet(Fields)
      BY SameFinite DEF Wx!ConstantsAssumption
    <3>4. Cardinality(Fields) \in Nat
      BY <3>3, FS_CardinalityType
    <3>5. Wx!Complete(q)
      <4>1. 1 * Cardinality(q.seen) = Cardinality(Fields)
        BY <2>1, <3>2, <3>4
      <4> QED
        BY <2>1, <4>1, SameFinite DEF Wx!Complete
    <3>6. PICK c \in Details :
            /\ services' = [services EXCEPT ![AppOf[c]] = [f \in Fields |-> c]]
            /\ \A f \in Fields : \E y \in q.seen : y.field = f /\ y.call = c
      BY <1>4, <3>5
    <3>7. c = x.call
      BY <1>5, <2>1, <3>2, <3>6
    <3> QED
      BY <1>5, <3>1, <3>6, <3>7
  <2> QED
    BY <1>2, <2>1, <2>2 DEF Served, OneBatch
<1>9. SureOfRows'
  BY <1>1, <1>2, <1>8, StaysSure
<1>10. Wx!TypeOK'
  BY <1>1, <1>2, <1>6 DEF WxInv, Wx!TypeOK, Turns
<1> QED
  BY <1>3, <1>7, <1>9, <1>10 DEF WxInv

LEMMA WxLoadFails ==
  ASSUME Wx!ConstantsAssumption, WxInv, NEW r \in Reqs, Wx!LoadFails(r)
  PROVE  WxInv'
<1>1. /\ Wx!Idle \in Wx!Handler /\ Wx!Idle.pc = "idle" /\ Wx!Idle.seen = {}
      /\ req' \in [Reqs -> Wx!Handler] /\ \A q \in Reqs : req'[q] = Wx!Idle
  BY WxIdle DEF Wx!LoadFails
<1>2. /\ up' = FALSE /\ UNCHANGED <<rows, batches, starts, crowded, unsure>>
      /\ services' = [a \in Apps |-> None]
  BY DEF Wx!LoadFails
<1>3. RowsWhole'
  <2>1. \A q \in Reqs : Whole(req'[q].seen)
    BY <1>1, WholeEmpty
  <2> QED
    BY <1>2, <2>1 DEF WxInv, RowsWhole, Whole
<1>4. Wx!TypeOK'
  BY <1>1, <1>2 DEF WxInv, Wx!TypeOK
<1>5. AloneSeesAll' /\ SureOfRows'
  BY <1>1, <1>2 DEF AloneSeesAll, SureOfRows, Wx!Setting
<1>6. Wx!NoMixture' /\ Wx!OnceUnlessCrowded'
  BY <1>2 DEF WxInv, Wx!NoMixture, Wx!OnceUnlessCrowded
<1> QED
  BY <1>3, <1>4, <1>5, <1>6 DEF WxInv

LEMMA WxStart ==
  ASSUME Wx!ConstantsAssumption, WxInv, NEW r \in Reqs, Wx!Start(r)
  PROVE  WxInv'
<1> DEFINE h == [Wx!Idle EXCEPT !.pc = "load"]
<1>1. h \in Wx!Handler /\ h.pc = "load" /\ h.seen = {}
  BY WxIdle DEF Wx!Handler
<1>2. req' = [req EXCEPT ![r] = h]
  BY DEF Wx!Start
<1> HIDE DEF h
<1>3. /\ Turns(r, h) /\ UNCHANGED <<rows, batches, services, crowded>>
      /\ up' = TRUE /\ starts' = starts + 1 /\ starts < MaxStarts
      /\ unsure' = \E x, y \in rows : x.batch # y.batch
  BY <1>1, <1>2, ExceptTurns DEF Wx!Start
<1>4. \A q \in Reqs : req[q].pc = "idle"
  BY DEF WxInv, Wx!TypeOK, Wx!Start
<1>5. \A q \in Reqs \ {r} : req'[q].pc = "idle"
  BY <1>3, <1>4 DEF Turns
<1>6. RowsWhole' /\ AloneSeesAll' /\ Wx!OnceUnlessCrowded'
  BY <1>1, <1>3, WholeEmpty, TableStays
<1>7. ASSUME ~unsure' PROVE OneBatch(rows)
  <2> SUFFICES ASSUME NEW x \in rows PROVE rows = Batch(x.call, x.batch)
    BY DEF OneBatch
  <2>1. Whole(rows) /\ \A y \in rows : y.batch = x.batch /\ y.call = x.call
    BY <1>3, <1>7 DEF WxInv, RowsWhole
  <2>2. ASSUME NEW y \in rows PROVE y \in Batch(x.call, x.batch)
    <3>1. y.field \in Fields /\ y = [field |-> y.field, call |-> y.call, batch |-> y.batch]
      BY <2>1 DEF Whole, Wx!Row
    <3> QED
      BY <2>1, <3>1 DEF Batch
  <2> QED
    BY <2>1, <2>2 DEF Whole
<1>8. SureOfRows'
  <2>1. \A q \in Reqs : req'[q].pc \in {"delete", "insert", "apply"} => FALSE
    BY <1>1, <1>3, <1>5 DEF Turns
  <2>2. \A p, q \in Reqs : req'[q].pc # "idle" /\ req'[p].pc # "idle" => q = p
    BY <1>5
  <2>3. ~(\A q \in Reqs : req'[q].pc = "idle")
    BY <1>1, <1>3 DEF Turns
  <2>4. ~unsure' => OneBatch(rows)'
    BY <1>3, <1>7 DEF OneBatch
  <2> QED
    BY <2>1, <2>2, <2>3, <2>4 DEF SureOfRows, Wx!Setting
<1>9. Wx!TypeOK' /\ Wx!NoMixture'
  <2>1. starts' \in 0..MaxStarts
    BY <1>3 DEF WxInv, Wx!TypeOK, Wx!ConstantsAssumption
  <2>2. unsure' \in BOOLEAN
    BY <1>3
  <2>3. Wx!TypeOK'
    BY <1>3, <2>1, <2>2 DEF WxInv, Wx!TypeOK, Turns
  <2> QED
    BY <1>3, <2>3 DEF WxInv, Wx!NoMixture
<1> QED
  BY <1>6, <1>8, <1>9 DEF WxInv

LEMMA WxSet ==
  ASSUME Wx!ConstantsAssumption, WxInv, NEW r \in Reqs, NEW c \in Details,
         Wx!SetWxpayDetail(r, c)
  PROVE  WxInv'
<1> DEFINE alone == ~\E q \in Reqs : Wx!Setting(q)
           h == [Wx!Idle EXCEPT !.pc = "delete", !.call = c, !.seen = rows, !.alone = alone]
<1>0. alone \in BOOLEAN /\ (alone <=> \A q \in Reqs : ~Wx!Setting(q))
  OBVIOUS
<1>1. /\ req' = [q \in Reqs |-> IF q = r THEN h
                                ELSE IF Wx!Setting(q) THEN [req[q] EXCEPT !.alone = FALSE]
                                ELSE req[q]]
      /\ req[r].pc = "idle" /\ up /\ unsure' = Wx!Busy(r)
      /\ UNCHANGED <<rows, batches, services, up, starts, crowded>>
  BY DEF Wx!SetWxpayDetail
<1> HIDE DEF alone
<1>2. /\ h \in Wx!Handler /\ h.pc = "delete" /\ h.seen = rows /\ h.alone = alone
  BY <1>0, WxIdle, WxParts DEF Wx!Handler, Whole
<1> HIDE DEF h
<1>3. ASSUME NEW q \in Reqs, q # r
      PROVE  /\ req'[q] \in Wx!Handler /\ req'[q].pc = req[q].pc /\ req'[q].seen = req[q].seen
             /\ Wx!Setting(q) => ~req'[q].alone
  <2>1. req[q] \in Wx!Handler
    BY WxParts
  <2>2. CASE Wx!Setting(q)
    <3>1. req'[q] = [req[q] EXCEPT !.alone = FALSE]
      BY <1>1, <1>3, <2>2
    <3> QED
      BY <2>1, <3>1 DEF Wx!Handler
  <2>3. CASE ~Wx!Setting(q)
    BY <1>1, <1>3, <2>1, <2>3
  <2> QED
    BY <2>2, <2>3
<1>4. req'[r] = h
  BY <1>1
<1>5. req' \in [Reqs -> Wx!Handler]
  <2>1. \A q \in Reqs : req'[q] \in Wx!Handler
    BY <1>2, <1>3, <1>4
  <2>2. req' = [q \in Reqs |-> req'[q]]
    BY <1>1
  <2> QED
    BY <2>1, <2>2
<1>6. RowsWhole'
  <2>1. \A q \in Reqs : Whole(req'[q].seen)
    BY <1>2, <1>3, <1>4, WxParts
  <2> QED
    BY <1>1, <2>1 DEF WxInv, RowsWhole, Whole
<1>7. AloneSeesAll'
  <2> SUFFICES ASSUME NEW p \in Reqs, req'[p].pc \in {"delete", "insert"}, req'[p].alone
               PROVE  /\ req'[p].seen = rows'
                      /\ \A q \in Reqs : req'[q].pc \in {"delete", "insert"} => q = p
    BY DEF AloneSeesAll, Wx!Setting
  <2>1. p = r
    BY <1>3 DEF Wx!Setting
  <2>2. alone
    BY <1>2, <1>4, <2>1
  <2> QED
    BY <1>0, <1>1, <1>2, <1>3, <1>4, <2>1, <2>2 DEF Wx!Setting
<1>8. SureOfRows'
  <2> SUFFICES ASSUME ~unsure' PROVE SureOfRows'
    BY DEF SureOfRows
  <2>1. \A q \in Reqs \ {r} : req[q].pc = "idle" /\ req'[q].pc = "idle"
    BY <1>1, <1>3 DEF Wx!Busy
  <2>2. alone
    BY <1>0, <1>1, <2>1 DEF Wx!Setting
  <2>3. \A p, q \in Reqs : req'[q].pc # "idle" /\ req'[p].pc # "idle" => q = p
    BY <2>1
  <2>4. \A q \in Reqs : /\ req'[q].pc \in {"delete", "insert"} => req'[q].alone
                        /\ req'[q].pc \notin {"load", "apply"}
    BY <1>2, <1>4, <2>1, <2>2
  <2>5. req'[r].pc # "idle"
    BY <1>2, <1>4
  <2> QED
    BY <2>3, <2>4, <2>5 DEF SureOfRows, Wx!Setting
<1>9. Wx!TypeOK' /\ Wx!NoMixture' /\ Wx!OnceUnlessCrowded'
  <2>1. unsure' \in BOOLEAN
    BY <1>1 DEF Wx!Busy
  <2> QED
    BY <1>1, <1>5, <2>1 DEF WxInv, Wx!TypeOK, Wx!NoMixture, Wx!OnceUnlessCrowded
<1> QED
  BY <1>6, <1>7, <1>8, <1>9 DEF WxInv

LEMMA WxCommit ==
  ASSUME Wx!ConstantsAssumption, WxInv, NEW r \in Reqs, Wx!Commit(r)
  PROVE  WxInv'
<1> DEFINE q == req[r]
           n == batches + 1
           new == Batch(q.call, n)
           h1 == [q EXCEPT !.pc = "load", !.seen = {}]
           h2 == [q EXCEPT !.pc = "delete", !.seen = rows']
<1>1. /\ q \in Wx!Handler /\ q.pc = "insert" /\ Wx!Setting(r) /\ up /\ q.call \in Details
      /\ Whole(q.seen) /\ Whole(rows) /\ batches \in Nat /\ n \in Nat /\ n > batches
      /\ batches < MaxBatches /\ q.alone \in BOOLEAN
  BY WxParts DEF Wx!Commit, Wx!Setting, WxInv, Wx!TypeOK
<1>2. /\ batches' = n /\ rows' = (rows \ q.seen) \cup new
      /\ crowded' = IF q.alone THEN crowded ELSE crowded \cup {n}
      /\ UNCHANGED <<services, up, starts, unsure>>
  BY DEF Wx!Commit, Batch
<1>a. req' = [req EXCEPT ![r] = h1] \/ req' = [req EXCEPT ![r] = h2]
  BY WxParts DEF Wx!Commit
<1>b. /\ Whole(new) /\ OneBatch(new) /\ \A x \in new : x.call = q.call /\ x.batch = n
      /\ \A x, y \in new : x.field = y.field => x = y
  BY <1>1, BatchFacts, BatchWhole
<1> HIDE DEF n, new
<1>3. Whole(rows') /\ rows' \subseteq Wx!Row
  <2>1. Whole(rows \ q.seen)
    BY <1>1, WholeSets
  <2>2. Whole((rows \ q.seen) \cup new)
    BY <1>b, <2>1, WholeSets
  <2>3. Whole(rows')
    BY <1>2, <2>2
  <2> QED
    BY <2>3 DEF Whole
<1>4. /\ h1 \in Wx!Handler /\ h1.pc = "load" /\ h1.seen = {} /\ h1.alone = q.alone
      /\ h2 \in Wx!Handler /\ h2.pc = "delete" /\ h2.seen = rows' /\ h2.alone = q.alone
  BY <1>1, <1>3 DEF Wx!Handler
<1> HIDE DEF h1, h2
<1>5. PICK h \in {h1, h2} : Turns(r, h)
  BY <1>4, <1>a, ExceptTurns
<1>6. q.alone => rows' = new /\ \A p \in Reqs : Wx!Setting(p) => p = r
  <2>1. q.alone => q.seen = rows /\ \A p \in Reqs : Wx!Setting(p) => p = r
    BY <1>1 DEF WxInv, AloneSeesAll
  <2> QED
    BY <1>2, <2>1
<1>7. \A x \in rows : x.batch <= batches /\ x.batch \in Nat
  BY <1>1 DEF WxInv, RowsWhole, Whole, Wx!Row
<1>8. RowsWhole'
  <2>1. \A p \in Reqs : Whole(req'[p].seen)
    BY <1>3, <1>4, <1>5, WxParts, WholeEmpty DEF Turns
  <2>2. \A x \in rows' : x.batch <= n
    BY <1>1, <1>2, <1>7, <1>b
  <2>3. ASSUME NEW x \in rows', NEW y \in rows', x.batch = y.batch PROVE x.call = y.call
    <3>1. CASE x \in new /\ y \in new
      BY <1>b, <3>1
    <3>2. CASE x \in rows /\ y \in rows
      BY <2>3, <3>2 DEF WxInv, RowsWhole
    <3>3. CASE (x \in new /\ y \in rows) \/ (x \in rows /\ y \in new)
      BY <1>1, <1>7, <1>b, <2>3, <3>3
    <3> QED
      BY <1>2, <3>1, <3>2, <3>3
  <2>4. Whole(rows)'
    BY <1>3 DEF Whole
  <2>5. \A p \in Reqs : Whole(req[p].seen)'
    BY <2>1 DEF Whole
  <2> QED
    BY <1>2, <2>2, <2>3, <2>4, <2>5 DEF RowsWhole
<1>9. AloneSeesAll'
  <2> SUFFICES ASSUME NEW p \in Reqs, req'[p].pc \in {"delete", "insert"}, req'[p].alone
               PROVE  /\ req'[p].seen = rows'
                      /\ \A k \in Reqs : req'[k].pc \in {"delete", "insert"} => k = p
    BY DEF AloneSeesAll, Wx!Setting
  <2>1. CASE p # r
    <3>1. Wx!Setting(p) /\ req[p].alone
      BY <1>5, <2>1 DEF Turns, Wx!Setting
    <3> QED
      BY <1>1, <2>1, <3>1 DEF WxInv, AloneSeesAll
  <2>2. CASE p = r
    <3>1. h = h2 /\ q.alone
      BY <1>4, <1>5, <2>2 DEF Turns
    <3>2. req'[p].seen = rows'
      BY <1>4, <1>5, <2>2, <3>1 DEF Turns
    <3> QED
      BY <1>5, <1>6, <2>2, <3>1, <3>2 DEF Turns, Wx!Setting
  <2> QED
    BY <2>1, <2>2
<1>10. SureOfRows'
  <2>1. ~unsure => q.alone /\ OneBatch(rows')
    BY <1>1, <1>6, <1>b DEF WxInv, SureOfRows
  <2> QED
    BY <1>1, <1>2, <1>4, <1>5, <2>1, StaysSure
<1>11. Wx!OnceUnlessCrowded'
  <2> SUFFICES ASSUME NEW x \in rows', NEW y \in rows', x.field = y.field, x # y
               PROVE  x.batch \in crowded' \/ y.batch \in crowded'
    BY DEF Wx!OnceUnlessCrowded
  <2>1. ~q.alone
    BY <1>6, <1>b
  <2>2. CASE x \in new \/ y \in new
    BY <1>2, <1>b, <2>1, <2>2
  <2>3. CASE x \in rows /\ y \in rows
    BY <1>2, <2>3 DEF WxInv, Wx!OnceUnlessCrowded
  <2> QED
    BY <1>2, <2>2, <2>3
<1>12. Wx!TypeOK' /\ Wx!NoMixture'
  <2>1. n \in 0..MaxBatches /\ crowded' \subseteq 1..n
    <3>1. crowded \subseteq 1..batches /\ MaxBatches \in Nat
      BY DEF WxInv, Wx!TypeOK, Wx!ConstantsAssumption
    <3>2. crowded' \subseteq crowded \cup {n}
      BY <1>2
    <3>3. n \in 0..MaxBatches /\ 1..batches \subseteq 1..n /\ n \in 1..n
      BY <1>1, <3>1 DEF n
    <3> QED
      BY <3>1, <3>2, <3>3
  <2> QED
    BY <1>1, <1>2, <1>3, <1>5, <2>1 DEF WxInv, Wx!TypeOK, Wx!NoMixture, Turns
<1> QED
  BY <1>8, <1>9, <1>10, <1>11, <1>12 DEF WxInv

LEMMA WxInvariant == Wx!ConstantsAssumption /\ Wx!Spec => []WxInv
<1> SUFFICES ASSUME Wx!ConstantsAssumption PROVE Wx!Spec => []WxInv
  OBVIOUS
<1>1. Wx!Init => WxInv
  <2> SUFFICES ASSUME Wx!Init PROVE WxInv
    OBVIOUS
  <2>1. /\ Wx!Idle \in Wx!Handler /\ Wx!Idle.pc = "idle" /\ Wx!Idle.seen = {}
        /\ rows = {} /\ up = FALSE /\ req \in [Reqs -> Wx!Handler]
        /\ \A r \in Reqs : req[r] = Wx!Idle
    BY WxIdle DEF Wx!Init
  <2>2. Wx!TypeOK
    <3>1. batches \in 0..MaxBatches /\ starts \in 0..MaxStarts
      BY DEF Wx!Init, Wx!ConstantsAssumption
    <3>2. /\ services \in [Apps -> [Fields -> Details] \cup {None}]
          /\ crowded \subseteq 1..batches /\ unsure \in BOOLEAN
      BY DEF Wx!Init
    <3> QED
      BY <2>1, <3>1, <3>2 DEF Wx!TypeOK
  <2>3. RowsWhole
    BY <2>1, WholeEmpty DEF RowsWhole
  <2>4. AloneSeesAll /\ SureOfRows
    BY <2>1 DEF AloneSeesAll, SureOfRows, Wx!Setting
  <2>5. Wx!NoMixture /\ Wx!OnceUnlessCrowded
    BY <2>1 DEF Wx!Init, Wx!NoMixture, Wx!OnceUnlessCrowded
  <2> QED
    BY <2>2, <2>3, <2>4, <2>5 DEF WxInv
<1>2. WxInv /\ [Wx!Next]_(Wx!vars) => WxInv'
  <2> SUFFICES ASSUME WxInv, [Wx!Next]_(Wx!vars) PROVE WxInv'
    OBVIOUS
  <2>1. CASE UNCHANGED Wx!vars
    BY <2>1 DEF WxInv, Wx!TypeOK, RowsWhole, AloneSeesAll, SureOfRows, Served, Wx!Setting,
                Wx!NoMixture, Wx!OnceUnlessCrowded, Whole, OneBatch, Wx!vars
  <2>2. CASE Wx!Next
    BY <2>2, WxSet, WxErase, WxCommit, WxRepeats, WxGivesUp, WxLoad, WxApply, WxLoadFails,
       WxStart
    DEF Wx!Next
  <2> QED
    BY <2>1, <2>2
<1> QED
  BY <1>1, <1>2, PTL DEF Wx!Spec

\* admin_set_wxpay_detail and load_configs: the key, the certificate and the
\* ids of a wxpay_service come from one call, a name is in cmall_config twice
\* only if two sets have overlapped, and a set that began alone prevails, for
\* any number of names, calls, appids and handlers.
THEOREM ConfigsAreOfOneCall == Wx!Spec => []ConfigOfOneCall
<1>1. WxInv => ConfigOfOneCall
  <2> SUFFICES ASSUME WxInv PROVE Wx!AlonePrevails
    BY DEF WxInv, ConfigOfOneCall, Wx!ConfigOfOneCall
  <2> SUFFICES ASSUME up, ~unsure, \A r \in Reqs : req[r].pc = "idle"
               PROVE  \A x, y \in rows : /\ x.batch = y.batch
                                         /\ services[AppOf[x.call]] = [f \in Fields |-> x.call]
    BY DEF Wx!AlonePrevails
  <2>1. Served
    BY DEF WxInv, SureOfRows
  <2>2. \A x \in rows : \A y \in Batch(x.call, x.batch) : y.batch = x.batch
    BY DEF Batch
  <2> QED
    BY <2>1, <2>2 DEF Served, OneBatch
<1> QED
  BY <1>1, WxInvariant, ServicesAssumption, PTL

\* Every variable of the services keeps its type, whatever the others do: the
\* types are parts of the three invariants.
THEOREM ServicesTypes == Spec /\ Ws!Spec /\ Wx!Spec => []ServicesTypeOK
<1>1. ReposInv /\ WsInv /\ WxInv => ServicesTypeOK
  BY DEF ReposInv, WsInv, WxInv, ServicesTypeOK
<1> QED
  BY <1>1, ReposInvHolds, WsInvariant, WxInvariant, ServicesAssumption, PTL
=============================================================================
