-------------------------------- MODULE Repos --------------------------------
(***************************************************************************)
(* The repositories of the merchants and the search index over them.       *)
(* load_merchant_git enters a repository into merchant_repos and starts a  *)
(* coroutine that indexes it (search_service.add_merchant) and then looks  *)
(* every 30 seconds whether HEAD has moved (repo_push_check). The start of *)
(* the server may run it more than once for a merchant: the vector that    *)
(* load_repos fills is not emptied when its query is repeated.             *)
(*                                                                         *)
(* The index is labelled with the commit that HEAD named before the goods  *)
(* were read; merchants push at any moment between these steps, also back  *)
(* to an earlier commit. A commit stands for the goods in it.              *)
(***************************************************************************)
EXTENDS Naturals, Sequences, Functions

CONSTANTS
  Merchants,   \* merchant ids
  Commits,     \* commits
  NoCommit,    \* HEAD of no repository, or of one without a commit
  MaxLoads,    \* bound: how often load_repos has a merchant in its vector
  MaxPushes,   \* bound: moves of HEAD
  MaxRestarts  \* bound: restarts of the server

ASSUME ConstantsAssumption ==
  /\ NoCommit \notin Commits /\ MaxLoads \in Nat \ {0}
  /\ MaxPushes \in Nat /\ MaxRestarts \in Nat

VARIABLES
  known,     \* cmall_merchant: the ids in it
  approving, \* how far admin_approve_merchant is with a merchant
  head,      \* HEAD of the repositories on disk
  pushes,    \* how often HEAD was moved
  repos,     \* merchant_repos
  index,     \* indexdb: for each merchant, the commits whose goods are in it
  snap,      \* merchant_git_snap
  bg,        \* the background coroutines of a merchant
  returned,  \* history: merchants whose HEAD has come back to the label of
             \* their index after the goods were read
  restarts

vars == <<known, approving, head, pushes, repos, index, snap, bg, returned,
          restarts>>

Loads == 1..MaxLoads

Maybe == Commits \cup {NoCommit}

Pcs == {"none", "spawned", "addHead", "addGoods", "addStore", "sleep", "check",
        "reHead", "reGoods", "reStore", "dead"}

\* seen: the commit that cached_head or git_head has returned; goods: the
\* commit that get_products has read; back: HEAD has come back to seen since
\* then
Coroutine == [pc: Pcs, seen: Maybe, goods: Maybe, back: BOOLEAN]

Ended == [pc |-> "none", seen |-> NoCommit, goods |-> NoCommit, back |-> FALSE]
Spawned == [Ended EXCEPT !.pc = "spawned"]

\* One coroutine follows the repository at most.
Single(m) ==
  \A j, k \in Loads : bg[m][j].pc # "none" /\ bg[m][k].pc # "none" => j = k

disk == <<known, approving, head, pushes>>
search == <<index, snap>>

-----------------------------------------------------------------------------
(* Merchants *)

\* admin_approve_merchant has committed the merchant.
Approve(m) ==
  /\ m \notin known /\ known' = known \cup {m}
  /\ approving' = [approving EXCEPT ![m] = "init"]
  /\ UNCHANGED <<head, pushes, repos, search, bg, returned, restarts>>

\* gitea_service.init_user makes the account and the repository, which gitea
\* fills from the template so that it has a commit. When it fails, or there is
\* no template, there is none; the result is not looked at.
InitUser(m) ==
  /\ approving[m] = "init"
  /\ approving' = [approving EXCEPT ![m] = "load"]
  /\ \/ UNCHANGED <<head, pushes>>
     \/ /\ head[m] = NoCommit
        /\ pushes < MaxPushes /\ pushes' = pushes + 1
        /\ \E c \in Commits : head' = [head EXCEPT ![m] = c]
  /\ UNCHANGED <<known, repos, search, bg, returned, restarts>>

\* load_merchant_git, for which a repository has a HEAD with a target. Without
\* one the merchant has no repository until the server is started again.
LoadMerchantGit(m) ==
  /\ approving[m] = "load"
  /\ approving' = [approving EXCEPT ![m] = "done"]
  /\ IF head[m] # NoCommit
     THEN /\ repos' = repos \cup {m} /\ bg' = [bg EXCEPT ![m][1] = Spawned]
     ELSE /\ repos' = repos \ {m} /\ UNCHANGED bg
  /\ UNCHANGED <<known, head, pushes, search, returned, restarts>>

\* A merchant pushes a new commit, or forces HEAD back to an earlier one. The
\* coroutines with other goods under the label c take notice of it for the
\* history, and so does the index.
Push(m, c) ==
  /\ m \in known /\ approving[m] # "init" /\ c # head[m]
  /\ pushes < MaxPushes /\ pushes' = pushes + 1
  /\ head' = [head EXCEPT ![m] = c]
  /\ bg' = [bg EXCEPT ![m] = [k \in Loads |->
              [bg[m][k] EXCEPT !.back =
                 \/ bg[m][k].back
                 \/ /\ bg[m][k].pc \in {"addStore", "reStore"}
                    /\ bg[m][k].seen = c /\ bg[m][k].goods # c]]]
  /\ returned' = IF snap[m] = c /\ c \notin Range(index[m])
                 THEN returned \cup {m} ELSE returned
  /\ UNCHANGED <<known, approving, repos, search, restarts>>

-----------------------------------------------------------------------------
(* The background coroutine k of a merchant *)

At(m, k, pc) == bg[m][k].pc = pc
Goto(m, k, pc) == bg' = [bg EXCEPT ![m][k].pc = pc]

\* The repository is looked up in merchant_repos.
Begin(m, k) ==
  /\ At(m, k, "spawned")
  /\ Goto(m, k, IF m \in repos THEN "addHead" ELSE "none")
  /\ UNCHANGED <<disk, repos, search, returned, restarts>>

\* git_head of add_merchant and of reload_merchant
ReadHead(m, k) ==
  /\ At(m, k, "addHead") \/ At(m, k, "reHead")
  /\ bg' = [bg EXCEPT ![m][k].pc = IF @ = "addHead" THEN "addGoods" ELSE "reGoods",
                      ![m][k].seen = head[m], ![m][k].back = FALSE]
  /\ UNCHANGED <<disk, repos, search, returned, restarts>>

\* get_products reads HEAD once more.
ReadGoods(m, k) ==
  /\ At(m, k, "addGoods") \/ At(m, k, "reGoods")
  /\ bg' = [bg EXCEPT ![m][k].pc = IF @ = "addGoods" THEN "addStore" ELSE "reStore",
                      ![m][k].goods = head[m]]
  /\ UNCHANGED <<disk, repos, search, returned, restarts>>

\* The index has a label; goods of another commit under that of HEAD are on
\* record.
Label(m, k) ==
  /\ snap' = [snap EXCEPT ![m] = bg[m][k].seen]
  /\ returned' = IF bg[m][k].back THEN returned \cup {m} ELSE returned \ {m}

\* add_merchant adds the goods to what is in the index.
AddMerchant(m, k) ==
  /\ At(m, k, "addStore")
  /\ index' = [index EXCEPT ![m] = Append(@, bg[m][k].goods)]
  /\ Label(m, k) /\ Goto(m, k, "sleep")
  /\ UNCHANGED <<disk, repos, restarts>>

\* Mutant of ReloadMerchant: the label is HEAD when the index is written.
ReloadMerchant_LateLabel(m, k) ==
  /\ At(m, k, "reStore")
  /\ index' = [index EXCEPT ![m] = <<bg[m][k].goods>>]
  /\ snap' = [snap EXCEPT ![m] = head[m]] /\ returned' = returned \ {m}
  /\ Goto(m, k, "sleep")
  /\ UNCHANGED <<disk, repos, restarts>>

\* reload_merchant erases what is in the index first.
ReloadMerchant(m, k) ==
  /\ At(m, k, "reStore")
  /\ index' = [index EXCEPT ![m] = <<bg[m][k].goods>>]
  /\ Label(m, k) /\ Goto(m, k, "sleep")
  /\ UNCHANGED <<disk, repos, restarts>>

\* The timer of repo_push_check fires, and cached_head returns the label.
Wake(m, k) ==
  /\ At(m, k, "sleep")
  /\ bg' = [bg EXCEPT ![m][k].pc = "check", ![m][k].seen = snap[m]]
  /\ UNCHANGED <<disk, repos, search, returned, restarts>>

\* Mutant of CheckChanged: the comparison is the wrong way round.
CheckChanged_Inverted(m, k) ==
  /\ At(m, k, "check")
  /\ Goto(m, k, IF head[m] = bg[m][k].seen THEN "reHead" ELSE "sleep")
  /\ UNCHANGED <<disk, repos, search, returned, restarts>>

\* check_repo_changed
CheckChanged(m, k) ==
  /\ At(m, k, "check")
  /\ Goto(m, k, IF head[m] # bg[m][k].seen THEN "reHead" ELSE "sleep")
  /\ UNCHANGED <<disk, repos, search, returned, restarts>>

\* An exception of a step that reads the repository ends the coroutine, and
\* nobody looks at its promise.
GitFails(m, k) ==
  /\ bg[m][k].pc \in {"addHead", "addGoods", "check", "reHead", "reGoods"}
  /\ Goto(m, k, "dead")
  /\ UNCHANGED <<disk, repos, search, returned, restarts>>

\* The server is started again: load_repos loads the merchants into a vector,
\* where one is once more for every time that the query was repeated, and
\* calls load_merchant_git for each member.
Restart ==
  /\ restarts < MaxRestarts /\ restarts' = restarts + 1
  /\ repos' = {m \in known : head[m] # NoCommit}
  /\ \E n \in [Merchants -> Loads] :
       bg' = [m \in Merchants |-> [k \in Loads |->
                IF m \in known /\ head[m] # NoCommit /\ k <= n[m]
                THEN Spawned ELSE Ended]]
  /\ index' = [m \in Merchants |-> <<>>]
  /\ snap' = [m \in Merchants |-> NoCommit]
  /\ approving' = [m \in Merchants |-> "done"]
  /\ returned' = {}
  /\ UNCHANGED <<known, head, pushes>>

Init ==
  /\ known = {} /\ approving = [m \in Merchants |-> "done"]
  /\ head = [m \in Merchants |-> NoCommit] /\ pushes = 0 /\ repos = {}
  /\ index = [m \in Merchants |-> <<>>]
  /\ snap = [m \in Merchants |-> NoCommit]
  /\ bg = [m \in Merchants |-> [k \in Loads |-> Ended]]
  /\ returned = {} /\ restarts = 0

\* What a coroutine of a merchant does when git does not fail
Works(m, k) ==
  \/ Begin(m, k) \/ ReadHead(m, k) \/ ReadGoods(m, k) \/ AddMerchant(m, k)
  \/ ReloadMerchant(m, k) \/ Wake(m, k) \/ CheckChanged(m, k)

Next ==
  \/ \E m \in Merchants :
       \/ Approve(m) \/ InitUser(m) \/ LoadMerchantGit(m)
       \/ (\E c \in Commits : Push(m, c))
       \/ (\E k \in Loads : Works(m, k) \/ GitFails(m, k))
  \/ Restart

Spec == Init /\ [][Next]_vars

\* The thread pool runs what is ready, the timer fires, and the handler of an
\* approval goes on.
Fairness ==
  \A m \in Merchants : /\ \A k \in Loads : WF_vars(Works(m, k))
                       /\ WF_vars(InitUser(m)) /\ WF_vars(LoadMerchantGit(m))

FairSpec == Spec /\ Fairness

-----------------------------------------------------------------------------
(* Properties *)

\* Type correctness; goods are in the index at most once, unless load_repos
\* had the merchant twice in its vector.
TypeOK ==
  /\ known \subseteq Merchants /\ repos \subseteq known
  /\ approving \in [Merchants -> {"init", "load", "done"}]
  /\ head \in [Merchants -> Maybe] /\ pushes \in Nat
  /\ index \in [Merchants -> Seq(Commits)]
  /\ \A m \in Merchants : Single(m) => Len(index[m]) <= 1
  /\ snap \in [Merchants -> Maybe] /\ bg \in [Merchants -> [Loads -> Coroutine]]
  /\ returned \subseteq Merchants /\ restarts \in Nat

\* Goods that a search finds are of a repository that is loaded, for
\* search_goods fails as a whole when get_merchant_git_repo throws.
IndexedIsLoaded == \A m \in Merchants : index[m] # <<>> => m \in repos

\* The index of a merchant has the goods of HEAD, and no others when one
\* coroutine follows the repository: two of them may add the goods of two
\* commits.
HasHead(m) ==
  /\ head[m] \in Range(index[m])
  /\ Single(m) => index[m] = <<head[m]>>

\* When repo_push_check sees no change, there is none to see: an index that
\* carries the label of HEAD holds the goods of HEAD, whenever the pushes
\* came between reading the label and reading the goods, unless one of them
\* has moved HEAD back to the label after the goods of another commit were
\* read.
UnchangedIsCurrent ==
  \A m \in Merchants \ returned :
    snap[m] # NoCommit /\ snap[m] = head[m] => HasHead(m)

\* After the last push the index has the goods of HEAD, and keeps them, unless
\* the coroutines have ended or HEAD has come back to the label.
IndexCatchesUp ==
  \A m \in Merchants :
    <>[](/\ m \in repos \ returned
         /\ \E k \in Loads : bg[m][k].pc \notin {"none", "dead"}
         => HasHead(m))
=============================================================================
