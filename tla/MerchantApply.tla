---------------------------- MODULE MerchantApply ----------------------------
(***************************************************************************)
(* How a user becomes a merchant: user_apply_merchant puts an application  *)
(* into cmall_apply_for_mechant, an administrator approves it (which       *)
(* creates the row in cmall_merchant and the gitea account) or denies it.  *)
(*                                                                         *)
(* The application handler makes four database calls, each a transaction   *)
(* of its own, so any number of them interleave with one another and with  *)
(* the administrators. Nothing but the unique index on (applicant, seq)    *)
(* and the order of the calls keeps a user from having two applications    *)
(* open.                                                                   *)
(***************************************************************************)
EXTENDS Naturals

CONSTANTS
  Users,     \* applicants
  Reqs,      \* slots: how many handlers run at the same time
  MaxApps,   \* bound: applications per user
  NoUser     \* the user of a slot that is not in use

ASSUME ConstantsAssumption == MaxApps \in Nat /\ NoUser \notin Users

VARIABLES
  app,       \* cmall_apply_for_mechant: state_ by applicant and seq
  merchants, \* uids of cmall_merchant
  req,       \* the handlers in flight
  gitea,     \* users gitea.init_user was called for
  inits,     \* history: how often it was called, by user
  overruled  \* history: applications approved and later written as denied

vars == <<app, merchants, req, gitea, inits, overruled>>

Seqs == 0..(MaxApps - 1)

\* approve_state_t, and "none" where there is no row
States == {"none", "waiting", "approved", "denied"}

Pcs == {"idle", "merchant", "max", "waiting", "add",
        "find", "approve", "init", "query", "deny"}

Request == [pc: Pcs, uid: Users \cup {NoUser}, seq: Nat]

Idle == [pc |-> "idle", uid |-> NoUser, seq |-> 0]

\* select max(seq) + 1, 0 when there is none
IsNextSeq(u, s) ==
  /\ \A k \in Seqs : app[u][k] # "none" => k < s
  /\ s > 0 => s - 1 \in Seqs /\ app[u][s - 1] # "none"

Finish(r) == req' = [req EXCEPT ![r] = Idle]
Goto(r, pc) == req' = [req EXCEPT ![r].pc = pc]

-----------------------------------------------------------------------------
(* user_apply_merchant *)

Apply(r, u) ==
  /\ req[r].pc = "idle"
  /\ req' = [req EXCEPT ![r] = [pc |-> "merchant", uid |-> u, seq |-> 0]]
  /\ UNCHANGED <<app, merchants, gitea, inits, overruled>>

\* async_load<cmall_merchant>: already_a_merchant
CheckMerchant(r) ==
  /\ req[r].pc = "merchant"
  /\ IF req[r].uid \in merchants THEN Finish(r) ELSE Goto(r, "max")
  /\ UNCHANGED <<app, merchants, gitea, inits, overruled>>

\* async_load<max_application_seq>
LoadMaxSeq(r) ==
  /\ req[r].pc = "max"
  /\ \E s \in 0..MaxApps :
       /\ IsNextSeq(req[r].uid, s)
       /\ req' = [req EXCEPT ![r] =
                    [pc |-> "waiting", uid |-> req[r].uid, seq |-> s]]
  /\ UNCHANGED <<app, merchants, gitea, inits, overruled>>

\* The query for an application still waiting: already_exist
CheckWaiting(r) ==
  /\ req[r].pc = "waiting"
  /\ IF \E s \in Seqs : app[req[r].uid][s] = "waiting"
     THEN Finish(r) ELSE Goto(r, "add")
  /\ UNCHANGED <<app, merchants, gitea, inits, overruled>>

\* Mutant of AddApplication: seq is taken when the row is inserted, as an
\* auto-increment column would.
AddApplication_FreshSeq(r) ==
  /\ req[r].pc = "add"
  /\ \E s \in Seqs : /\ IsNextSeq(req[r].uid, s)
                     /\ app' = [app EXCEPT ![req[r].uid][s] = "waiting"]
  /\ Finish(r)
  /\ UNCHANGED <<merchants, gitea, inits, overruled>>

\* async_add inserts the row. The outcome arrives, or the connection is lost
\* after the commit and retry_database_op inserts again.
AddApplication(r) ==
  /\ req[r].pc = "add" /\ req[r].seq \in Seqs
  /\ app[req[r].uid][req[r].seq] = "none"
  /\ app' = [app EXCEPT ![req[r].uid][req[r].seq] = "waiting"]
  /\ Finish(r) \/ UNCHANGED req
  /\ UNCHANGED <<merchants, gitea, inits, overruled>>

\* The unique index refuses the row: the exception replaces the true reply.
AddRefused(r) ==
  /\ req[r].pc = "add" /\ req[r].seq \in Seqs
  /\ app[req[r].uid][req[r].seq] # "none"
  /\ Finish(r)
  /\ UNCHANGED <<app, merchants, gitea, inits, overruled>>

-----------------------------------------------------------------------------
(* admin_approve_merchant: one transaction *)

\* The id of an application stands for its (applicant, seq).
Approve(r, u, s) ==
  /\ req[r].pc = "idle"
  /\ req' = [req EXCEPT ![r] = [pc |-> "find", uid |-> u, seq |-> s]]
  /\ UNCHANGED <<app, merchants, gitea, inits, overruled>>

\* Mutant of ApproveFind: the new state is committed before the merchant is
\* created.
ApproveFind_CommitsState(r) ==
  /\ req[r].pc = "find" /\ app[req[r].uid][req[r].seq] = "waiting"
  /\ app' = [app EXCEPT ![req[r].uid][req[r].seq] = "approved"]
  /\ Goto(r, "approve")
  /\ UNCHANGED <<merchants, gitea, inits, overruled>>

\* db.find and the test of state_; otherwise roll back.
ApproveFind(r) ==
  /\ req[r].pc = "find"
  /\ IF app[req[r].uid][req[r].seq] = "waiting"
     THEN Goto(r, "approve") ELSE Finish(r)
  /\ UNCHANGED <<app, merchants, gitea, inits, overruled>>

\* Mutant of ApproveCommit: the application is not updated.
ApproveCommit_KeepsState(r) ==
  /\ req[r].pc = "approve" /\ req[r].uid \notin merchants
  /\ merchants' = merchants \cup {req[r].uid}
  /\ Goto(r, "init")
  /\ UNCHANGED <<app, gitea, inits, overruled>>

\* db.update of the application and db.persist of the merchant, committed
\* together. The update does not look at state_ again.
ApproveCommit(r) ==
  /\ req[r].pc = "approve" /\ req[r].uid \notin merchants
  /\ app' = [app EXCEPT ![req[r].uid][req[r].seq] = "approved"]
  /\ merchants' = merchants \cup {req[r].uid}
  /\ Goto(r, "init")
  /\ UNCHANGED <<gitea, inits, overruled>>

\* Mutant of ApproveRefused: a failed transaction goes on to init_user.
ApproveRefused_GoesOn(r) ==
  /\ req[r].pc = "approve" /\ req[r].uid \in merchants
  /\ Goto(r, "init")
  /\ UNCHANGED <<app, merchants, gitea, inits, overruled>>

\* The primary key of cmall_merchant refuses a second row for the user: the
\* exception rolls the update back too.
ApproveRefused(r) ==
  /\ req[r].pc = "approve" /\ req[r].uid \in merchants
  /\ Finish(r)
  /\ UNCHANGED <<app, merchants, gitea, inits, overruled>>

\* gitea_service.init_user, load_merchant_git, send_notify_message. The
\* result of init_user is not looked at: the account may not exist after it.
InitMerchant(r) ==
  /\ req[r].pc = "init"
  /\ gitea' \in {gitea, gitea \cup {req[r].uid}}
  /\ inits' = [inits EXCEPT ![req[r].uid] = @ + 1]
  /\ Finish(r)
  /\ UNCHANGED <<app, merchants, overruled>>

-----------------------------------------------------------------------------
(* admin_deny_applicant: one transaction, retried as a whole *)

Deny(r, u, s) ==
  /\ req[r].pc = "idle"
  /\ req' = [req EXCEPT ![r] = [pc |-> "query", uid |-> u, seq |-> s]]
  /\ UNCHANGED <<app, merchants, gitea, inits, overruled>>

\* The query for id and state_ waiting; an empty result changes nothing.
DenyQuery(r) ==
  /\ req[r].pc = "query"
  /\ IF app[req[r].uid][req[r].seq] = "waiting"
     THEN Goto(r, "deny") ELSE Finish(r)
  /\ UNCHANGED <<app, merchants, gitea, inits, overruled>>

\* The update writes the row by its id: under READ COMMITTED it does not see
\* that an approval has been committed since the query. Lost outcomes lead
\* back to the query.
DenyCommit(r) ==
  /\ req[r].pc = "deny"
  /\ LET u == req[r].uid
         s == req[r].seq
     IN  /\ overruled' = IF app[u][s] = "approved"
                         THEN overruled \cup {<<u, s>>} ELSE overruled
         /\ app' = [app EXCEPT ![u][s] = "denied"]
  /\ Finish(r) \/ Goto(r, "query")
  /\ UNCHANGED <<merchants, gitea, inits>>

-----------------------------------------------------------------------------
\* The handler disappears where it is: a database operation throws
\* internal_server_error, or the process has died.
Drop(r) ==
  /\ req[r].pc # "idle"
  /\ Finish(r)
  /\ UNCHANGED <<app, merchants, gitea, inits, overruled>>

Init ==
  /\ app = [u \in Users |-> [s \in Seqs |-> "none"]]
  /\ merchants = {} /\ gitea = {} /\ overruled = {}
  /\ inits = [u \in Users |-> 0]
  /\ req = [r \in Reqs |-> Idle]

Step(r) ==
  \/ CheckMerchant(r) \/ LoadMaxSeq(r) \/ CheckWaiting(r)
  \/ AddApplication(r) \/ AddRefused(r)
  \/ ApproveFind(r) \/ ApproveCommit(r) \/ ApproveRefused(r) \/ InitMerchant(r)
  \/ DenyQuery(r) \/ DenyCommit(r)
  \/ Drop(r)

Next ==
  \E r \in Reqs :
    \/ Step(r)
    \/ \E u \in Users : Apply(r, u)
    \/ \E u \in Users, s \in Seqs : Approve(r, u, s) \/ Deny(r, u, s)

Spec == Init /\ [][Next]_vars

-----------------------------------------------------------------------------
(* Properties *)

\* Type correctness of the two tables and of the handlers in flight.
TypeOK ==
  /\ app \in [Users -> [Seqs -> States]]
  /\ merchants \subseteq Users /\ gitea \subseteq Users
  /\ req \in [Reqs -> Request]
  /\ \A r \in Reqs :
       /\ req[r].pc # "idle" => req[r].uid \in Users
       /\ req[r].pc \in {"find", "approve", "init", "query", "deny"} =>
            req[r].seq \in Seqs
  /\ inits \in [Users -> Nat]
  /\ overruled \subseteq Users \X Seqs

\* However many user_apply_merchant run at once, a user has at most one
\* application waiting: a second one either sees the first or takes the seq
\* of the first and is refused by the unique index.
AtMostOneWaiting ==
  \A u \in Users : \A s, t \in Seqs :
    app[u][s] = "waiting" /\ app[u][t] = "waiting" => s = t

\* An approved application and its merchant appear together: no approval
\* without the row in cmall_merchant, whatever fails on the way.
ApprovedIsMerchant ==
  \A u \in Users, s \in Seqs : app[u][s] = "approved" => u \in merchants

\* A merchant has an approved application, or one that a denial still in
\* flight has written over after the approval.
MerchantWasApproved ==
  \A u \in merchants :
    \E s \in Seqs : app[u][s] = "approved" \/ <<u, s>> \in overruled

\* The gitea account of a merchant is set up by the one handler that created
\* the merchant: at most once, and only for merchants.
InitAtMostOnce ==
  \A u \in Users : inits[u] <= 1 /\ (inits[u] = 1 => u \in merchants)

=============================================================================
