------------------------------- MODULE Accounts -------------------------------
(***************************************************************************)
(* The rows of cmall_user and cmall_merchant and the handlers that change  *)
(* one of their fields: bans, recipients, names, gitea passwords, sub      *)
(* merchant ids.                                                           *)
(*                                                                         *)
(* update(id, updater) loads a row and writes the whole row back, in one   *)
(* transaction that does not lock what it has read: a load and a write are *)
(* two steps here, and other transactions commit between them. A write     *)
(* that was committed before its connection was lost is done again.        *)
(***************************************************************************)
EXTENDS Naturals, Sequences, SequencesExt

CONSTANTS
  Users,        \* uids
  Merchants,    \* uids that are merchants
  Sessions,     \* sessions that are logged in
  Owner,        \* the user of a session
  Reqs,         \* handlers in flight
  Addresses,    \* recipients: every call brings another one
  Names,        \* names and sub merchant ids
  Passwords,    \* what gen_password gives: every call another one
  None,         \* no name, no argument
  Enabled,      \* the calls of a run
  MaxCalls,     \* bound: calls
  MaxRepeats    \* bound: how often a handler repeats a write (25 in the code)

ConstantsAssumption ==
  /\ Merchants \subseteq Users /\ Sessions # {} /\ Owner \in [Sessions -> Users]
  /\ None \notin Addresses \cup Names \cup Passwords
  /\ Passwords \cap Names = {} /\ Addresses \cap (Names \cup Passwords) = {}
  /\ MaxCalls \in Nat /\ MaxRepeats \in Nat

VARIABLES
  users,     \* cmall_user
  merchants, \* cmall_merchant
  gitea,     \* the password gitea has for a merchant
  copy,      \* user_info and merchant_info of a session
  req,       \* the handlers in flight
  used,      \* addresses and passwords that have been used
  calls,     \* how many calls were made
  again,     \* history: addresses whose call was repeated after its commit
  unsure     \* history: merchants whose password got lost between gitea and
             \* the table: an answer or a write failed, or two resets overlapped

vars == <<users, merchants, gitea, copy, req, used, calls, again, unsure>>

States == {"normal", "disabled", "banned"}

User == [banned: BOOLEAN, recipients: Seq(Addresses)]
Merchant == [state: States, name: Names \cup {None}, mchid: Names \cup {None},
             pw: Passwords \cup {None}]

NewUser == [banned |-> FALSE, recipients |-> <<>>]
NewMerchant ==
  [state |-> "normal", name |-> None, mchid |-> None, pw |-> None]

Ops == {"none", "ban", "disable", "enable", "mchid", "rename", "reset", "add", "erase"}
Pcs == {"idle", "gitea", "loadUser", "writeUser", "loadMerchant", "writeMerchant"}
Args == Addresses \cup Names \cup Passwords \cup {None} \cup Nat

\* A handler: the row whose field it changes and the copies it has loaded.
\* stale: somebody has written the row since it was loaded.
Request == [op: Ops, pc: Pcs, s: Sessions, uid: Users, arg: Args,
            user: User, merchant: Merchant, stale: BOOLEAN, repeats: Nat]

Start(s, op, pc, u, arg) ==
  [op |-> op, pc |-> pc, s |-> s, uid |-> u, arg |-> arg,
   user |-> NewUser, merchant |-> NewMerchant, stale |-> FALSE, repeats |-> 0]

\* A slot without a handler
Idle == Start(CHOOSE s \in Sessions : TRUE, "none", "idle",
              CHOOSE u \in Users : TRUE, None)

\* retry_database_op does it all again, from pc on.
Repeat(q, pc) == [q EXCEPT !.pc = pc, !.repeats = @ + 1]

Finish(r) == req' = [req EXCEPT ![r] = Idle]

\* A write of row u makes the copies of it that others mean to write stale.
AfterWrite(r, u, pc, next) ==
  req' = [q \in Reqs |->
            IF q = r THEN next
            ELSE IF req[q].pc = pc /\ req[q].uid = u
                 THEN [req[q] EXCEPT !.stale = TRUE]
                 ELSE req[q]]

-----------------------------------------------------------------------------
(* What the updaters change *)

\* Mutant of ChangeUser: everything from the place on is erased.
ChangeUser_ErasesTail(q) ==
  CASE q.op = "ban" -> [q.user EXCEPT !.banned = TRUE]
    [] q.op = "add" -> [q.user EXCEPT !.recipients = Append(@, q.arg)]
    [] q.op = "erase" /\ q.arg < Len(q.user.recipients) ->
         [q.user EXCEPT !.recipients = SubSeq(@, 1, q.arg)]
    [] OTHER -> q.user

\* Mutant of ChangeUser: an address is added to a user whose other columns are
\* what the session knows.
ChangeUser_FromSession(q) ==
  CASE q.op = "ban" -> [q.user EXCEPT !.banned = TRUE]
    [] q.op = "add" -> [q.user EXCEPT !.recipients = Append(@, q.arg),
                                      !.banned = copy[q.s].user.banned]
    [] q.op = "erase" /\ q.arg < Len(q.user.recipients) ->
         [q.user EXCEPT !.recipients = RemoveAt(@, q.arg + 1)]
    [] OTHER -> q.user

\* admin_user_ban, user_add_recipient_address and user_erase_receipt_address;
\* an address is erased by its place in the list.
ChangeUser(q) ==
  CASE q.op = "ban" -> [q.user EXCEPT !.banned = TRUE]
    [] q.op = "add" -> [q.user EXCEPT !.recipients = Append(@, q.arg)]
    [] q.op = "erase" /\ q.arg < Len(q.user.recipients) ->
         [q.user EXCEPT !.recipients = RemoveAt(@, q.arg + 1)]
    [] OTHER -> q.user

\* admin_user_ban, admin_disable_merchants, admin_reenable_merchants,
\* admin_set_merchant_wxpay_submchid, merchant_alter_name and
\* merchant_reset_gitea_password
ChangeMerchant(q) ==
  CASE q.op = "ban" -> [q.merchant EXCEPT !.state = "banned"]
    [] q.op = "disable" -> [q.merchant EXCEPT !.state = "disabled"]
    [] q.op = "enable" -> [q.merchant EXCEPT !.state = "normal"]
    [] q.op = "mchid" -> [q.merchant EXCEPT !.mchid = q.arg]
    [] q.op = "rename" -> [q.merchant EXCEPT !.name = q.arg]
    [] q.op = "reset" -> [q.merchant EXCEPT !.pw = q.arg]

-----------------------------------------------------------------------------
(* Calls *)

Arrive(r, s, op, pc, u, arg) ==
  /\ op \in Enabled /\ calls < MaxCalls /\ calls' = calls + 1
  /\ req[r].pc = "idle"
  /\ req' = [req EXCEPT ![r] = Start(s, op, pc, u, arg)]
  /\ UNCHANGED <<users, merchants, gitea, copy, again>>

\* An administrator bans any user.
Ban(r, s, u) ==
  Arrive(r, s, "ban", "loadUser", u, None) /\ UNCHANGED <<used, unsure>>

\* An administrator disables, enables or sets the sub merchant id.
Administer(r, s, u) ==
  /\ \/ \E op \in {"disable", "enable"} :
          Arrive(r, s, op, "loadMerchant", u, None)
     \/ \E n \in Names : Arrive(r, s, "mchid", "loadMerchant", u, n)
  /\ UNCHANGED <<used, unsure>>

\* A merchant changes his name.
Rename(r, s) ==
  /\ Owner[s] \in Merchants
  /\ \E n \in Names : Arrive(r, s, "rename", "loadMerchant", Owner[s], n)
  /\ UNCHANGED <<used, unsure>>

\* A merchant asks for another gitea password. History: a reset that overlaps
\* another one of the merchant may be the first at gitea and the last here.
Reset(r, s, p) ==
  /\ Owner[s] \in Merchants /\ p \in Passwords \ used
  /\ Arrive(r, s, "reset", "gitea", Owner[s], p)
  /\ used' = used \cup {p}
  /\ unsure' = IF \E q \in Reqs : req[q].op = "reset" /\ req[q].uid = Owner[s]
               THEN unsure \cup {Owner[s]} ELSE unsure

\* A user adds an address.
Add(r, s, a) ==
  /\ a \in Addresses \ used
  /\ Arrive(r, s, "add", "loadUser", Owner[s], a)
  /\ used' = used \cup {a} /\ UNCHANGED unsure

\* A user erases an address of the list that his session has shown.
Erase(r, s) ==
  /\ \E i \in 1..Len(copy[s].user.recipients) :
       Arrive(r, s, "erase", "loadUser", Owner[s], i - 1)
  /\ UNCHANGED <<used, unsure>>

\* user_list_recipient_address and merchant_info load the rows again.
Reload(s) ==
  /\ \/ copy' = [copy EXCEPT ![s].user = users[Owner[s]]]
     \/ /\ Owner[s] \in Merchants
        /\ copy' = [copy EXCEPT ![s].merchant = merchants[Owner[s]]]
  /\ UNCHANGED <<users, merchants, gitea, req, used, calls, again, unsure>>

-----------------------------------------------------------------------------
(* Steps *)

\* Mutant of ChangePassword: the answer of gitea is not looked at.
ChangePassword_Ignored(r) ==
  LET q == req[r] IN
  /\ q.pc = "gitea"
  /\ \/ /\ gitea' = [gitea EXCEPT ![q.uid] = q.arg]
        /\ copy' = [copy EXCEPT ![q.s].merchant.pw = q.arg]
        /\ req' = [req EXCEPT ![r].pc = "loadMerchant"] /\ UNCHANGED unsure
     \/ /\ req' = [req EXCEPT ![r].pc = "loadMerchant"]
        /\ UNCHANGED <<gitea, copy, unsure>>
  /\ UNCHANGED <<users, merchants, used, calls, again>>

\* change_password: gitea takes the password or refuses it, or its answer is
\* lost. The session knows the password from then on.
ChangePassword(r) ==
  LET q == req[r] IN
  /\ q.pc = "gitea"
  /\ \/ /\ gitea' = [gitea EXCEPT ![q.uid] = q.arg]
        /\ copy' = [copy EXCEPT ![q.s].merchant.pw = q.arg]
        /\ req' = [req EXCEPT ![r].pc = "loadMerchant"] /\ UNCHANGED unsure
     \/ /\ gitea' = [gitea EXCEPT ![q.uid] = q.arg]
        /\ unsure' = unsure \cup {q.uid} /\ Finish(r) /\ UNCHANGED copy
     \/ Finish(r) /\ UNCHANGED <<gitea, copy, unsure>>
  /\ UNCHANGED <<users, merchants, used, calls, again>>

\* The updater of a recipient call changes user_info of the session before
\* the write.
LoadUser(r) ==
  LET q == [req[r] EXCEPT !.pc = "writeUser", !.user = users[req[r].uid],
                          !.stale = FALSE]
  IN
  /\ req[r].pc = "loadUser" /\ req' = [req EXCEPT ![r] = q]
  /\ copy' = IF q.op = "ban" THEN copy
             ELSE [copy EXCEPT ![q.s].user = ChangeUser(q)]
  /\ UNCHANGED <<users, merchants, gitea, used, calls, again, unsure>>

\* The write is committed; the handler goes on, or does all of it again. A ban
\* goes on with the merchant.
WriteUser(r) ==
  LET q == req[r] IN
  /\ q.pc = "writeUser"
  /\ users' = [users EXCEPT ![q.uid] = ChangeUser(q)]
  /\ \/ /\ q.repeats < MaxRepeats
        /\ AfterWrite(r, q.uid, "writeUser", Repeat(q, "loadUser"))
        /\ again' = IF q.op = "add" THEN again \cup {q.arg} ELSE again
     \/ /\ AfterWrite(r, q.uid, "writeUser",
                      IF q.op = "ban" THEN [q EXCEPT !.pc = "loadMerchant"]
                      ELSE Idle)
        /\ UNCHANGED again
  /\ UNCHANGED <<merchants, gitea, copy, used, calls, unsure>>

\* A uid that is not a merchant's ends the handler.
LoadMerchant(r) ==
  LET q == req[r] IN
  /\ q.pc = "loadMerchant"
  /\ req' = [req EXCEPT ![r] =
       IF q.uid \in Merchants
       THEN [q EXCEPT !.pc = "writeMerchant", !.merchant = merchants[q.uid],
                      !.stale = FALSE]
       ELSE Idle]
  /\ UNCHANGED <<users, merchants, gitea, copy, used, calls, again, unsure>>

\* The write is committed. What is done again is the load and the write, but
\* admin_set_merchant_wxpay_submchid has loaded in a transaction of its own
\* and repeats the write. History: a copy from before a reset takes the old
\* password back.
WriteMerchant(r) ==
  LET q == req[r]
      new == ChangeMerchant(q)
  IN
  /\ q.pc = "writeMerchant"
  /\ merchants' = [merchants EXCEPT ![q.uid] = new]
  /\ \/ /\ q.repeats < MaxRepeats
        /\ AfterWrite(r, q.uid, "writeMerchant",
             Repeat(q, IF q.op = "mchid" THEN "writeMerchant" ELSE "loadMerchant"))
        /\ UNCHANGED copy
     \/ /\ AfterWrite(r, q.uid, "writeMerchant", Idle)
        /\ copy' = IF q.op = "rename" THEN [copy EXCEPT ![q.s].merchant.name = q.arg]
                   ELSE copy
  /\ unsure' = IF q.stale /\ new.pw # merchants[q.uid].pw
               THEN unsure \cup {q.uid} ELSE unsure
  /\ UNCHANGED <<users, gitea, used, calls, again>>

\* A call of the database fails: the handler ends with an error.
Throws(r) ==
  LET q == req[r] IN
  /\ q.pc \notin {"idle", "gitea"} /\ Finish(r)
  /\ unsure' = IF q.op = "reset" THEN unsure \cup {q.uid} ELSE unsure
  /\ UNCHANGED <<users, merchants, gitea, copy, used, calls, again>>

Init ==
  /\ users = [u \in Users |-> NewUser]
  /\ merchants = [u \in Merchants |-> NewMerchant]
  /\ gitea = [u \in Merchants |-> None]
  /\ copy = [s \in Sessions |-> [user |-> NewUser, merchant |-> NewMerchant]]
  /\ req = [r \in Reqs |-> Idle] /\ used = {} /\ calls = 0
  /\ again = {} /\ unsure = {}

Step(r) ==
  \/ ChangePassword(r) \/ LoadUser(r) \/ WriteUser(r) \/ LoadMerchant(r)
  \/ WriteMerchant(r) \/ Throws(r)

Next ==
  \/ \E r \in Reqs, s \in Sessions :
       \/ \E u \in Users : Ban(r, s, u) \/ Administer(r, s, u)
       \/ Rename(r, s) \/ Erase(r, s)
       \/ \E p \in Passwords : Reset(r, s, p)
       \/ \E a \in Addresses : Add(r, s, a)
  \/ \E s \in Sessions : Reload(s)
  \/ \E r \in Reqs : Step(r)

Spec == Init /\ [][Next]_vars

-----------------------------------------------------------------------------
(* Properties *)

\* Type correctness
TypeOK ==
  /\ users \in [Users -> User] /\ merchants \in [Merchants -> Merchant]
  /\ gitea \in [Merchants -> Passwords \cup {None}]
  /\ copy \in [Sessions -> [user: User, merchant: Merchant]]
  /\ req \in [Reqs -> Request]
  /\ \A r \in Reqs : req[r].pc = "writeMerchant" => req[r].uid \in Merchants
  /\ used \subseteq Addresses \cup Passwords /\ calls \in Nat
  /\ again \subseteq Addresses /\ unsure \subseteq Merchants

\* A step that writes row u from a copy older than the row
StaleWrite(pc, u) ==
  \E r \in Reqs : /\ req[r].pc = pc /\ req[r].uid = u /\ req[r].stale
                  /\ req'[r] # req[r]

\* The steps that may undo a ban
Unbans ==
  /\ \A u \in Users :
       users[u].banned => users'[u].banned \/ StaleWrite("writeUser", u)
  /\ \A u \in Merchants :
       merchants[u].state = "banned" =>
         \/ merchants'[u].state = "banned" \/ StaleWrite("writeMerchant", u)
         \/ \E r \in Reqs : /\ req[r].op \in {"disable", "enable"}
                            /\ req[r].uid = u /\ req'[r] # req[r]

\* A ban is undone only by an administrator who enables or disables the
\* merchant, or by a write of the row from a copy older than the ban.
BansStick == [][Unbans]_vars

\* The steps in which an address may go
Drops ==
  \A u \in Users :
    LET old == ToSet(users[u].recipients)
        new == ToSet(users'[u].recipients)
    IN  \/ old \subseteq new \/ StaleWrite("writeUser", u)
        \/ /\ \E r \in Reqs : req[r].op = "erase" /\ req[r].pc = "writeUser"
           /\ \E a \in old : old \ {a} = new

\* An address is in the list twice only if its call was repeated after its
\* first write was committed.
OnceUnlessRepeated ==
  \A u \in Users : \A i, j \in DOMAIN users[u].recipients :
    /\ users[u].recipients[i] = users[u].recipients[j] /\ i # j
    => users[u].recipients[i] \in again

\* An address that is in the list goes only when one is erased, or with a
\* stale write, and only one goes with an erasure; one comes a second time
\* only if its call was repeated.
AddressesStay == [][Drops /\ OnceUnlessRepeated']_vars

\* The password in the table opens the account at gitea whenever no reset is
\* under way, unless a step of a reset has failed, two resets have overlapped
\* or the row was written from an older copy.
PasswordAgrees ==
  \A u \in Merchants :
    \/ merchants[u].pw = gitea[u] \/ u \in unsure
    \/ \E r \in Reqs : req[r].op = "reset" /\ req[r].uid = u
=============================================================================
