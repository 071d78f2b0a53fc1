-------------------------------- MODULE Users --------------------------------
(***************************************************************************)
(* Users side by side: who their connections speak for (Session), the      *)
(* codes they log in with (VC), and their rows and the rows of merchants   *)
(* (Ac).                                                                   *)
(*                                                                         *)
(* They share nothing that a property speaks of. What Session asks of the  *)
(* codes is whether one is accepted, and there it may always be refused;   *)
(* the columns Accounts changes are not the ones Session reads, but for    *)
(* state_ of a merchant and the ban of a user, and Session lets both be    *)
(* anything at any time.                                                   *)
(***************************************************************************)
EXTENDS Session

CONSTANTS
  Cookies, Codes, Senders, Lifetime, PurgeEvery, MaxTime,  \* of VerifyCode
  Users, Merchants, Sessions, Owner, Addresses, Names, Passwords, None,
  MaxRepeats,                                              \* of Accounts
  Changes,    \* the calls that change rows
  MaxChanges  \* bound: those calls

VARIABLES
  \* VerifyCode
  now, stor, wake, sending, issued, oldest,
  \* Accounts
  userRows, merchants, gitea, copy, accReq, used, accCalls, again, unsure

VC == INSTANCE VerifyCode

Ac == INSTANCE Accounts WITH
  Enabled <- Changes, MaxCalls <- MaxChanges,
  users <- userRows, req <- accReq, calls <- accCalls

ASSUME UsersAssumption ==
  ConstantsAssumption /\ VC!ConstantsAssumption /\ Ac!ConstantsAssumption

-----------------------------------------------------------------------------
(* Properties of the parts *)

\* Type correctness: ids kept in sessions, handlers and rows are ids of rows
\* that exist, and no cookie has two codes.
UsersTypeOK == TypeOK /\ VC!TypeOK /\ Ac!TypeOK

\* timedmap keeps the promise of ExpiringStore.
StoreSpec == VC!StoreSpec

\* The password in the table opens the account at gitea whenever no reset is
\* under way, unless a step of a reset has failed, two have overlapped or the
\* row was written from an older copy.
PasswordAgrees == Ac!PasswordAgrees

\* A ban is undone only by an administrator who enables or disables the
\* merchant, or by a write of the row from a copy older than the ban.
BansStick == Ac!BansStick

\* An address goes only when one is erased, or with a stale write, and only
\* one goes with an erasure; one comes a second time only if its call was
\* repeated after its first write was committed.
AddressesStay == Ac!AddressesStay
=============================================================================
