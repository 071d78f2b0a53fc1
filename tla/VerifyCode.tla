----------------------------- MODULE VerifyCode -----------------------------
(***************************************************************************)
(* Verify codes: send_verify_code starts sendsms_verify, reads the code it *)
(* sent from its output and puts it into a utility::timedmap under a new   *)
(* cookie; verify_verify_code looks the cookie up. The coroutine           *)
(* pruge_thread of the map erases what is older than the lifetime and      *)
(* sleeps 30 seconds when there was nothing to erase.                      *)
(*                                                                         *)
(* Time passes in ticks. A timer fires on time, while everything else may  *)
(* take any number of ticks.                                               *)
(***************************************************************************)
EXTENDS Integers

CONSTANTS
  Tels,        \* telephone numbers
  Cookies,     \* what gen_uuid returns
  Codes,       \* codes
  Senders,     \* slots: how many send_verify_code run at the same time
  NoTel,       \* the number of a slot that is not in use
  Lifetime,    \* the lifetime of the map, 5 minutes in ticks
  PurgeEvery,  \* 30 seconds in ticks
  MaxTime      \* bound: ticks

ConstantsAssumption ==
  /\ Lifetime \in Nat \ {0} /\ PurgeEvery \in Nat \ {0}
  /\ MaxTime \in Nat /\ NoTel \notin Tels

VARIABLES
  now,       \* the steady clock
  stor,      \* timedmap::stor
  wake,      \* when the timer of pruge_thread expires
  sending,   \* send_verify_code in flight: the number, by slot
  issued,    \* history: every entry put
  oldest     \* history: the greatest age at which a code was accepted

vars == <<now, stor, wake, sending, issued, oldest>>

Entries == [key: Cookies, value: Codes, at: Nat]

\* The sendsms_verify process is started.
SendSms(s, t) ==
  /\ sending[s] = NoTel
  /\ sending' = [sending EXCEPT ![s] = t]
  /\ UNCHANGED <<now, stor, wake, issued, oldest>>

\* timedmap::put, whose key index is unique. The cookie is a new uuid.
Put(s, k, v) ==
  /\ sending[s] # NoTel
  /\ \A e \in issued : e.key # k
  /\ LET e == [key |-> k, value |-> v, at |-> now]
     IN  stor' = stor \cup {e} /\ issued' = issued \cup {e}
  /\ sending' = [sending EXCEPT ![s] = NoTel]
  /\ UNCHANGED <<now, wake, oldest>>

\* The process ends without a line: async_read_until throws.
SendFails(s) ==
  /\ sending[s] # NoTel
  /\ sending' = [sending EXCEPT ![s] = NoTel]
  /\ UNCHANGED <<now, stor, wake, issued, oldest>>

\* verify_verify_code: timedmap::get under the cookie equals the code. The
\* entry stays.
Verify(k, v) ==
  /\ \E e \in stor : /\ e.key = k /\ e.value = v
                     /\ oldest' = IF now - e.at > oldest THEN now - e.at
                                  ELSE oldest
  /\ UNCHANGED <<now, stor, wake, sending, issued>>

\* Mutant of Purge: lower_bound, entries exactly as old as the lifetime stay.
Purge_LowerBound ==
  /\ now >= wake
  /\ LET old == {e \in stor : e.at < now - Lifetime}
     IN  /\ stor' = stor \ old
         /\ wake' = IF old = {} THEN now + PurgeEvery ELSE now
  /\ UNCHANGED <<now, sending, issued, oldest>>

\* One round of pruge_thread. When something was erased, the time to sleep
\* is the insert_time of the last one minus pruge_time, which is not
\* positive: the next round follows at once.
Purge ==
  /\ now >= wake
  /\ LET old == {e \in stor : e.at <= now - Lifetime}
     IN  /\ stor' = stor \ old
         /\ wake' = IF old = {} THEN now + PurgeEvery ELSE now
  /\ UNCHANGED <<now, sending, issued, oldest>>

Tick ==
  /\ now < wake /\ now < MaxTime
  /\ now' = now + 1
  /\ UNCHANGED <<stor, wake, sending, issued, oldest>>

Init ==
  /\ now = 0 /\ stor = {} /\ wake = 0
  /\ sending = [s \in Senders |-> NoTel]
  /\ issued = {} /\ oldest = 0

Next ==
  \/ \E s \in Senders, t \in Tels : SendSms(s, t)
  \/ \E s \in Senders, k \in Cookies, v \in Codes : Put(s, k, v)
  \/ \E s \in Senders : SendFails(s)
  \/ \E k \in Cookies, v \in Codes : Verify(k, v)
  \/ Purge \/ Tick

Spec == Init /\ [][Next]_vars

-----------------------------------------------------------------------------
(* Properties *)

\* Type correctness; no cookie has two entries.
TypeOK ==
  /\ now \in Nat /\ wake \in Nat /\ wake <= now + PurgeEvery
  /\ stor \subseteq issued /\ issued \subseteq Entries
  /\ \A d, e \in issued : d.key = e.key => d = e
  /\ sending \in [Senders -> Tels \cup {NoTel}]
  /\ oldest \in Nat

\* timedmap keeps the promise of ExpiringStore with the sleep as the slack: a
\* code can be used for its whole lifetime, whenever the rounds of
\* pruge_thread come, and none is accepted later than one sleep after it,
\* although nothing but that coroutine looks at the age.
Store == INSTANCE ExpiringStore
           WITH Keys <- Cookies, Values <- Codes, Slack <- PurgeEvery

StoreSpec == Store!Spec
=============================================================================
