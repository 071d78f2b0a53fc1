------------------------------- MODULE PayUrl -------------------------------
(***************************************************************************)
(* order_get_pay_url: the seller's getpayurl.js is run for an order, and   *)
(* payment_impl::get_payurl makes calls for the same order take turns with *)
(* the set awaiting_orders: a caller that finds its order in the set polls *)
(* every 50ms until it is gone. Callers run on the threads of different    *)
(* io_contexts; exclude_run makes each look at the set atomic, but is not  *)
(* held while a caller sleeps or while the script runs.                    *)
(***************************************************************************)
EXTENDS Naturals

CONSTANTS
  Orders,    \* order ids
  Reqs,      \* callers, each of which calls at most MaxCalls times
  MaxCalls,  \* bound: calls per caller
  NoOrder,   \* the order of a caller that is not in the function
  Group      \* caller -> 1 or 2: close_all_ws closes the connections of the
             \* ws acceptors first, those of the others after them

ASSUME ConstantsAssumption ==
  /\ MaxCalls \in Nat /\ NoOrder \notin Orders
  /\ Group \in [Reqs -> 1..2]

VARIABLES
  awaiting_orders, \* the set of the same name
  pc,              \* "idle", "load", "wait" or "run", by caller
  oid,             \* the order it is about
  calls,           \* calls begun, by caller
  closed,          \* how many groups of connections stop() has closed
  abandoned        \* history: orders a caller was cancelled waiting for

vars == <<awaiting_orders, pc, oid, calls, closed, abandoned>>

Inside == {"load", "wait", "run"}

Move(r, to) == pc' = [pc EXCEPT ![r] = to]

-----------------------------------------------------------------------------
\* order_get_pay_url arrives on an open connection.
Call(r, o) ==
  /\ pc[r] = "idle" /\ calls[r] < MaxCalls /\ Group[r] > closed
  /\ Move(r, "load")
  /\ oid' = [oid EXCEPT ![r] = o]
  /\ calls' = [calls EXCEPT ![r] = @ + 1]
  /\ UNCHANGED <<awaiting_orders, closed, abandoned>>

\* The call ends before get_payurl has its scoped_exit: order_not_found, no
\* repository, no_payment_script_supplyed, or its connection is closed.
Refuse(r) ==
  /\ pc[r] = "load"
  /\ Move(r, "idle")
  /\ oid' = [oid EXCEPT ![r] = NoOrder]
  /\ UNCHANGED <<awaiting_orders, calls, closed, abandoned>>

\* Mutant of Enter: the set is not looked at before the insert.
Enter_NoTest(r) ==
  /\ pc[r] = "load"
  /\ awaiting_orders' = awaiting_orders \cup {oid[r]}
  /\ Move(r, "run")
  /\ UNCHANGED <<oid, calls, closed, abandoned>>

\* The order and the seller's getpayurl.js have been loaded. Under
\* exclude_run: take the order, or wait for its turn.
Enter(r) ==
  /\ pc[r] = "load"
  /\ IF oid[r] \in awaiting_orders
     THEN Move(r, "wait") /\ UNCHANGED awaiting_orders
     ELSE Move(r, "run") /\ awaiting_orders' = awaiting_orders \cup {oid[r]}
  /\ UNCHANGED <<oid, calls, closed, abandoned>>

\* Mutant of Wake: a caller lets the others that wait for the order go first.
Wake_Polite(r) ==
  /\ pc[r] = "wait" /\ oid[r] \notin awaiting_orders
  /\ \A q \in Reqs \ {r} : ~(pc[q] = "wait" /\ oid[q] = oid[r])
  /\ Move(r, "run")
  /\ awaiting_orders' = awaiting_orders \cup {oid[r]}
  /\ UNCHANGED <<oid, calls, closed, abandoned>>

\* The 50ms timer fires and the order is free. While it is not, the loop
\* goes on waiting, which changes nothing.
Wake(r) ==
  /\ pc[r] = "wait" /\ oid[r] \notin awaiting_orders
  /\ Move(r, "run")
  /\ awaiting_orders' = awaiting_orders \cup {oid[r]}
  /\ UNCHANGED <<oid, calls, closed, abandoned>>

\* The frame of get_payurl is left: ~scoped_exit erases the order.
Leave(r) ==
  /\ Move(r, "idle")
  /\ awaiting_orders' = awaiting_orders \ {oid[r]}
  /\ oid' = [oid EXCEPT ![r] = NoOrder]

\* Mutant of ScriptEnds: the order is erased on the normal path only, so a
\* script that fails to start leaves it behind.
ScriptEnds_NoCleanup(r) ==
  /\ pc[r] = "run"
  /\ Move(r, "idle")
  /\ oid' = [oid EXCEPT ![r] = NoOrder]
  /\ UNCHANGED <<awaiting_orders, calls, closed, abandoned>>

\* run_script returns what getpayurl.js printed, or nothing after its 5s, or
\* throws: the script's url is replied, or an error.
ScriptEnds(r) ==
  /\ pc[r] = "run"
  /\ Leave(r)
  /\ UNCHANGED <<calls, closed, abandoned>>

\* stop() closes the connections of the next group.
CloseGroup ==
  /\ closed < 2
  /\ closed' = closed + 1
  /\ UNCHANGED <<awaiting_orders, pc, oid, calls, abandoned>>

\* client_connection::close has emitted cancellation: the timer's wait or the
\* script's throws, and the frame is unwound.
Cancel(r) ==
  /\ Group[r] <= closed /\ pc[r] \in {"wait", "run"}
  /\ Leave(r)
  /\ abandoned' = IF pc[r] = "wait" THEN abandoned \cup {oid[r]} ELSE abandoned
  /\ UNCHANGED <<calls, closed>>

Init ==
  /\ awaiting_orders = {} /\ abandoned = {}
  /\ pc = [r \in Reqs |-> "idle"]
  /\ oid = [r \in Reqs |-> NoOrder]
  /\ calls = [r \in Reqs |-> 0]
  /\ closed = 0

Step(r) == Enter(r) \/ Wake(r) \/ ScriptEnds(r)

Next ==
  \/ \E r \in Reqs : \/ \E o \in Orders : Call(r, o)
                     \/ Step(r) \/ Refuse(r) \/ Cancel(r)
  \/ CloseGroup

Spec == Init /\ [][Next]_vars

\* A caller is carried on by its io_context; its timer fires, its script ends
\* or is killed after 5s.
FairSpec == Spec /\ \A r \in Reqs : WF_vars(Step(r))

-----------------------------------------------------------------------------
(* Properties *)

\* Type correctness; a caller inside the function is there for an order.
TypeOK ==
  /\ awaiting_orders \subseteq Orders /\ abandoned \subseteq Orders
  /\ pc \in [Reqs -> Inside \cup {"idle"}]
  /\ oid \in [Reqs -> Orders \cup {NoOrder}]
  /\ \A r \in Reqs : pc[r] # "idle" <=> oid[r] # NoOrder
  /\ calls \in [Reqs -> 0..MaxCalls] /\ closed \in 0..2

\* The comment in get_payurl, "wait for exclusive orders": getpayurl.js never
\* runs twice at a time for one order.
Exclusive ==
  \A r, q \in Reqs : pc[r] = "run" /\ pc[q] = "run" /\ oid[r] = oid[q] => r = q

\* getpayurl.js never runs twice at a time for an order unless a caller was
\* cancelled while it waited for that order: its scoped_exit erases an entry
\* of awaiting_orders that is somebody else's.
ExclusiveUnlessAbandoned ==
  \A r, q \in Reqs :
    pc[r] = "run" /\ pc[q] = "run" /\ oid[r] = oid[q] /\ oid[r] \notin abandoned
      => r = q

\* An entry of awaiting_orders always has a script running behind it, also
\* after cancelled and failed calls: no order stays blocked with nobody left
\* to erase it.
NoOrphanEntry ==
  \A o \in awaiting_orders : \E r \in Reqs : pc[r] = "run" /\ oid[r] = o

\* Every call comes to an end: a caller that polls is not overtaken for ever
\* by the finitely many other calls.
CallsEnd == \A r \in Reqs : pc[r] # "idle" ~> pc[r] = "idle"

=============================================================================
