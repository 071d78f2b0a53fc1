------------------------------- MODULE WxConfig -------------------------------
(***************************************************************************)
(* The configuration of WeChat payment: admin_set_wxpay_detail replaces    *)
(* the rows of cmall_config with erase_and_insert and spawns load_configs, *)
(* which reads all rows and gives them to the wxpay_service of their       *)
(* appid. The server also loads them when it starts.                       *)
(*                                                                         *)
(* cmall_config has no unique index, and under READ COMMITTED a DELETE     *)
(* sees the rows that are committed when it starts, so that two sets may   *)
(* both leave their rows. load_configs counts the rows it has used.        *)
(***************************************************************************)
EXTENDS Naturals, FiniteSets

CONSTANTS
  Fields,      \* names of rows, "appid" among them (7 in the code)
  Calls,       \* calls of admin_set_wxpay_detail: what each brings
  Apps,        \* appids
  AppOf,       \* the appid of a call
  None,        \* there is no service for an appid
  Reqs,        \* handlers and loads in flight
  MaxBatches,  \* bound: transactions that insert
  MaxStarts    \* bound: starts of the server

ConstantsAssumption ==
  /\ "appid" \in Fields /\ IsFiniteSet(Fields)
  /\ Calls # {} /\ AppOf \in [Calls -> Apps]
  /\ None \notin [Fields -> Calls] /\ MaxBatches \in Nat /\ MaxStarts \in Nat

VARIABLES
  rows,     \* cmall_config: name, the call whose value it has, and the
            \* transaction that has inserted it
  batches,  \* how many transactions have inserted rows
  services, \* wxpay_services: the configuration of an appid
  req,      \* handlers and loads in flight
  up,       \* the server is running
  starts,   \* how often it was started
  crowded,  \* history: transactions that overlapped others
  unsure    \* history: since the last set that began alone, or the start,
            \* something overlapped, a call failed or a load was repeated

vars == <<rows, batches, services, req, up, starts, crowded, unsure>>

Row == [field: Fields, call: Calls, batch: Nat]

\* pc: the DELETE is under way, the rows are inserted, the rows are loaded,
\* the configuration is applied; seen: what the DELETE or the load has seen;
\* twice: the load has them twice; alone: no other set is under way
Handler == [pc: {"idle", "delete", "insert", "load", "apply"},
            call: Calls, seen: SUBSET Row, twice: BOOLEAN, alone: BOOLEAN]

Idle == [pc |-> "idle", call |-> CHOOSE c \in Calls : TRUE, seen |-> {},
         twice |-> FALSE, alone |-> TRUE]

Busy(r) == \E q \in Reqs \ {r} : req[q].pc # "idle"

Setting(q) == req[q].pc \in {"delete", "insert"}

\* Rows that a transaction has deleted and not committed
Locked(r) == UNION {req[q].seen : q \in {q \in Reqs \ {r} : req[q].pc = "insert"}}

-----------------------------------------------------------------------------
(* admin_set_wxpay_detail *)

\* The DELETE begins. History: the sets that are under way are not alone.
SetWxpayDetail(r, c) ==
  /\ up /\ req[r].pc = "idle"
  /\ LET alone == ~\E q \in Reqs : Setting(q)
     IN  req' = [q \in Reqs |->
           IF q = r THEN [Idle EXCEPT !.pc = "delete", !.call = c, !.seen = rows,
                                      !.alone = alone]
           ELSE IF Setting(q) THEN [req[q] EXCEPT !.alone = FALSE] ELSE req[q]]
  /\ unsure' = Busy(r)
  /\ UNCHANGED <<rows, batches, services, up, starts, crowded>>

\* It waits for others that have deleted the same rows, and deletes what is
\* left of them.
Erase(r) ==
  /\ req[r].pc = "delete" /\ req[r].seen \cap Locked(r) = {}
  /\ req' = [req EXCEPT ![r].pc = "insert", ![r].seen = @ \cap rows]
  /\ UNCHANGED <<rows, batches, services, up, starts, crowded, unsure>>

\* The rows of the call are inserted and the transaction is committed.
\* load_configs is spawned, or the connection was lost and all is done again.
Commit(r) ==
  LET new == {[field |-> f, call |-> req[r].call, batch |-> batches + 1] : f \in Fields}
  IN
  /\ req[r].pc = "insert" /\ batches < MaxBatches /\ batches' = batches + 1
  /\ rows' = (rows \ req[r].seen) \cup new
  /\ crowded' = IF req[r].alone THEN crowded ELSE crowded \cup {batches'}
  /\ \/ req' = [req EXCEPT ![r] = [@ EXCEPT !.pc = "load", !.seen = {}]]
     \/ req' = [req EXCEPT ![r] = [@ EXCEPT !.pc = "delete", !.seen = rows']]
  /\ UNCHANGED <<services, up, starts, unsure>>

\* The connection is lost before the commit, and it is done again.
Repeats(r) ==
  /\ Setting(r)
  /\ req' = [req EXCEPT ![r] = [@ EXCEPT !.pc = "delete", !.seen = rows]]
  /\ UNCHANGED <<rows, batches, services, up, starts, crowded, unsure>>

\* The call ends with an error. Rows that were committed by an attempt before
\* stay, and are not loaded.
GivesUp(r) ==
  /\ Setting(r) /\ req' = [req EXCEPT ![r] = Idle] /\ unsure' = TRUE
  /\ UNCHANGED <<rows, batches, services, up, starts, crowded>>

-----------------------------------------------------------------------------
(* load_configs *)

\* The rows are loaded; twice, if the connection was lost at the end, for the
\* result is not cleared before the load is repeated.
Load(r) ==
  /\ req[r].pc = "load"
  /\ \E twice \in BOOLEAN :
       /\ req' = [req EXCEPT ![r] = [@ EXCEPT !.pc = "apply", !.seen = rows,
                                              !.twice = twice]]
       /\ unsure' = (unsure \/ twice)
  /\ UNCHANGED <<rows, batches, services, up, starts, crowded>>

\* complete == 7
Complete(h) ==
  (IF h.twice THEN 2 ELSE 1) * Cardinality(h.seen) = Cardinality(Fields)

\* What the loop over the rows leaves: of two rows with a name the last one,
\* and the order of the rows is not determined.
Read(h) ==
  {cfg \in [Fields -> Calls] :
     \A f \in Fields : \E x \in h.seen : x.field = f /\ x.call = cfg[f]}

\* Mutant of Apply: a service that is there keeps its configuration.
Apply_NoReinit(r) ==
  /\ req[r].pc = "apply" /\ req' = [req EXCEPT ![r] = Idle]
  /\ IF Complete(req[r])
     THEN \E cfg \in Read(req[r]) :
            services' = [services EXCEPT ![AppOf[cfg["appid"]]] =
                           IF @ = None THEN cfg ELSE @]
     ELSE UNCHANGED services
  /\ UNCHANGED <<rows, batches, up, starts, crowded, unsure>>

\* The service of the appid is made, or it gets the new configuration.
Apply(r) ==
  /\ req[r].pc = "apply" /\ req' = [req EXCEPT ![r] = Idle]
  /\ IF Complete(req[r])
     THEN \E cfg \in Read(req[r]) :
            services' = [services EXCEPT ![AppOf[cfg["appid"]]] = cfg]
     ELSE UNCHANGED services
  /\ UNCHANGED <<rows, batches, up, starts, crowded, unsure>>

\* An exception of a load that was spawned leaves run() of the main
\* io_context, and one at the start leaves main: the server ends.
LoadFails(r) ==
  /\ req[r].pc = "load" /\ up' = FALSE
  /\ req' = [q \in Reqs |-> Idle] /\ services' = [a \in Apps |-> None]
  /\ UNCHANGED <<rows, batches, starts, crowded, unsure>>

\* The server is started and loads the configuration. History: rows of two
\* calls are never complete.
Start(r) ==
  /\ ~up /\ starts < MaxStarts /\ starts' = starts + 1 /\ up' = TRUE
  /\ req' = [req EXCEPT ![r] = [Idle EXCEPT !.pc = "load"]]
  /\ unsure' = \E x, y \in rows : x.batch # y.batch
  /\ UNCHANGED <<rows, batches, services, crowded>>

Init ==
  /\ rows = {} /\ batches = 0 /\ services = [a \in Apps |-> None]
  /\ req = [r \in Reqs |-> Idle] /\ up = FALSE /\ starts = 0
  /\ crowded = {} /\ unsure = FALSE

Next ==
  \E r \in Reqs :
    \/ \E c \in Calls : SetWxpayDetail(r, c)
    \/ Erase(r) \/ Commit(r) \/ Repeats(r) \/ GivesUp(r)
    \/ Load(r) \/ Apply(r) \/ LoadFails(r) \/ Start(r)

Spec == Init /\ [][Next]_vars

-----------------------------------------------------------------------------
(* Properties *)

\* Type correctness
TypeOK ==
  /\ rows \subseteq Row /\ batches \in 0..MaxBatches
  /\ services \in [Apps -> [Fields -> Calls] \cup {None}]
  /\ req \in [Reqs -> Handler] /\ up \in BOOLEAN /\ starts \in 0..MaxStarts
  /\ crowded \subseteq 1..batches /\ unsure \in BOOLEAN
  /\ ~up => \A r \in Reqs : req[r].pc = "idle"

\* The key, the certificate and the ids of a service come from one call,
\* under whose appid it is found, although the rows of two calls may be in
\* the table at the same time.
NoMixture ==
  \A a \in Apps : services[a] # None =>
    \E c \in Calls : AppOf[c] = a /\ services[a] = [f \in Fields |-> c]

\* A name is in the table twice only if two sets have overlapped. While it is,
\* no load is complete, and neither is the one of the next start.
OnceUnlessCrowded ==
  \A x, y \in rows : x.field = y.field /\ x # y =>
    x.batch \in crowded \/ y.batch \in crowded

\* A set that began alone prevails: when all is quiet the table has the rows
\* of one call and its service has the configuration, whatever was in the
\* table before, unless something overlapped it, a call ended with an error or
\* a load was repeated. It is so after a start as well, if the table had the
\* rows of one call.
AlonePrevails ==
  up /\ ~unsure /\ (\A r \in Reqs : req[r].pc = "idle") =>
    \A x, y \in rows :
      x.batch = y.batch /\ services[AppOf[x.call]] = [f \in Fields |-> x.call]

\* All of it: the configuration of a service is that of one call.
ConfigOfOneCall == NoMixture /\ OnceUnlessCrowded /\ AlonePrevails
=============================================================================
