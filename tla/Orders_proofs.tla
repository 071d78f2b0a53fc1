---------------------------- MODULE Orders_proofs ----------------------------
(***************************************************************************)
(* What Orders promises about payments, about the waybills of an order and *)
(* about what its row may forget, for any number of orders, users,         *)
(* concurrent handlers, retries and restarts.                              *)
(***************************************************************************)
EXTENDS Orders, TLAPS

\* The part of the state a handler's own step leaves to the handler.
WorldOK ==
  /\ crashes \in 0..MaxCrashes
  /\ prepaid \in [Orders -> SUBSET Int] /\ charged \in [Orders -> SUBSET Int]
  /\ said \subseteq Said \X Orders
  /\ issued \subseteq Waybills /\ confirmed \subseteq Orders
  /\ recorded \subseteq Orders /\ totals \in [Orders -> SUBSET Int]

\* Handler r becomes h, the other handlers and the table stay.
Becomes(r, h) == req' = [req EXCEPT ![r] = h] /\ UNCHANGED table

\* Handler r writes its copy and becomes mine.
Writes(r, mine) ==
  req[r].pc = "write" /\ Storable(r) /\ Store(r) /\ req' = AfterWrite(r, mine)

\* Places where a handler holds a copy of a row.
HasCopy == {"script", "prepay", "write"}

-----------------------------------------------------------------------------
(* Records *)

\* A slot that is not in use has the type of a handler.
LEMMA IdleFacts ==
  /\ Idle \in Request /\ HandlerOK(Idle)
  /\ Idle.op = "none" /\ Idle.pc = "idle" /\ Idle.oid = None
  BY DEF Idle, Handler, Request, Pcs, HandlerOK

\* A handler about a stored order that holds no copy of it.
LEMMA HandlerFacts ==
  ASSUME NEW op \in AllOps \ {"create"}, NEW who \in Users \cup {None},
         NEW o \in Orders, o \in DOMAIN table, NEW pc \in {"load", "status"}
  PROVE  LET h == Handler(op, who, o, pc)
         IN  /\ h \in Request /\ HandlerOK(h)
             /\ h.op = op /\ h.who = who /\ h.oid = o /\ h.pc = pc
<1> DEFINE h == Handler(op, who, o, pc)
<1>1. /\ h.op = op /\ h.who = who /\ h.oid = o /\ h.pc = pc
  BY DEF Handler
<1>2. h \in Request
  BY DEF Handler, Request, Pcs
<1> HIDE DEF h
<1>3. HandlerOK(h)
  BY <1>1 DEF HandlerOK, AllOps
<1> QED
  BY <1>1, <1>2, <1>3 DEF h

\* A handler that keeps a row.
LEMMA KeepFacts ==
  ASSUME NEW r \in Reqs, TypeOK, req[r].pc = "load", NEW pc \in HasCopy,
         NEW row \in Row, Keep(r, pc, row), UNCHANGED table
  PROVE  \E h \in Request :
           /\ Becomes(r, h) /\ HandlerOK(h)
           /\ h.op = req[r].op /\ h.who = req[r].who /\ h.oid = req[r].oid
           /\ h.pc = pc /\ h.copy = row
<1> DEFINE h == [req[r] EXCEPT !.pc = pc, !.copy = row, !.stale = FALSE]
<1>1. Becomes(r, h)
  BY DEF Keep, Becomes
<1>2. req[r] \in Request /\ HandlerOK(req[r]) /\ pc \in Pcs
  BY DEF TypeOK, HasCopy, Pcs
<1>3. /\ h \in Request
      /\ h.op = req[r].op /\ h.who = req[r].who /\ h.oid = req[r].oid
      /\ h.pc = pc /\ h.copy = row
  BY <1>2 DEF Request
<1> HIDE DEF h
<1>4. HandlerOK(h)
  BY <1>2, <1>3 DEF HandlerOK, HasCopy
<1> QED
  BY <1>1, <1>3, <1>4

\* What the handlers do to the row they keep.
LEMMA RowFacts ==
  ASSUME NEW row \in Row
  PROVE  /\ LET new == [row EXCEPT !.payed = TRUE]
            IN  new \in Row /\ new.payed = TRUE /\ new.seller = row.seller
                /\ new.deleted = row.deleted
         /\ LET new == [row EXCEPT !.payed = TRUE, !.deleted = TRUE]
            IN  new \in Row /\ new.payed = TRUE /\ new.deleted = TRUE
                /\ new.seller = row.seller
<1>1. LET new == [row EXCEPT !.payed = TRUE]
      IN  new \in Row /\ new.payed = TRUE /\ new.seller = row.seller
          /\ new.deleted = row.deleted
  BY DEF Row
<1>2. LET new == [row EXCEPT !.payed = TRUE, !.deleted = TRUE]
      IN  new \in Row /\ new.payed = TRUE /\ new.deleted = TRUE
          /\ new.seller = row.seller
  BY DEF Row
<1> QED
  BY <1>1, <1>2

\* checkpay.js has printed "payed".
LEMMA ScriptFacts ==
  ASSUME NEW r \in Reqs, TypeOK, ScriptSaysPayed(r)
  PROVE  \E h \in Request :
           /\ Becomes(r, h) /\ HandlerOK(h)
           /\ h.op = req[r].op /\ h.who = req[r].who /\ h.oid = req[r].oid
           /\ h.pc = "write" /\ h.copy \in Row /\ h.copy.seller = req[r].copy.seller
           /\ h.copy = [req[r].copy EXCEPT !.payed = TRUE] /\ h.copy.payed = TRUE
           /\ h.stale = req[r].stale
<1> DEFINE row == [req[r].copy EXCEPT !.payed = TRUE]
           h == [req[r] EXCEPT !.pc = "write", !.copy = row]
<1>1. Becomes(r, h)
  BY DEF ScriptSaysPayed, Becomes
<1>2. /\ req[r] \in Request /\ HandlerOK(req[r]) /\ req[r].pc = "script"
      /\ req[r].copy \in Row
  BY DEF TypeOK, HandlerOK, ScriptSaysPayed
<1>3. row \in Row /\ row.seller = req[r].copy.seller /\ row.payed = TRUE
  BY <1>2, RowFacts
<1> HIDE DEF row
<1>4. /\ h \in Request
      /\ h.op = req[r].op /\ h.who = req[r].who /\ h.oid = req[r].oid
      /\ h.pc = "write" /\ h.copy = row /\ h.stale = req[r].stale
  BY <1>2, <1>3 DEF Request, Pcs
<1> HIDE DEF h
<1>5. HandlerOK(h)
  BY <1>2, <1>3, <1>4 DEF HandlerOK
<1> QED
  BY <1>1, <1>3, <1>4, <1>5 DEF row

\* What a write of the whole row does to the table.
LEMMA StoreFacts ==
  ASSUME NEW r \in Reqs, TypeOK, req[r].pc = "write", Store(r)
  PROVE  LET o == req[r].oid
         IN  /\ o \in Orders /\ req[r].copy \in Row
             /\ DOMAIN table' = DOMAIN table \cup {o}
             /\ DOMAIN table' \subseteq Orders /\ table' \in [DOMAIN table' -> Row]
             /\ table'[o] = req[r].copy
             /\ \A x \in DOMAIN table \ {o} : table'[x] = table[x]
             /\ totals' \in [Orders -> SUBSET Int]
             /\ Total(req[r].copy) \in totals'[o]
             /\ \A x \in Orders : totals[x] \subseteq totals'[x]
             /\ recorded \subseteq recorded' /\ recorded' \subseteq Orders
             /\ req[r].copy.payed => o \in recorded'
<1> DEFINE o == req[r].oid
           row == req[r].copy
<1>1. o \in Orders /\ row \in Row
  BY DEF TypeOK, HandlerOK
<1>2. Total(row) \in Int
  BY <1>1 DEF Total, Row
<1>3. /\ DOMAIN table' = DOMAIN table \cup {o}
      /\ table'[o] = row
      /\ \A x \in DOMAIN table \ {o} : table'[x] = table[x]
      /\ table' \in [DOMAIN table' -> Row]
  BY <1>1 DEF Store, TypeOK
<1>4. /\ totals' \in [Orders -> SUBSET Int] /\ Total(row) \in totals'[o]
      /\ \A x \in Orders : totals[x] \subseteq totals'[x]
  BY <1>1, <1>2 DEF Store, TypeOK
<1>5. /\ recorded \subseteq recorded' /\ recorded' \subseteq Orders
      /\ row.payed => o \in recorded'
  BY <1>1 DEF Store, TypeOK
<1> QED
  BY <1>1, <1>3, <1>4, <1>5 DEF TypeOK

\* The other handlers only learn that their copy is stale.
LEMMA AfterWriteFacts ==
  ASSUME NEW r \in Reqs, TypeOK, NEW mine \in Request, req' = AfterWrite(r, mine)
  PROVE  /\ req' \in [Reqs -> Request] /\ req'[r] = mine
         /\ \A q \in Reqs \ {r} :
              /\ req'[q].op = req[q].op /\ req'[q].who = req[q].who
              /\ req'[q].oid = req[q].oid /\ req'[q].pc = req[q].pc
              /\ req'[q].copy = req[q].copy
              /\ IF req[q].oid = req[r].oid /\ req[q].pc \in HasCopy
                 THEN req'[q].stale = TRUE ELSE req'[q].stale = req[q].stale
<1>1. ASSUME NEW q \in Reqs
      PROVE  LET h == [req[q] EXCEPT !.stale = TRUE]
             IN  /\ h \in Request
                 /\ h.op = req[q].op /\ h.who = req[q].who /\ h.oid = req[q].oid
                 /\ h.pc = req[q].pc /\ h.copy = req[q].copy /\ h.stale = TRUE
  <2>1. req[q] \in Request
    BY DEF TypeOK
  <2> QED
    BY <2>1 DEF Request
<1>2. req'[r] = mine
  BY DEF AfterWrite
<1>3. ASSUME NEW q \in Reqs \ {r}
      PROVE  IF req[q].oid = req[r].oid /\ req[q].pc \in HasCopy
             THEN req'[q] = [req[q] EXCEPT !.stale = TRUE] ELSE req'[q] = req[q]
  BY DEF AfterWrite, HasCopy
<1>4. ASSUME NEW q \in Reqs \ {r}
      PROVE  /\ req'[q] \in Request
             /\ req'[q].op = req[q].op /\ req'[q].who = req[q].who
             /\ req'[q].oid = req[q].oid /\ req'[q].pc = req[q].pc
             /\ req'[q].copy = req[q].copy
             /\ IF req[q].oid = req[r].oid /\ req[q].pc \in HasCopy
                THEN req'[q].stale = TRUE ELSE req'[q].stale = req[q].stale
  <2>1. req[q] \in Request
    BY DEF TypeOK
  <2> QED
    BY <1>1, <1>3, <2>1
<1>5. req' = [q \in Reqs |-> req'[q]]
  BY DEF AfterWrite
<1> QED
  BY <1>2, <1>4, <1>5

\* A retry is the same handler with one more try.
LEMMA RetryFacts ==
  ASSUME NEW r \in Reqs, TypeOK,
         NEW h, h = [req[r] EXCEPT !.tries = @ + 1]
  PROVE  /\ h \in Request
         /\ h.op = req[r].op /\ h.who = req[r].who /\ h.oid = req[r].oid
         /\ h.pc = req[r].pc /\ h.copy = req[r].copy /\ h.stale = req[r].stale
<1>1. req[r] \in Request
  BY DEF TypeOK
<1> QED
  BY <1>1 DEF Request

-----------------------------------------------------------------------------
(* Steps *)

\* One handler becomes another one that is well formed.
LEMMA SlotTypes ==
  ASSUME TypeOK, NEW r \in Reqs, NEW h \in Request, HandlerOK(h), Becomes(r, h),
         WorldOK'
  PROVE  TypeOK'
<1>1. /\ req' \in [Reqs -> Request] /\ req'[r] = h /\ table' = table
      /\ \A q \in Reqs \ {r} : req'[q] = req[q]
  BY DEF Becomes, TypeOK
<1>2. \A q \in Reqs : HandlerOK(req'[q])
  BY <1>1 DEF TypeOK
<1>3. \A q \in Reqs : HandlerOK(req[q])'
  BY <1>1, <1>2 DEF HandlerOK
<1> QED
  BY <1>1, <1>3 DEF TypeOK, WorldOK

\* One handler writes.
LEMMA WriteTypes ==
  ASSUME TypeOK, NEW r \in Reqs, NEW mine \in Request, HandlerOK(mine),
         Writes(r, mine), UNCHANGED <<crashes, wxVars, issued, confirmed>>,
         said' \subseteq Said \X Orders
  PROVE  TypeOK'
<1>1. /\ DOMAIN table \subseteq DOMAIN table'
      /\ DOMAIN table' \subseteq Orders /\ table' \in [DOMAIN table' -> Row]
      /\ totals' \in [Orders -> SUBSET Int] /\ recorded' \subseteq Orders
  BY StoreFacts DEF Writes
<1>2. /\ req' \in [Reqs -> Request] /\ req'[r] = mine
      /\ \A q \in Reqs \ {r} :
           /\ req'[q].op = req[q].op /\ req'[q].oid = req[q].oid
           /\ req'[q].pc = req[q].pc /\ req'[q].copy = req[q].copy
  BY AfterWriteFacts DEF Writes
<1>3. ASSUME NEW q \in Reqs PROVE HandlerOK(req[q])'
  <2>1. CASE q = r
    BY <1>1, <1>2, <2>1 DEF HandlerOK
  <2>2. CASE q # r
    <3>1. HandlerOK(req[q])
      BY DEF TypeOK
    <3> QED
      BY <1>1, <1>2, <2>2, <3>1 DEF HandlerOK
  <2> QED
    BY <2>1, <2>2
<1> QED
  BY <1>1, <1>2, <1>3 DEF TypeOK, wxVars

\* The rows the loading steps keep, one for each handler.
LEMMA LoadedRow ==
  ASSUME NEW r \in Reqs, TypeOK, req[r].pc = "load"
  PROVE  req[r].oid \in DOMAIN table /\ req[r].oid \in Orders /\ table[req[r].oid] \in Row
<1>1. HandlerOK(req[r])
  BY DEF TypeOK
<1> QED
  BY <1>1 DEF HandlerOK, TypeOK

\* A handler that loads ends, or keeps a row and goes on. The row is payed
\* and visible only for a reason.
LEMMA LoadCases ==
  ASSUME NEW r \in Reqs, TypeOK, Load(r)
  PROVE  /\ req[r].pc = "load"
         /\ UNCHANGED <<table, crashes, prepaid, charged, confirmed, recorded, totals>>
         /\ said \subseteq said' /\ said' \subseteq said \cup {<<"payed", req[r].oid>>}
         /\ said' # said => /\ Visible(r) /\ req[r].op \notin {"prepay", "wx", "wxother"}
                            /\ table[req[r].oid].payed
         /\ issued' \subseteq Waybills
         /\ \/ Becomes(r, Idle)
            \/ \E pc \in HasCopy, row \in Row :
                 /\ Keep(r, pc, row) /\ row.seller = table[req[r].oid].seller
                 /\ pc = "prepay" => row = table[req[r].oid]
                 /\ \/ /\ row.payed = table[req[r].oid].payed
                       /\ row.deleted = table[req[r].oid].deleted
                       /\ req[r].op \notin {"mark", "wx"}
                       /\ pc = "write" => req[r].op \in {"alter", "kuaidi"}
                    \/ /\ req[r].op = "mark" /\ pc = "write"
                       /\ table[req[r].oid].seller = req[r].who
                    \/ req[r].op = "wx" /\ pc = "write" /\ row.payed
                    \/ req[r].op = "delete" /\ pc = "write" /\ row.deleted
<1> DEFINE o == req[r].oid
<1>1. Finish(r) /\ UNCHANGED table => Becomes(r, Idle)
  BY DEF Finish, Becomes
<1>2. req[r].pc = "load"
  BY DEF Load, NotFound, LoadFails, OrderDetail, AlreadyPayed, CheckPayment,
         MarkPayed, AlterOrderPrice, AddKuaidi, DeleteSoldOrder, WxPrepay,
         WxCallback, At
<1>3. o \in DOMAIN table /\ o \in Orders /\ table[o] \in Row
  BY <1>2, LoadedRow
<1>4. issued \subseteq Waybills
  BY DEF TypeOK
<1>5. CASE NotFound(r) \/ LoadFails(r)
  BY <1>1, <1>2, <1>4, <1>5 DEF NotFound, LoadFails, wxVars, history
<1>6. CASE OrderDetail(r) \/ AlreadyPayed(r)
  BY <1>1, <1>2, <1>4, <1>6 DEF OrderDetail, AlreadyPayed, At, wxVars, history
<1>7. CASE CheckPayment(r)
  BY <1>1, <1>2, <1>3, <1>4, <1>7 DEF CheckPayment, HasCopy, wxVars, history
<1>8. CASE MarkPayed(r)
  <2>1. table[o].seller = req[r].who
    BY <1>8 DEF MarkPayed, Visible, At
  <2> DEFINE row == [table[o] EXCEPT !.payed = TRUE]
  <2>2. row \in Row /\ row.seller = table[o].seller
    BY <1>3, RowFacts
  <2>3. /\ Keep(r, "write", row) /\ req[r].op = "mark"
        /\ UNCHANGED <<table, crashes, prepaid, charged, confirmed, recorded, totals,
                       said, issued>>
    BY <1>8 DEF MarkPayed, At, wxVars, history
  <2> HIDE DEF row
  <2> QED
    BY <1>2, <1>4, <2>1, <2>2, <2>3 DEF HasCopy
<1>9. CASE AlterOrderPrice(r)
  <2>1. table[o].price \in Int /\ table[o].fee \in Int
    BY <1>3 DEF Row
  <2>2. PICK p \in Int, f \in Int :
          Keep(r, "write", [table[o] EXCEPT !.price = p, !.fee = f])
    BY <1>9, <2>1, ConstantsAssumption DEF AlterOrderPrice
  <2> DEFINE row == [table[o] EXCEPT !.price = p, !.fee = f]
  <2>3. /\ row \in Row /\ row.payed = table[o].payed
        /\ row.deleted = table[o].deleted /\ row.seller = table[o].seller
    BY <1>3 DEF Row
  <2>4. /\ Keep(r, "write", row) /\ req[r].op = "alter"
        /\ UNCHANGED <<table, crashes, prepaid, charged, confirmed, recorded, totals,
                       said, issued>>
    BY <1>9, <2>2 DEF AlterOrderPrice, At, wxVars, history
  <2> HIDE DEF row
  <2>5. "write" \in HasCopy
    BY DEF HasCopy
  <2> QED
    BY <1>2, <1>4, <2>3, <2>4, <2>5, Zenon
<1>10. CASE AddKuaidi(r)
  <2>1. PICK w \in Waybills :
          /\ Keep(r, "write", [table[o] EXCEPT !.kuaidi = Append(@, w)])
          /\ issued' = issued \cup {w}
    BY <1>10 DEF AddKuaidi
  <2> DEFINE row == [table[o] EXCEPT !.kuaidi = Append(@, w)]
  <2>2. /\ row \in Row /\ row.payed = table[o].payed
        /\ row.deleted = table[o].deleted /\ row.seller = table[o].seller
    <3>1. table[o].kuaidi \in Seq(Waybills)
      BY <1>3 DEF Row
    <3>2. Append(table[o].kuaidi, w) \in Seq(Waybills)
      BY <3>1
    <3> QED
      BY <1>3, <3>2 DEF Row
  <2>3. /\ Keep(r, "write", row) /\ req[r].op = "kuaidi"
        /\ UNCHANGED <<table, crashes, prepaid, charged, confirmed, recorded, totals,
                       said>>
    BY <1>10, <2>1 DEF AddKuaidi, At, wxVars
  <2>4. issued' \subseteq Waybills
    BY <1>4, <2>1
  <2> HIDE DEF row
  <2>5. "write" \in HasCopy
    BY DEF HasCopy
  <2> QED
    BY <1>2, <2>2, <2>3, <2>4, <2>5, Zenon
<1>11. CASE DeleteSoldOrder(r)
  <2> DEFINE row == [table[o] EXCEPT !.payed = TRUE, !.deleted = TRUE]
  <2>1. row \in Row /\ row.deleted = TRUE /\ row.seller = table[o].seller
    BY <1>3, RowFacts
  <2>2. /\ Keep(r, "write", row) /\ req[r].op = "delete"
        /\ UNCHANGED <<table, crashes, prepaid, charged, confirmed, recorded, totals,
                       said, issued>>
    BY <1>11 DEF DeleteSoldOrder, At, wxVars, history
  <2> HIDE DEF row
  <2> QED
    BY <1>2, <1>4, <2>1, <2>2 DEF HasCopy
<1>12. CASE WxPrepay(r)
  BY <1>1, <1>2, <1>3, <1>4, <1>12 DEF WxPrepay, At, HasCopy, wxVars, history
<1>13. CASE WxCallback(r)
  BY <1>1, <1>2, <1>3, <1>4, <1>13, RowFacts
     DEF WxCallback, HasCopy, wxVars, history
<1> QED
  BY <1>5, <1>6, <1>7, <1>8, <1>9, <1>10, <1>11, <1>12, <1>13 DEF Load

\* A new order has a seller and sums, and nobody has payed it.
LEMMA CreateFacts ==
  ASSUME NEW r \in Reqs, NEW who \in Users, NEW o \in Orders, OrderCreate(r, who, o)
  PROVE  \E seller \in Merchants \cup {None}, p \in Int, f \in Int :
           req' = [req EXCEPT ![r] =
             [op |-> "create", who |-> who, oid |-> o, pc |-> "write",
              copy |-> [buyer |-> who, seller |-> seller, price |-> p, fee |-> f,
                        payAmount |-> 0, payed |-> FALSE, closed |-> FALSE,
                        kuaidi |-> <<>>, deleted |-> FALSE],
              stale |-> FALSE, tries |-> 0]]
<1>1. PICK seller \in Merchants \cup {None}, p \in Prices, f \in Fees :
        req' = [req EXCEPT ![r] =
          [op |-> "create", who |-> who, oid |-> o, pc |-> "write",
           copy |-> [buyer |-> who, seller |-> seller,
                     price |-> IF seller = None THEN 0 ELSE p,
                     fee |-> IF seller = None THEN 0 ELSE f,
                     payAmount |-> 0, payed |-> FALSE, closed |-> FALSE,
                     kuaidi |-> <<>>, deleted |-> FALSE],
           stale |-> FALSE, tries |-> 0]]
  BY DEF OrderCreate
<1>2. /\ (IF seller = None THEN 0 ELSE p) \in Int
      /\ (IF seller = None THEN 0 ELSE f) \in Int
  BY ConstantsAssumption
<1> QED
  BY <1>1, <1>2

\* What the two ways of writing have in common.
LEMMA WriteCases ==
  ASSUME NEW r \in Reqs, TypeOK, WriteCommits(r) \/ WriteRecoverable(r)
  PROVE  /\ req[r].pc = "write"
         /\ UNCHANGED <<crashes, prepaid, charged, issued, confirmed>>
         /\ \E h \in Request :
              /\ HandlerOK(h)
              /\ \/ /\ h.op = req[r].op /\ h.who = req[r].who /\ h.oid = req[r].oid
                    /\ \/ /\ h.pc = "write" /\ h.copy = req[r].copy
                          /\ h.stale = req[r].stale
                       \/ h.pc = "status" /\ h.op \in {"check", "mcheck", "mark"}
                 \/ h = Idle
              /\ \/ Becomes(r, h) /\ UNCHANGED <<said, recorded, totals>>
                 \/ /\ Writes(r, h)
                    /\ \/ said' = said
                       \/ req[r].op = "wx" /\ said' = said \cup {<<"ack", req[r].oid>>}
<1>1. req[r].pc = "write" /\ HandlerOK(req[r]) /\ req[r] \in Request
  BY DEF WriteCommits, WriteRecoverable, TypeOK
<1>2. UNCHANGED <<crashes, prepaid, charged, issued, confirmed>>
  BY DEF WriteCommits, WriteRecoverable, wxVars
<1>3. CASE WriteCommits(r)
  <2> DEFINE h == Handler(req[r].op, req[r].who, req[r].oid, "status")
  <2>1. \/ said' = said
        \/ req[r].op = "wx" /\ said' = said \cup {<<"ack", req[r].oid>>}
    BY <1>3 DEF WriteCommits
  <2>2. CASE req[r].op \in {"check", "mcheck", "mark"}
    <3>1. Writes(r, h)
      BY <1>1, <1>3, <2>2 DEF WriteCommits, Writes
    <3>2. /\ req[r].op \in AllOps \ {"create"} /\ req[r].who \in Users \cup {None}
          /\ req[r].oid \in Orders /\ req[r].oid \in DOMAIN table
      BY <1>1, <2>2 DEF AllOps, HandlerOK, Request
    <3>3. ASSUME NEW op \in AllOps \ {"create"}, NEW who \in Users \cup {None},
                 NEW o \in Orders, o \in DOMAIN table
          PROVE  LET g == Handler(op, who, o, "status")
                 IN  /\ g \in Request /\ HandlerOK(g)
                     /\ g.op = op /\ g.who = who /\ g.oid = o /\ g.pc = "status"
      BY <3>3, HandlerFacts
    <3>4. /\ h \in Request /\ HandlerOK(h)
          /\ h.op = req[r].op /\ h.who = req[r].who /\ h.oid = req[r].oid
          /\ h.pc = "status"
      BY <3>2, <3>3
    <3> HIDE DEF h
    <3> QED
      BY <1>1, <1>2, <2>1, <2>2, <3>1, <3>4
  <2>3. CASE req[r].op \notin {"check", "mcheck", "mark"}
    <3>1. Writes(r, Idle)
      BY <1>1, <1>3, <2>3 DEF WriteCommits, Writes
    <3> QED
      BY <1>1, <1>2, <2>1, <3>1, IdleFacts
  <2> QED
    BY <2>2, <2>3
<1>4. CASE WriteRecoverable(r)
  <2> DEFINE h == [req[r] EXCEPT !.tries = @ + 1]
  <2>1. /\ h \in Request
        /\ h.op = req[r].op /\ h.who = req[r].who /\ h.oid = req[r].oid
        /\ h.pc = req[r].pc /\ h.copy = req[r].copy /\ h.stale = req[r].stale
    BY RetryFacts
  <2>2. PICK mine \in {h, Idle} :
          \/ Becomes(r, mine) /\ UNCHANGED <<said, recorded, totals>>
          \/ Writes(r, mine) /\ said' = said
    BY <1>1, <1>4 DEF WriteRecoverable, Becomes, Writes
  <2> HIDE DEF h
  <2>3. HandlerOK(h)
    BY <1>1, <2>1 DEF HandlerOK
  <2>4. CASE mine = h
    BY <1>1, <1>2, <2>1, <2>2, <2>3, <2>4
  <2>5. CASE mine = Idle
    BY <1>1, <1>2, <2>2, <2>5, IdleFacts
  <2> QED
    BY <2>4, <2>5
<1> QED
  BY <1>3, <1>4

\* A step keeps the types.
LEMMA TypeStep == TypeOK /\ [Next]_vars => TypeOK'
<1> SUFFICES ASSUME TypeOK, [Next]_vars PROVE TypeOK'
  OBVIOUS
<1>1. WorldOK
  BY DEF TypeOK, WorldOK
<1>2. CASE UNCHANGED vars
  BY <1>2 DEF vars, TypeOK, HandlerOK
<1>3. ASSUME NEW r \in Reqs, Finish(r), UNCHANGED table, WorldOK' PROVE TypeOK'
  BY <1>3, SlotTypes, IdleFacts DEF Finish, Becomes
<1>4. ASSUME NEW r \in Reqs, NEW op \in AllOps \ {"create"},
             NEW who \in Users \cup {None}, NEW o \in Orders, o \in DOMAIN table,
             Becomes(r, Handler(op, who, o, "load")), WorldOK'
      PROVE  TypeOK'
  BY <1>4, HandlerFacts, SlotTypes
<1>5. ASSUME NEW r \in Reqs, NEW who \in Users, NEW o \in Orders, OrderCreate(r, who, o)
      PROVE  TypeOK'
  <2>1. PICK seller \in Merchants \cup {None}, p \in Int, f \in Int :
          req' = [req EXCEPT ![r] =
            [op |-> "create", who |-> who, oid |-> o, pc |-> "write",
             copy |-> [buyer |-> who, seller |-> seller, price |-> p, fee |-> f,
                       payAmount |-> 0, payed |-> FALSE, closed |-> FALSE,
                       kuaidi |-> <<>>, deleted |-> FALSE],
             stale |-> FALSE, tries |-> 0]]
    BY <1>5, CreateFacts
  <2> DEFINE row == [buyer |-> who, seller |-> seller, price |-> p, fee |-> f,
                     payAmount |-> 0, payed |-> FALSE, closed |-> FALSE,
                     kuaidi |-> <<>>, deleted |-> FALSE]
             h == [op |-> "create", who |-> who, oid |-> o, pc |-> "write",
                   copy |-> row, stale |-> FALSE, tries |-> 0]
  <2>2. row \in Row /\ row.payed = FALSE
    BY DEF Row
  <2>3. Becomes(r, h)
    BY <1>5, <2>1 DEF OrderCreate, Becomes
  <2> HIDE DEF row
  <2>4. h \in Request /\ h.op = "create" /\ h.pc = "write" /\ h.oid = o /\ h.copy = row
    BY <2>2 DEF Request, Pcs, AllOps
  <2> HIDE DEF h
  <2>5. HandlerOK(h)
    BY <2>2, <2>4 DEF HandlerOK
  <2>6. WorldOK'
    BY <1>1, <1>5 DEF OrderCreate, WorldOK, wxVars, history
  <2> QED
    BY <2>3, <2>4, <2>5, <2>6, SlotTypes
<1>6. ASSUME NEW r \in Reqs, NEW who \in Users, NEW o \in Orders, NEW op \in Ops,
             Arrive(r, op, who, o)
      PROVE  TypeOK'
  <2>1. WorldOK'
    BY <1>1, <1>6 DEF Arrive, WorldOK, wxVars
  <2>3. op \in AllOps \ {"create"} /\ o \in DOMAIN table /\ UNCHANGED table
    BY <1>6, ConstantsAssumption DEF Arrive
  <2> QED
    BY <1>4, <1>6, <2>1, <2>3 DEF Arrive, Becomes
<1>7. ASSUME NEW r \in Reqs, NEW o \in Orders, NEW op \in {"wx", "wxother"},
             WxNotify(r, op, o)
      PROVE  TypeOK'
  <2>1. WorldOK'
    BY <1>1, <1>7 DEF WxNotify, WorldOK, wxVars, history
  <2>3. op \in AllOps \ {"create"} /\ o \in DOMAIN table /\ UNCHANGED table
    BY <1>7 DEF WxNotify, AllOps
  <2> QED
    BY <1>4, <1>7, <2>1, <2>3 DEF WxNotify, Becomes
<1>8. ASSUME NEW r \in Reqs, Load(r) PROVE TypeOK'
  <2>1. req[r].pc = "load" /\ req[r].oid \in Orders
    BY <1>8, LoadCases, LoadedRow
  <2>2. WorldOK'
    BY <1>1, <1>8, <2>1, LoadCases DEF WorldOK, Said
  <2>3. UNCHANGED table
    BY <1>8, LoadCases
  <2>4. CASE Becomes(r, Idle)
    BY <2>2, <2>4, IdleFacts, SlotTypes
  <2>5. ASSUME NEW pc \in HasCopy, NEW row \in Row, Keep(r, pc, row) PROVE TypeOK'
    BY <2>1, <2>2, <2>3, <2>5, KeepFacts, SlotTypes
  <2> QED
    BY <1>8, <2>4, <2>5, LoadCases
<1>9. ASSUME NEW r \in Reqs, ScriptSaysPayed(r) PROVE TypeOK'
  <2>1. WorldOK'
    BY <1>1, <1>9 DEF ScriptSaysPayed, WorldOK, wxVars, TypeOK, HandlerOK
  <2> QED
    BY <1>9, <2>1, ScriptFacts, SlotTypes
<1>10. ASSUME NEW r \in Reqs,
              ScriptSaysOther(r) \/ PrepayCall(r) \/ WriteFails(r) \/ OrderStatus(r)
       PROVE  TypeOK'
  <2>1. Finish(r) /\ UNCHANGED table
    BY <1>10 DEF ScriptSaysOther, PrepayCall, WriteFails, OrderStatus
  <2>2. HandlerOK(req[r])
    BY DEF TypeOK
  <2>3. CASE ScriptSaysOther(r) \/ WriteFails(r)
    BY <1>1, <1>3, <2>1, <2>3 DEF ScriptSaysOther, WriteFails, WorldOK, wxVars, history
  <2>4. CASE PrepayCall(r)
    <3>1. req[r].oid \in Orders /\ Total(req[r].copy) \in Int
      BY <2>2, <2>4 DEF PrepayCall, HandlerOK, Total, Row
    <3>2. WorldOK'
      BY <1>1, <2>4, <3>1 DEF PrepayCall, WorldOK, history
    <3> QED
      BY <1>3, <2>1, <3>2
  <2>5. CASE OrderStatus(r)
    <3>1. req[r].oid \in Orders
      BY <2>2, <2>5 DEF OrderStatus, HandlerOK
    <3>2. WorldOK'
      BY <1>1, <2>5, <3>1 DEF OrderStatus, WorldOK, Said, wxVars, history
    <3> QED
      BY <1>3, <2>1, <3>2
  <2> QED
    BY <1>10, <2>3, <2>4, <2>5
<1>11. ASSUME NEW r \in Reqs, WriteCommits(r) \/ WriteRecoverable(r) PROVE TypeOK'
  <2>1. req[r].oid \in Orders
    BY <1>11, WriteCases DEF TypeOK, HandlerOK
  <2>2. UNCHANGED <<crashes, prepaid, charged, issued, confirmed>>
    BY <1>11, WriteCases
  <2>3. PICK h \in Request :
          /\ HandlerOK(h)
          /\ \/ Becomes(r, h) /\ UNCHANGED <<said, recorded, totals>>
             \/ /\ Writes(r, h)
                /\ \/ said' = said
                   \/ said' = said \cup {<<"ack", req[r].oid>>}
    BY <1>11, WriteCases
  <2>4. CASE Becomes(r, h) /\ UNCHANGED <<said, recorded, totals>>
    BY <1>1, <2>2, <2>3, <2>4, SlotTypes DEF WorldOK
  <2>5. CASE Writes(r, h) /\ (said' = said \/ said' = said \cup {<<"ack", req[r].oid>>})
    <3>1. said' \subseteq Said \X Orders
      BY <1>1, <2>1, <2>5 DEF WorldOK, Said
    <3> QED
      BY <2>2, <2>3, <2>5, <3>1, WriteTypes DEF wxVars
  <2> QED
    BY <2>3, <2>4, <2>5
<1>12. ASSUME NEW o \in Orders, OrderClose(o) PROVE TypeOK'
  BY <1>12 DEF OrderClose, TypeOK, HandlerOK, Said, wxVars, history
<1>13. ASSUME NEW o \in Orders, WxPay(o) PROVE TypeOK'
  BY <1>13 DEF WxPay, TypeOK, HandlerOK
<1>14. CASE Crash
  BY <1>14, IdleFacts, ConstantsAssumption DEF Crash, TypeOK, HandlerOK, wxVars, history
<1> QED
  BY <1>2, <1>5, <1>6, <1>7, <1>8, <1>9, <1>10, <1>11, <1>12, <1>13, <1>14
     DEF Next, Later

\* The initial state has its types.
LEMMA InitTypes == Init => TypeOK
<1> SUFFICES ASSUME Init PROVE TypeOK
  OBVIOUS
<1>1. req \in [Reqs -> Request] /\ \A r \in Reqs : HandlerOK(req[r])
  BY IdleFacts DEF Init
<1>2. DOMAIN table \subseteq Orders /\ table \in [DOMAIN table -> Row]
  BY DEF Init
<1> QED
  BY <1>1, <1>2, ConstantsAssumption DEF Init, TypeOK

\* The table, the handlers and the history keep their types.
THEOREM TypeCorrect == Spec => []TypeOK
  BY InitTypes, TypeStep, PTL DEF Spec

-----------------------------------------------------------------------------
(* Payments *)

\* What every handler knows of the payment of its order. A copy that says
\* payed, and an answer about to say so, has somebody's confirmation behind
\* it; the seller in a copy is that of the order, which is why the seller
\* that asked for mark_payed still owns the order when it is loaded.
HandlerPays(h) ==
  /\ h.pc \in HasCopy /\ h.copy.payed /\ ~h.copy.deleted => h.oid \in confirmed
  /\ h.op = "wx" => h.oid \in confirmed
  /\ h.op = "wx" /\ h.pc = "write" => h.copy.payed
  /\ h.op \in {"check", "mcheck", "mark"} /\ h.pc \in {"write", "status"} =>
       h.oid \in confirmed
  /\ h.op = "mark" /\ h.pc = "load" /\ table[h.oid].seller = h.who =>
       h.oid \in confirmed
  /\ h.pc \in HasCopy /\ h.oid \in DOMAIN table =>
       h.copy.seller = table[h.oid].seller
  /\ h.pc = "status" => h.op \in {"check", "mcheck", "mark"}

\* Two order_create in flight never have the same oid.
OidsAreFresh ==
  \A r, q \in Reqs :
    req[r].op = "create" /\ req[q].op = "create" /\ req[r].oid = req[q].oid => r = q

\* WeChat charges confirm.
ChargesConfirm == \A o \in Orders : charged[o] # {} => o \in confirmed

\* The inductive invariant behind the properties of payments.
PayInv ==
  /\ TypeOK /\ OidsAreFresh /\ ChargesConfirm
  /\ \A r \in Reqs : HandlerPays(req[r])
  /\ PayedIsConfirmed /\ ToldPayedIsConfirmed /\ AckMeansRecorded

\* A slot that is not in use knows nothing.
LEMMA IdlePays == HandlerPays(Idle)
  BY IdleFacts DEF HandlerPays, HasCopy

\* A handler's step that writes no row.
LEMMA PaySlot ==
  ASSUME PayInv, TypeOK', NEW r \in Reqs, NEW h \in Request, Becomes(r, h),
         confirmed \subseteq confirmed', HandlerPays(h)',
         h.op = "create" =>
           \A q \in Reqs \ {r} : req[q].op = "create" => req[q].oid # h.oid,
         ChargesConfirm', ToldPayedIsConfirmed', AckMeansRecorded'
  PROVE  PayInv'
<1>1. /\ req'[r] = h /\ table' = table
      /\ \A q \in Reqs \ {r} : req'[q] = req[q]
  BY DEF Becomes, PayInv, TypeOK
<1>2. OidsAreFresh'
  BY <1>1 DEF PayInv, OidsAreFresh
<1>3. ASSUME NEW q \in Reqs PROVE HandlerPays(req[q])'
  <2>1. CASE q = r
    BY <1>1, <2>1 DEF HandlerPays
  <2>2. CASE q # r
    <3>1. HandlerPays(req[q])
      BY DEF PayInv
    <3> QED
      BY <1>1, <2>2, <3>1 DEF HandlerPays
  <2> QED
    BY <2>1, <2>2
<1>4. PayedIsConfirmed'
  BY <1>1 DEF PayInv, PayedIsConfirmed
<1> QED
  BY <1>2, <1>3, <1>4 DEF PayInv

\* A step that says nothing and confirms nothing new.
LEMMA SilentFacts ==
  ASSUME PayInv, UNCHANGED <<charged, said>>, confirmed \subseteq confirmed',
         recorded \subseteq recorded'
  PROVE  ChargesConfirm' /\ ToldPayedIsConfirmed' /\ AckMeansRecorded'
  BY DEF PayInv, ChargesConfirm, ToldPayedIsConfirmed, AckMeansRecorded

\* Writing a row back. The order becomes payed only if the copy was, and it
\* keeps its seller.
LEMMA PayWrite ==
  ASSUME PayInv, TypeOK', NEW r \in Reqs, NEW mine \in Request, Writes(r, mine),
         HandlerOK(mine),
         \/ mine = Idle
         \/ /\ mine.op = req[r].op /\ mine.who = req[r].who /\ mine.oid = req[r].oid
            /\ \/ mine.pc = "write" /\ mine.copy = req[r].copy
               \/ mine.pc = "status" /\ mine.op \in {"check", "mcheck", "mark"},
         UNCHANGED <<charged, confirmed>>,
         \/ said' = said
         \/ req[r].op = "wx" /\ said' = said \cup {<<"ack", req[r].oid>>}
  PROVE  PayInv'
<1> DEFINE o == req[r].oid
<1>1. /\ req[r].pc = "write" /\ Storable(r) /\ HandlerOK(req[r]) /\ HandlerPays(req[r])
      /\ TypeOK
  BY DEF Writes, PayInv, TypeOK
<1>2. /\ o \in Orders /\ req[r].copy \in Row
      /\ DOMAIN table' = DOMAIN table \cup {o} /\ table'[o] = req[r].copy
      /\ \A x \in DOMAIN table \ {o} : table'[x] = table[x]
      /\ recorded \subseteq recorded' /\ (req[r].copy.payed => o \in recorded')
  BY <1>1, StoreFacts DEF Writes
<1>3. /\ req'[r] = mine
      /\ \A q \in Reqs \ {r} :
           /\ req'[q].op = req[q].op /\ req'[q].who = req[q].who
           /\ req'[q].oid = req[q].oid /\ req'[q].pc = req[q].pc
           /\ req'[q].copy = req[q].copy
  BY <1>1, AfterWriteFacts DEF Writes
<1>4. OidsAreFresh'
  BY <1>3, IdleFacts DEF PayInv, OidsAreFresh
<1>5. o \in DOMAIN table => req[r].copy.seller = table[o].seller
  BY <1>1 DEF HandlerPays, HasCopy
<1>6. ASSUME NEW q \in Reqs \ {r}, req[q].oid = o, req[q].pc # "idle"
      PROVE  o \in DOMAIN table
  <2>1. HandlerOK(req[q])
    BY DEF PayInv, TypeOK
  <2>2. CASE req[q].op = "create"
    <3>1. req[r].op # "create"
      BY <1>6, <2>2 DEF PayInv, OidsAreFresh
    <3> QED
      BY <1>1, <3>1 DEF HandlerOK
  <2>3. CASE req[q].op # "create"
    BY <1>6, <2>1, <2>3 DEF HandlerOK
  <2> QED
    BY <2>2, <2>3
<1>7. ASSUME NEW q \in Reqs \ {r} PROVE HandlerPays(req[q])'
  <2>1. HandlerPays(req[q]) /\ HandlerOK(req[q])
    BY DEF PayInv, TypeOK
  <2>2. CASE req[q].oid = o
    <3>1. req[q].pc # "idle" => table'[o].seller = table[o].seller /\ o \in DOMAIN table
      BY <1>2, <1>5, <1>6, <2>2
    <3> QED
      BY <1>2, <1>3, <2>1, <2>2, <3>1 DEF HandlerPays, HasCopy
  <2>3. CASE req[q].oid # o
    <3>1. req[q].oid \in DOMAIN table' <=> req[q].oid \in DOMAIN table
      BY <1>2, <2>3
    <3>2. req[q].oid \in DOMAIN table => table'[req[q].oid] = table[req[q].oid]
      BY <1>2, <2>3
    <3>3. req[q].op = "mark" /\ req[q].pc = "load" => req[q].oid \in DOMAIN table
      BY <2>1 DEF HandlerOK
    <3> QED
      BY <1>3, <2>1, <3>1, <3>2, <3>3 DEF HandlerPays
  <2> QED
    BY <2>2, <2>3
<1>8. HandlerPays(req[r])'
  <2>1. CASE mine = Idle
    BY <1>3, <2>1, IdleFacts DEF HandlerPays, HasCopy
  <2>2. CASE mine # Idle
    BY <1>1, <1>2, <1>3, <2>2 DEF HandlerPays, HasCopy
  <2> QED
    BY <2>1, <2>2
<1>9. PayedIsConfirmed'
  <2> SUFFICES ASSUME NEW x \in DOMAIN table', table'[x].payed, ~table'[x].deleted
               PROVE  x \in confirmed'
    BY DEF PayedIsConfirmed
  <2>1. CASE x = o
    BY <1>1, <1>2, <2>1 DEF HandlerPays, HasCopy
  <2>2. CASE x # o
    BY <1>2, <2>2 DEF PayInv, PayedIsConfirmed
  <2> QED
    BY <2>1, <2>2
<1>10. ChargesConfirm'
  BY DEF PayInv, ChargesConfirm
<1>11. ToldPayedIsConfirmed'
  BY DEF PayInv, ToldPayedIsConfirmed
<1>12. AckMeansRecorded'
  <2>1. CASE said' = said
    BY <1>2, <2>1 DEF PayInv, AckMeansRecorded
  <2>2. CASE req[r].op = "wx" /\ said' = said \cup {<<"ack", req[r].oid>>}
    <3>1. o \in recorded'
      BY <1>1, <1>2, <2>2 DEF HandlerPays
    <3> QED
      BY <1>2, <2>2, <3>1 DEF PayInv, AckMeansRecorded
  <2> QED
    BY <2>1, <2>2
<1> QED
  BY <1>4, <1>7, <1>8, <1>9, <1>10, <1>11, <1>12 DEF PayInv

\* A handler that loads: what it keeps and what it tells is confirmed.
LEMMA PayLoad ==
  ASSUME PayInv, TypeOK', NEW r \in Reqs, Load(r)
  PROVE  PayInv'
<1> DEFINE o == req[r].oid
<1>1. TypeOK /\ HandlerOK(req[r]) /\ HandlerPays(req[r]) /\ req[r].pc = "load"
  BY LoadCases DEF PayInv, TypeOK
<1>2. o \in DOMAIN table /\ o \in Orders /\ table[o] \in Row
  BY <1>1, LoadedRow
<1>3. UNCHANGED <<table, charged, confirmed, recorded>>
  BY <1>1, LoadCases
<1>4. ChargesConfirm'
  BY <1>3 DEF PayInv, ChargesConfirm
<1>5. ToldPayedIsConfirmed'
  <2>1. /\ said' \subseteq said \cup {<<"payed", o>>}
        /\ said' # said => /\ Visible(r) /\ req[r].op \notin {"prepay", "wx", "wxother"}
                           /\ table[o].payed
    BY <1>1, LoadCases
  <2>2. said' # said => o \in confirmed
    <3> SUFFICES ASSUME said' # said PROVE o \in confirmed
      OBVIOUS
    <3>1. ~table[o].deleted
      BY <2>1 DEF Visible
    <3> QED
      BY <1>2, <2>1, <3>1 DEF PayInv, PayedIsConfirmed
  <2> QED
    BY <1>3, <2>1, <2>2 DEF PayInv, ToldPayedIsConfirmed
<1>6. AckMeansRecorded'
  <2>1. said' \subseteq said \cup {<<"payed", o>>}
    BY <1>1, LoadCases
  <2> QED
    BY <1>3, <2>1 DEF PayInv, AckMeansRecorded
<1>7. CASE Becomes(r, Idle)
  <2>1. HandlerPays(Idle)'
    BY IdleFacts DEF HandlerPays, HasCopy
  <2> QED
    BY <1>3, <1>4, <1>5, <1>6, <1>7, <2>1, IdleFacts, PaySlot
<1>8. ASSUME NEW pc \in HasCopy, NEW row \in Row, Keep(r, pc, row),
             row.seller = table[o].seller,
             \/ /\ row.payed = table[o].payed /\ row.deleted = table[o].deleted
                /\ req[r].op \notin {"mark", "wx"}
                /\ pc = "write" => req[r].op \in {"alter", "kuaidi"}
             \/ req[r].op = "mark" /\ pc = "write" /\ table[o].seller = req[r].who
             \/ req[r].op = "wx" /\ pc = "write" /\ row.payed
             \/ req[r].op = "delete" /\ pc = "write" /\ row.deleted
      PROVE  PayInv'
  <2>1. PICK h \in Request :
          /\ Becomes(r, h) /\ HandlerOK(h)
          /\ h.op = req[r].op /\ h.who = req[r].who /\ h.oid = o
          /\ h.pc = pc /\ h.copy = row
    BY <1>1, <1>3, <1>8, KeepFacts
  <2>2. table[o].payed /\ ~table[o].deleted => o \in confirmed
    BY <1>2 DEF PayInv, PayedIsConfirmed
  <2>3. h.pc \notin {"load", "status"}
    BY <2>1 DEF HasCopy
  <2>4. HandlerPays(h)
    BY <1>1, <1>8, <2>1, <2>2, <2>3 DEF HandlerPays, HasCopy
  <2>5. HandlerPays(h)'
    BY <1>3, <2>4 DEF HandlerPays
  <2>6. h.op # "create"
    BY <1>1, <2>1 DEF HandlerOK
  <2> QED
    BY <1>3, <1>4, <1>5, <1>6, <2>1, <2>5, <2>6, PaySlot
<1>9. \/ Becomes(r, Idle)
      \/ \E pc \in HasCopy, row \in Row :
           /\ Keep(r, pc, row) /\ row.seller = table[o].seller
           /\ \/ /\ row.payed = table[o].payed /\ row.deleted = table[o].deleted
                 /\ req[r].op \notin {"mark", "wx"}
                 /\ pc = "write" => req[r].op \in {"alter", "kuaidi"}
              \/ req[r].op = "mark" /\ pc = "write" /\ table[o].seller = req[r].who
              \/ req[r].op = "wx" /\ pc = "write" /\ row.payed
              \/ req[r].op = "delete" /\ pc = "write" /\ row.deleted
  BY <1>1, LoadCases
<1> QED
  BY <1>7, <1>8, <1>9

\* Every step keeps the payments confirmed.
LEMMA PayStep == PayInv /\ [Next]_vars => PayInv'
<1> SUFFICES ASSUME PayInv, [Next]_vars PROVE PayInv'
  OBVIOUS
<1>1. TypeOK /\ TypeOK'
  BY TypeStep DEF PayInv
<1>2. CASE UNCHANGED vars
  BY <1>1, <1>2 DEF vars, PayInv, OidsAreFresh, ChargesConfirm, HandlerPays,
                    PayedIsConfirmed, ToldPayedIsConfirmed, AckMeansRecorded
<1>3. ASSUME NEW r \in Reqs, NEW who \in Users, NEW o \in Orders, OrderCreate(r, who, o)
      PROVE  PayInv'
  <2>1. PICK row \in Row, h \in Request :
          /\ req' = [req EXCEPT ![r] = h]
          /\ h.op = "create" /\ h.pc = "write" /\ h.oid = o /\ h.copy = row
          /\ row.payed = FALSE
    <3>1. PICK seller \in Merchants \cup {None}, p \in Int, f \in Int :
            req' = [req EXCEPT ![r] =
              [op |-> "create", who |-> who, oid |-> o, pc |-> "write",
               copy |-> [buyer |-> who, seller |-> seller, price |-> p, fee |-> f,
                         payAmount |-> 0, payed |-> FALSE, closed |-> FALSE,
                         kuaidi |-> <<>>, deleted |-> FALSE],
               stale |-> FALSE, tries |-> 0]]
      BY <1>3, CreateFacts
    <3> DEFINE row == [buyer |-> who, seller |-> seller, price |-> p, fee |-> f,
                       payAmount |-> 0, payed |-> FALSE, closed |-> FALSE,
                       kuaidi |-> <<>>, deleted |-> FALSE]
               h == [op |-> "create", who |-> who, oid |-> o, pc |-> "write",
                     copy |-> row, stale |-> FALSE, tries |-> 0]
    <3>2. row \in Row /\ row.payed = FALSE
      BY DEF Row
    <3>3. req' = [req EXCEPT ![r] = h]
      BY <3>1
    <3> HIDE DEF row
    <3>4. h \in Request /\ h.op = "create" /\ h.pc = "write" /\ h.oid = o /\ h.copy = row
      BY <3>2 DEF Request, Pcs, AllOps
    <3> HIDE DEF h
    <3> QED
      BY <3>2, <3>3, <3>4
  <2>2. /\ o \notin DOMAIN table /\ \A q \in Reqs : req[q].oid # o
        /\ Becomes(r, h)
        /\ UNCHANGED <<table, charged, said, confirmed, recorded>>
    BY <1>3, <2>1 DEF OrderCreate, Becomes, wxVars, history
  <2>3. HandlerPays(h)'
    BY <2>1, <2>2 DEF HandlerPays
  <2> QED
    BY <1>1, <2>1, <2>2, <2>3, SilentFacts, PaySlot
<1>4. ASSUME NEW r \in Reqs, NEW op \in AllOps \ {"create"},
             NEW who \in Users \cup {None}, NEW o \in Orders, o \in DOMAIN table,
             Becomes(r, Handler(op, who, o, "load")),
             op = "wx" => o \in confirmed',
             op = "mark" /\ table[o].seller = who => o \in confirmed',
             confirmed \subseteq confirmed', UNCHANGED <<charged, said, recorded>>
      PROVE  PayInv'
  <2> DEFINE h == Handler(op, who, o, "load")
  <2>1. h \in Request /\ h.op = op /\ h.who = who /\ h.oid = o /\ h.pc = "load"
    BY <1>4, HandlerFacts
  <2> HIDE DEF h
  <2>2. Becomes(r, h) /\ table' = table
    BY <1>4 DEF h, Becomes
  <2>3. HandlerPays(h)'
    BY <1>4, <2>1, <2>2 DEF HandlerPays, HasCopy
  <2> QED
    BY <1>1, <1>4, <2>1, <2>2, <2>3, SilentFacts, PaySlot
<1>5. ASSUME NEW r \in Reqs, NEW who \in Users, NEW o \in Orders, NEW op \in Ops,
             Arrive(r, op, who, o)
      PROVE  PayInv'
  <2>1. /\ op \in AllOps \ {"create"} /\ op # "wx" /\ o \in DOMAIN table
        /\ Becomes(r, Handler(op, who, o, "load"))
        /\ op = "mark" /\ table[o].seller = who => o \in confirmed'
        /\ confirmed \subseteq confirmed' /\ UNCHANGED <<charged, said, recorded>>
    BY <1>5, ConstantsAssumption DEF Arrive, Becomes, wxVars
  <2> QED
    BY <1>4, <2>1
<1>6. ASSUME NEW r \in Reqs, NEW o \in Orders, NEW op \in {"wx", "wxother"},
             WxNotify(r, op, o)
      PROVE  PayInv'
  <2>1. /\ op \in AllOps \ {"create"} /\ op # "mark" /\ o \in DOMAIN table
        /\ Becomes(r, Handler(op, None, o, "load"))
        /\ UNCHANGED <<charged, said, confirmed, recorded>>
    BY <1>6 DEF WxNotify, Becomes, AllOps, wxVars, history
  <2>2. op = "wx" => o \in confirmed
    BY <1>6 DEF WxNotify, PayInv, ChargesConfirm
  <2> QED
    BY <1>4, <2>1, <2>2
<1>7. ASSUME NEW r \in Reqs, Load(r) PROVE PayInv'
  BY <1>1, <1>7, PayLoad
<1>8. ASSUME NEW r \in Reqs, ScriptSaysPayed(r) PROVE PayInv'
  <2>1. PICK h \in Request :
          /\ Becomes(r, h) /\ HandlerOK(h)
          /\ h.op = req[r].op /\ h.oid = req[r].oid
          /\ h.pc = "write" /\ h.copy.seller = req[r].copy.seller
          /\ h.copy.payed = TRUE
    BY <1>1, <1>8, ScriptFacts
  <2>2. /\ req[r].pc = "script" /\ confirmed' = confirmed \cup {req[r].oid}
        /\ UNCHANGED <<table, charged, said, recorded>>
    BY <1>8 DEF ScriptSaysPayed, wxVars
  <2>3. HandlerPays(req[r]) /\ HandlerOK(req[r])
    BY DEF PayInv, TypeOK
  <2>4. HandlerPays(h)'
    BY <2>1, <2>2, <2>3 DEF HandlerPays, HasCopy
  <2>5. h.op # "create"
    BY <2>1, <2>2, <2>3 DEF HandlerOK
  <2> QED
    BY <1>1, <2>1, <2>2, <2>4, <2>5, SilentFacts, PaySlot
<1>9. ASSUME NEW r \in Reqs, Finish(r), UNCHANGED <<table, charged, confirmed, recorded>>,
             ToldPayedIsConfirmed', AckMeansRecorded'
      PROVE  PayInv'
  <2>1. Becomes(r, Idle)
    BY <1>9 DEF Finish, Becomes
  <2>2. HandlerPays(Idle)'
    BY IdleFacts DEF HandlerPays, HasCopy
  <2>3. ChargesConfirm'
    BY <1>9 DEF PayInv, ChargesConfirm
  <2> QED
    BY <1>1, <1>9, <2>1, <2>2, <2>3, IdleFacts, PaySlot
<1>10. ASSUME NEW r \in Reqs, ScriptSaysOther(r) \/ PrepayCall(r) \/ WriteFails(r)
       PROVE  PayInv'
  <2>1. Finish(r) /\ UNCHANGED <<table, charged, said, confirmed, recorded>>
    BY <1>10 DEF ScriptSaysOther, PrepayCall, WriteFails, wxVars, history
  <2> QED
    BY <1>9, <2>1, SilentFacts
<1>11. ASSUME NEW r \in Reqs, OrderStatus(r) PROVE PayInv'
  <2>1. /\ Finish(r) /\ req[r].pc = "status"
        /\ UNCHANGED <<table, charged, confirmed, recorded>>
        /\ said' \subseteq said \cup {<<"payed", req[r].oid>>, <<"status", req[r].oid>>}
    BY <1>11 DEF OrderStatus, wxVars, history
  <2>2. req[r].oid \in confirmed
    <3>1. HandlerPays(req[r])
      BY DEF PayInv
    <3> QED
      BY <2>1, <3>1 DEF HandlerPays
  <2>3. ToldPayedIsConfirmed'
    BY <2>1, <2>2 DEF PayInv, ToldPayedIsConfirmed
  <2>4. AckMeansRecorded'
    BY <2>1 DEF PayInv, AckMeansRecorded
  <2> QED
    BY <1>9, <2>1, <2>3, <2>4
<1>12. ASSUME NEW r \in Reqs, WriteCommits(r) \/ WriteRecoverable(r) PROVE PayInv'
  <2>1. PICK h \in Request :
          /\ HandlerOK(h)
          /\ \/ /\ h.op = req[r].op /\ h.who = req[r].who /\ h.oid = req[r].oid
                /\ \/ h.pc = "write" /\ h.copy = req[r].copy
                   \/ h.pc = "status" /\ h.op \in {"check", "mcheck", "mark"}
             \/ h = Idle
          /\ \/ Becomes(r, h) /\ UNCHANGED <<said, recorded, totals>>
             \/ /\ Writes(r, h)
                /\ \/ said' = said
                   \/ req[r].op = "wx" /\ said' = said \cup {<<"ack", req[r].oid>>}
    BY <1>1, <1>12, WriteCases
  <2>2. req[r].pc = "write" /\ UNCHANGED <<charged, confirmed>>
    BY <1>1, <1>12, WriteCases
  <2>3. CASE Becomes(r, h) /\ UNCHANGED <<said, recorded, totals>>
    <3>1. table' = table
      BY <2>3 DEF Becomes
    <3>2. HandlerPays(req[r])
      BY DEF PayInv
    <3>3. HandlerPays(h)'
      <4>1. CASE h = Idle
        BY <4>1, IdleFacts DEF HandlerPays, HasCopy
      <4>2. CASE h # Idle
        BY <2>1, <2>2, <3>1, <3>2, <4>2 DEF HandlerPays, HasCopy
      <4> QED
        BY <4>1, <4>2
    <3>4. h.op = "create" =>
            \A q \in Reqs \ {r} : req[q].op = "create" => req[q].oid # h.oid
      BY <2>1, IdleFacts DEF PayInv, OidsAreFresh
    <3> QED
      BY <1>1, <2>2, <2>3, <3>3, <3>4, SilentFacts, PaySlot
  <2>4. CASE /\ Writes(r, h)
             /\ \/ said' = said
                \/ req[r].op = "wx" /\ said' = said \cup {<<"ack", req[r].oid>>}
    BY <1>1, <2>1, <2>2, <2>4, PayWrite
  <2> QED
    BY <2>1, <2>3, <2>4
<1>13. ASSUME UNCHANGED <<table, req>>, confirmed \subseteq confirmed', ChargesConfirm',
              ToldPayedIsConfirmed', AckMeansRecorded'
       PROVE  PayInv'
  BY <1>1, <1>13 DEF PayInv, OidsAreFresh, HandlerPays, PayedIsConfirmed
<1>14. ASSUME NEW o \in Orders, OrderClose(o) PROVE PayInv'
  <2>1. UNCHANGED <<table, req, charged, confirmed, recorded>> /\ said' = said \cup {<<"closed", o>>}
    BY <1>14 DEF OrderClose, wxVars, history
  <2> QED
    BY <1>13, <2>1 DEF PayInv, ChargesConfirm, ToldPayedIsConfirmed, AckMeansRecorded
<1>15. ASSUME NEW o \in Orders, WxPay(o) PROVE PayInv'
  <2>1. /\ UNCHANGED <<table, req, said, recorded>> /\ confirmed' = confirmed \cup {o}
        /\ \A x \in Orders \ {o} : charged'[x] = charged[x]
    BY <1>1, <1>15 DEF WxPay, TypeOK
  <2>2. ChargesConfirm'
    BY <2>1 DEF PayInv, ChargesConfirm
  <2> QED
    BY <1>13, <2>1, <2>2 DEF PayInv, ToldPayedIsConfirmed, AckMeansRecorded
<1>16. CASE Crash
  <2>1. /\ UNCHANGED <<table, charged, said, confirmed, recorded>>
        /\ \A r \in Reqs : req'[r] = Idle
    BY <1>16 DEF Crash, wxVars, history
  <2>2. OidsAreFresh' /\ \A r \in Reqs : HandlerPays(req[r])'
    BY <2>1, IdleFacts DEF OidsAreFresh, HandlerPays, HasCopy
  <2>3. PayedIsConfirmed'
    BY <2>1 DEF PayInv, PayedIsConfirmed
  <2> QED
    BY <1>1, <2>1, <2>2, <2>3, SilentFacts DEF PayInv
<1> QED
  BY <1>2, <1>3, <1>5, <1>6, <1>7, <1>8, <1>10, <1>11, <1>12, <1>14, <1>15, <1>16
     DEF Next, Later

\* The payments invariant holds in every reachable state.
LEMMA PayInvariant == Spec => []PayInv
<1>1. Init => PayInv
  <2> SUFFICES ASSUME Init PROVE PayInv
    OBVIOUS
  <2>1. TypeOK
    BY InitTypes
  <2>2. OidsAreFresh /\ \A r \in Reqs : HandlerPays(req[r])
    BY IdleFacts, IdlePays DEF Init, OidsAreFresh
  <2> QED
    BY <2>1, <2>2 DEF Init, PayInv, ChargesConfirm, PayedIsConfirmed,
                      ToldPayedIsConfirmed, AckMeansRecorded
<1> QED
  BY <1>1, PayStep, PTL DEF Spec

\* An order that clients see as payed was confirmed by its seller, the
\* seller's script or WeChat, whatever handlers run at the same time.
THEOREM PayedOrdersAreConfirmed == Spec => []PayedIsConfirmed
<1>1. PayInv => PayedIsConfirmed
  BY DEF PayInv
<1> QED
  BY <1>1, PayInvariant, PTL

\* No reply and no orderstatus.js speaks of a payment nobody has confirmed.
THEOREM ToldPaymentsAreConfirmed == Spec => []ToldPayedIsConfirmed
<1>1. PayInv => ToldPayedIsConfirmed
  BY DEF PayInv
<1> QED
  BY <1>1, PayInvariant, PTL

\* WeChat is told SUCCESS only about payments that have been stored.
THEOREM AcksAreRecorded == Spec => []AckMeansRecorded
<1>1. PayInv => AckMeansRecorded
  BY DEF PayInv
<1> QED
  BY <1>1, PayInvariant, PTL

-----------------------------------------------------------------------------
(* Amounts *)

\* An amount on its way to WeChat is the total of a copy that was read from
\* the table as a whole.
PrepayOK(h) == h.pc = "prepay" => Total(h.copy) \in totals[h.oid]

\* The inductive invariant behind ChargedTotalWasStored: from the table to the
\* copy, to what WeChat was asked for, to what the buyer was charged.
AmountInv ==
  /\ TypeOK
  /\ \A o \in DOMAIN table : Total(table[o]) \in totals[o]
  /\ \A r \in Reqs : PrepayOK(req[r])
  /\ \A o \in Orders : prepaid[o] \subseteq totals[o]
  /\ ChargedTotalWasStored

\* A handler's step that writes no row.
LEMMA AmountSlot ==
  ASSUME AmountInv, TypeOK', NEW r \in Reqs, NEW h, Becomes(r, h),
         UNCHANGED <<charged, totals>>, PrepayOK(h),
         \A o \in Orders : prepaid'[o] \subseteq totals[o]
  PROVE  AmountInv'
<1>1. req'[r] = h /\ table' = table /\ \A q \in Reqs \ {r} : req'[q] = req[q]
  BY DEF Becomes, AmountInv, TypeOK
<1>2. \A q \in Reqs : PrepayOK(req[q])'
  BY <1>1 DEF AmountInv, PrepayOK
<1>3. ChargedTotalWasStored' /\ \A o \in DOMAIN table' : Total(table'[o]) \in totals'[o]
  BY <1>1 DEF AmountInv, ChargedTotalWasStored, Total
<1> QED
  BY <1>2, <1>3 DEF AmountInv, Total

\* Writing a row back puts its total among those the order has had.
LEMMA AmountWrite ==
  ASSUME AmountInv, TypeOK', NEW r \in Reqs, NEW mine \in Request, Writes(r, mine),
         mine.pc # "prepay", UNCHANGED <<prepaid, charged>>
  PROVE  AmountInv'
<1> DEFINE o == req[r].oid
<1>1. TypeOK /\ req[r].pc = "write" /\ Store(r) /\ req' = AfterWrite(r, mine)
  BY DEF Writes, AmountInv
<1>2. /\ o \in Orders
      /\ DOMAIN table' = DOMAIN table \cup {o} /\ table'[o] = req[r].copy
      /\ \A x \in DOMAIN table \ {o} : table'[x] = table[x]
      /\ Total(req[r].copy) \in totals'[o]
      /\ \A x \in Orders : totals[x] \subseteq totals'[x]
  BY <1>1, StoreFacts
<1>3. /\ req'[r] = mine
      /\ \A q \in Reqs \ {r} : /\ req'[q].oid = req[q].oid /\ req'[q].pc = req[q].pc
                               /\ req'[q].copy = req[q].copy
  BY <1>1, AfterWriteFacts
<1>4. ASSUME NEW q \in Reqs PROVE PrepayOK(req[q])'
  <2>1. CASE q = r
    BY <1>3, <2>1 DEF PrepayOK
  <2>2. CASE q # r
    <3>1. PrepayOK(req[q]) /\ (req[q].pc = "prepay" => req[q].oid \in Orders)
      BY DEF AmountInv, TypeOK, HandlerOK
    <3> QED
      BY <1>2, <1>3, <2>2, <3>1 DEF PrepayOK, Total
  <2> QED
    BY <2>1, <2>2
<1>5. ASSUME NEW x \in DOMAIN table' PROVE Total(table'[x]) \in totals'[x]
  <2>1. CASE x = o
    BY <1>2, <2>1
  <2>2. CASE x # o
    <3>1. x \in DOMAIN table /\ x \in Orders /\ table'[x] = table[x]
      BY <1>1, <1>2, <2>2 DEF TypeOK
    <3> QED
      BY <1>2, <3>1 DEF AmountInv
  <2> QED
    BY <2>1, <2>2
<1>6. \A x \in Orders : prepaid'[x] \subseteq totals'[x]
  BY <1>2 DEF AmountInv
<1>7. ChargedTotalWasStored'
  BY <1>2 DEF AmountInv, ChargedTotalWasStored
<1> QED
  BY <1>4, <1>5, <1>6, <1>7 DEF AmountInv, Total

\* Every step keeps the amounts among the totals.
LEMMA AmountStep == AmountInv /\ [Next]_vars => AmountInv'
<1> SUFFICES ASSUME AmountInv, [Next]_vars PROVE AmountInv'
  OBVIOUS
<1>1. TypeOK /\ TypeOK' /\ \A o \in Orders : prepaid[o] \subseteq totals[o]
  BY TypeStep DEF AmountInv
<1>2. CASE UNCHANGED vars
  BY <1>1, <1>2 DEF vars, AmountInv, PrepayOK, ChargedTotalWasStored, Total
<1>3. ASSUME NEW r \in Reqs, NEW h, Becomes(r, h), h.pc # "prepay",
             UNCHANGED <<prepaid, charged, totals>>
      PROVE  AmountInv'
  BY <1>1, <1>3, AmountSlot DEF PrepayOK
<1>4. ASSUME NEW r \in Reqs, Finish(r), UNCHANGED <<table, prepaid, charged, totals>>
      PROVE  AmountInv'
  BY <1>3, <1>4, IdleFacts DEF Finish, Becomes
<1>5. ASSUME NEW r \in Reqs, NEW who \in Users, NEW o \in Orders, OrderCreate(r, who, o)
      PROVE  AmountInv'
  <2>1. PICK row : req' = [req EXCEPT ![r] =
                             [op |-> "create", who |-> who, oid |-> o, pc |-> "write",
                              copy |-> row, stale |-> FALSE, tries |-> 0]]
    BY <1>5, CreateFacts
  <2> DEFINE h == [op |-> "create", who |-> who, oid |-> o, pc |-> "write",
                   copy |-> row, stale |-> FALSE, tries |-> 0]
  <2>2. Becomes(r, h) /\ UNCHANGED <<prepaid, charged, totals>>
    BY <1>5, <2>1 DEF OrderCreate, Becomes, wxVars, history
  <2>3. h.pc # "prepay"
    OBVIOUS
  <2> HIDE DEF h
  <2> QED
    BY <1>3, <2>2, <2>3
<1>6. ASSUME NEW r \in Reqs, NEW who \in Users, NEW o \in Orders, NEW op \in Ops,
             Arrive(r, op, who, o)
      PROVE  AmountInv'
  <2>1. Becomes(r, Handler(op, who, o, "load")) /\ UNCHANGED <<prepaid, charged, totals>>
    BY <1>6 DEF Arrive, Becomes, wxVars
  <2>2. Handler(op, who, o, "load").pc = "load"
    BY DEF Handler
  <2> QED
    BY <1>3, <2>1, <2>2
<1>7. ASSUME NEW r \in Reqs, NEW o \in Orders, NEW op \in {"wx", "wxother"},
             WxNotify(r, op, o)
      PROVE  AmountInv'
  <2>1. Becomes(r, Handler(op, None, o, "load")) /\ UNCHANGED <<prepaid, charged, totals>>
    BY <1>7 DEF WxNotify, Becomes, wxVars, history
  <2>2. Handler(op, None, o, "load").pc = "load"
    BY DEF Handler
  <2> QED
    BY <1>3, <2>1, <2>2
<1>8. ASSUME NEW r \in Reqs, Load(r) PROVE AmountInv'
  <2> DEFINE o == req[r].oid
  <2>1. /\ req[r].pc = "load" /\ UNCHANGED <<table, prepaid, charged, totals>>
        /\ \/ Becomes(r, Idle)
           \/ \E pc \in HasCopy, row \in Row :
                Keep(r, pc, row) /\ (pc = "prepay" => row = table[o])
    BY <1>1, <1>8, LoadCases
  <2>2. CASE Becomes(r, Idle)
    BY <1>3, <2>1, <2>2, IdleFacts
  <2>3. ASSUME NEW pc \in HasCopy, NEW row \in Row, Keep(r, pc, row),
               pc = "prepay" => row = table[o]
        PROVE  AmountInv'
    <3>1. PICK h \in Request : Becomes(r, h) /\ h.oid = o /\ h.pc = pc /\ h.copy = row
      BY <1>1, <2>1, <2>3, KeepFacts
    <3>2. o \in DOMAIN table
      BY <1>1, <2>1, LoadedRow
    <3>3. PrepayOK(h)
      BY <2>3, <3>1, <3>2 DEF AmountInv, PrepayOK
    <3> QED
      BY <1>1, <2>1, <3>1, <3>3, AmountSlot
  <2> QED
    BY <2>1, <2>2, <2>3
<1>9. ASSUME NEW r \in Reqs, ScriptSaysPayed(r) PROVE AmountInv'
  <2>1. PICK h \in Request : Becomes(r, h) /\ h.pc = "write"
    BY <1>1, <1>9, ScriptFacts
  <2> QED
    BY <1>3, <1>9, <2>1 DEF ScriptSaysPayed, wxVars
<1>10. ASSUME NEW r \in Reqs, ScriptSaysOther(r) \/ WriteFails(r) \/ OrderStatus(r)
       PROVE  AmountInv'
  BY <1>4, <1>10 DEF ScriptSaysOther, WriteFails, OrderStatus, wxVars, history
<1>11. ASSUME NEW r \in Reqs, PrepayCall(r) PROVE AmountInv'
  <2>1. /\ Becomes(r, Idle) /\ req[r].pc = "prepay" /\ UNCHANGED <<charged, totals>>
        /\ prepaid' = [prepaid EXCEPT ![req[r].oid] = @ \cup {Total(req[r].copy)}]
    BY <1>11 DEF PrepayCall, Finish, Becomes, history
  <2>2. Total(req[r].copy) \in totals[req[r].oid]
    BY <2>1 DEF AmountInv, PrepayOK
  <2>3. \A o \in Orders : prepaid'[o] \subseteq totals[o]
    BY <1>1, <2>1, <2>2 DEF TypeOK
  <2> QED
    BY <1>1, <2>1, <2>3, IdleFacts, AmountSlot DEF PrepayOK
<1>12. ASSUME NEW r \in Reqs, WriteCommits(r) \/ WriteRecoverable(r) PROVE AmountInv'
  <2>1. /\ UNCHANGED <<prepaid, charged>>
        /\ \E h \in Request : /\ h.pc \in {"write", "status"} \/ h = Idle
                              /\ (Becomes(r, h) /\ UNCHANGED totals) \/ Writes(r, h)
    BY <1>1, <1>12, WriteCases
  <2>2. PICK h \in Request : /\ h.pc # "prepay"
                             /\ (Becomes(r, h) /\ UNCHANGED totals) \/ Writes(r, h)
    BY <2>1, IdleFacts
  <2> QED
    BY <1>1, <1>3, <2>1, <2>2, AmountWrite
<1>13. ASSUME NEW o \in Orders, OrderClose(o) PROVE AmountInv'
  <2>1. UNCHANGED <<table, req, prepaid, charged, totals>>
    BY <1>13 DEF OrderClose, wxVars, history
  <2> QED
    BY <1>1, <2>1 DEF AmountInv, PrepayOK, ChargedTotalWasStored, Total
<1>14. ASSUME NEW o \in Orders, WxPay(o) PROVE AmountInv'
  <2>1. PICK a \in prepaid[o] : charged' = [charged EXCEPT ![o] = {a}]
    BY <1>14 DEF WxPay
  <2>2. UNCHANGED <<table, req, prepaid, totals>>
    BY <1>14 DEF WxPay
  <2>3. ChargedTotalWasStored'
    BY <1>1, <2>1, <2>2 DEF AmountInv, ChargedTotalWasStored, TypeOK
  <2> QED
    BY <1>1, <2>2, <2>3 DEF AmountInv, PrepayOK, Total
<1>15. CASE Crash
  <2>1. /\ UNCHANGED <<table, prepaid, charged, totals>>
        /\ \A r \in Reqs : req'[r] = Idle
    BY <1>15 DEF Crash, wxVars, history
  <2>2. \A r \in Reqs : PrepayOK(req[r])'
    BY <2>1, IdleFacts DEF PrepayOK
  <2> QED
    BY <1>1, <2>1, <2>2 DEF AmountInv, ChargedTotalWasStored, Total
<1> QED
  BY <1>2, <1>5, <1>6, <1>7, <1>8, <1>9, <1>10, <1>11, <1>12, <1>13, <1>14, <1>15
     DEF Next, Later

\* The amount a buyer is charged is a total the order was stored with,
\* however often its seller changes price and kuaidifei meanwhile.
THEOREM ChargesWereStored == Spec => []ChargedTotalWasStored
<1>1. Init => AmountInv
  <2> SUFFICES ASSUME Init PROVE AmountInv
    OBVIOUS
  <2>1. \A r \in Reqs : PrepayOK(req[r])
    BY IdleFacts DEF Init, PrepayOK
  <2>2. TypeOK
    BY InitTypes
  <2> QED
    BY <2>1, <2>2 DEF Init, AmountInv, ChargedTotalWasStored
<1>2. AmountInv => ChargedTotalWasStored
  BY DEF AmountInv
<1> QED
  BY <1>1, <1>2, AmountStep, PTL DEF Spec

-----------------------------------------------------------------------------
(* Waybills, and what a write may lose *)

\* A row whose waybills are distinct and are all among the entered ones.
WaybillsOK(row, entered) ==
  \A i \in DOMAIN row.kuaidi :
    /\ row.kuaidi[i] \in entered
    /\ \A j \in DOMAIN row.kuaidi : row.kuaidi[i] = row.kuaidi[j] => i = j

\* A copy is as good as a row, and while nobody else has written the order
\* since it was loaded, it knows everything the stored row knows.
CopyOK(h) ==
  h.pc \in HasCopy =>
    /\ WaybillsOK(h.copy, issued)
    /\ ~h.stale /\ h.oid \in DOMAIN table => ~Regresses(table[h.oid], h.copy)

\* The inductive invariant behind NoDuplicateWaybill and LostOnlyToStaleWrite:
\* a waybill that is about to be appended is new to every row and every copy,
\* because both hold only waybills already entered.
RowsInv ==
  /\ TypeOK
  /\ \A o \in DOMAIN table : WaybillsOK(table[o], issued)
  /\ \A r \in Reqs : CopyOK(req[r])

\* A row that has gained payments, deletions or a waybill has lost nothing.
LEMMA GainIsNoLoss ==
  ASSUME NEW old \in Row, NEW new \in Row,
         new.buyer = old.buyer, new.seller = old.seller,
         old.payed => new.payed, old.deleted => new.deleted,
         \/ new.kuaidi = old.kuaidi
         \/ \E w \in Waybills : new.kuaidi = Append(old.kuaidi, w)
  PROVE  ~Regresses(old, new)
<1>1. old.kuaidi \in Seq(Waybills)
  BY DEF Row
<1>2. \A i \in DOMAIN old.kuaidi :
        i \in DOMAIN new.kuaidi /\ new.kuaidi[i] = old.kuaidi[i]
  <2>1. CASE new.kuaidi = old.kuaidi
    BY <2>1
  <2>2. ASSUME NEW w \in Waybills, new.kuaidi = Append(old.kuaidi, w)
        PROVE  \A i \in DOMAIN old.kuaidi :
                 i \in DOMAIN new.kuaidi /\ new.kuaidi[i] = old.kuaidi[i]
    BY <1>1, <2>2
  <2> QED
    BY <2>1, <2>2
<1> QED
  BY <1>2 DEF Regresses

\* The row a loading handler keeps has lost nothing of the one it has loaded,
\* and its waybills are the same or one more that nobody had entered before.
LEMMA LoadKeeps ==
  ASSUME NEW r \in Reqs, TypeOK, Load(r)
  PROVE  LET old == table[req[r].oid]
         IN  \/ Becomes(r, Idle) /\ issued' = issued
             \/ \E pc \in HasCopy, row \in Row :
                  /\ Keep(r, pc, row) /\ ~Regresses(old, row)
                  /\ \/ row.kuaidi = old.kuaidi /\ issued' = issued
                     \/ \E w \in Waybills \ issued :
                          /\ row.kuaidi = Append(old.kuaidi, w)
                          /\ issued' = issued \cup {w}
<1> DEFINE o == req[r].oid
           old == table[o]
           Kept(pc, row) ==
             /\ Keep(r, pc, row) /\ ~Regresses(old, row)
             /\ \/ row.kuaidi = old.kuaidi /\ issued' = issued
                \/ \E w \in Waybills \ issued :
                     row.kuaidi = Append(old.kuaidi, w) /\ issued' = issued \cup {w}
           Goal == \/ Becomes(r, Idle) /\ issued' = issued
                   \/ \E pc \in HasCopy, row \in Row : Kept(pc, row)
<1>1. old \in Row
  BY LoadCases, LoadedRow
<1>2. Finish(r) /\ UNCHANGED table => Becomes(r, Idle)
  BY DEF Finish, Becomes
<1>3. ASSUME NEW pc \in HasCopy, NEW row \in Row, Keep(r, pc, row), issued' = issued,
             row.buyer = old.buyer, row.seller = old.seller, row.kuaidi = old.kuaidi,
             old.payed => row.payed, old.deleted => row.deleted
      PROVE  Goal
  <2>1. ~Regresses(old, row)
    BY <1>1, <1>3, GainIsNoLoss
  <2> QED
    BY <1>3, <2>1
<1>4. CASE NotFound(r) \/ LoadFails(r) \/ OrderDetail(r) \/ AlreadyPayed(r)
  BY <1>2, <1>4 DEF NotFound, LoadFails, OrderDetail, AlreadyPayed, history
<1>5. "script" \in HasCopy /\ "prepay" \in HasCopy /\ "write" \in HasCopy
  BY DEF HasCopy
<1>6. CASE CheckPayment(r)
  <2>1. issued' = issued /\ ((Finish(r) /\ UNCHANGED table) \/ Keep(r, "script", old))
    BY <1>6 DEF CheckPayment, history
  <2> QED
    BY <1>1, <1>2, <1>3, <1>5, <2>1
<1>7. CASE WxPrepay(r)
  <2>1. issued' = issued /\ ((Finish(r) /\ UNCHANGED table) \/ Keep(r, "prepay", old))
    BY <1>7 DEF WxPrepay, history
  <2> QED
    BY <1>1, <1>2, <1>3, <1>5, <2>1
<1>8. CASE MarkPayed(r) \/ WxCallback(r)
  <2> DEFINE row == [old EXCEPT !.payed = TRUE]
  <2>1. /\ issued' = issued
        /\ (Finish(r) /\ UNCHANGED table) \/ Keep(r, "write", row)
    BY <1>8 DEF MarkPayed, WxCallback, history
  <2>2. /\ row \in Row /\ row.buyer = old.buyer /\ row.seller = old.seller
        /\ row.kuaidi = old.kuaidi /\ row.payed /\ row.deleted = old.deleted
    BY <1>1 DEF Row
  <2> HIDE DEF row
  <2> QED
    BY <1>2, <1>3, <1>5, <2>1, <2>2
<1>9. CASE DeleteSoldOrder(r)
  <2> DEFINE row == [old EXCEPT !.payed = TRUE, !.deleted = TRUE]
  <2>1. issued' = issued /\ Keep(r, "write", row)
    BY <1>9 DEF DeleteSoldOrder, history
  <2>2. /\ row \in Row /\ row.buyer = old.buyer /\ row.seller = old.seller
        /\ row.kuaidi = old.kuaidi /\ row.payed /\ row.deleted
    BY <1>1 DEF Row
  <2> HIDE DEF row
  <2> QED
    BY <1>3, <1>5, <2>1, <2>2
<1>10. CASE AlterOrderPrice(r)
  <2>1. old.price \in Int /\ old.fee \in Int
    BY <1>1 DEF Row
  <2>2. PICK p \in Int, f \in Int :
          Keep(r, "write", [old EXCEPT !.price = p, !.fee = f])
    BY <1>10, <2>1, ConstantsAssumption DEF AlterOrderPrice
  <2> DEFINE row == [old EXCEPT !.price = p, !.fee = f]
  <2>3. /\ row \in Row /\ row.buyer = old.buyer /\ row.seller = old.seller
        /\ row.kuaidi = old.kuaidi /\ row.payed = old.payed /\ row.deleted = old.deleted
    BY <1>1 DEF Row
  <2>4. issued' = issued /\ Keep(r, "write", row)
    BY <1>10, <2>2 DEF AlterOrderPrice, history
  <2> HIDE DEF row
  <2> QED
    BY <1>3, <1>5, <2>3, <2>4
<1>11. CASE AddKuaidi(r)
  <2>1. PICK w \in Waybills \ issued :
          /\ Keep(r, "write", [old EXCEPT !.kuaidi = Append(@, w)])
          /\ issued' = issued \cup {w}
    BY <1>11 DEF AddKuaidi
  <2> DEFINE row == [old EXCEPT !.kuaidi = Append(@, w)]
  <2>2. Append(old.kuaidi, w) \in Seq(Waybills)
    BY <1>1 DEF Row
  <2>3. /\ row \in Row /\ row.buyer = old.buyer /\ row.seller = old.seller
        /\ row.kuaidi = Append(old.kuaidi, w)
        /\ row.payed = old.payed /\ row.deleted = old.deleted
    BY <1>1, <2>2 DEF Row
  <2>4. Keep(r, "write", row)
    BY <2>1
  <2> HIDE DEF row
  <2>5. ~Regresses(old, row)
    BY <1>1, <2>3, GainIsNoLoss
  <2> QED
    BY <1>5, <2>1, <2>3, <2>4, <2>5
<1> QED
  BY <1>4, <1>6, <1>7, <1>8, <1>9, <1>10, <1>11 DEF Load

\* Waybills that were entered stay entered.
LEMMA WaybillsStay ==
  ASSUME NEW row, WaybillsOK(row, issued), issued \subseteq issued'
  PROVE  WaybillsOK(row, issued')
BY DEF WaybillsOK

\* One waybill more, which nobody had entered before.
LEMMA AppendIsNew ==
  ASSUME NEW old \in Row, WaybillsOK(old, issued), NEW new \in Row, NEW w \in Waybills \ issued,
         new.kuaidi = Append(old.kuaidi, w), issued' = issued \cup {w}
  PROVE  WaybillsOK(new, issued')
<1> DEFINE k == old.kuaidi
           n == new.kuaidi
<1>1. k \in Seq(Waybills)
  BY DEF Row
<1>2. /\ Len(k) \in Nat /\ DOMAIN k = 1..Len(k) /\ DOMAIN n = 1..(Len(k) + 1)
      /\ \A i \in DOMAIN k : n[i] = k[i]
      /\ n[Len(k) + 1] = w
  BY <1>1
<1>3. \A i \in DOMAIN k : /\ k[i] \in issued
                          /\ \A j \in DOMAIN k : k[i] = k[j] => i = j
  BY DEF WaybillsOK
<1> HIDE DEF k, n
<1>4. \A i \in DOMAIN n : /\ n[i] \in issued'
                          /\ \A j \in DOMAIN n : n[i] = n[j] => i = j
  <2> SUFFICES ASSUME NEW i \in DOMAIN n, NEW j \in DOMAIN n
               PROVE  n[i] \in issued' /\ (n[i] = n[j] => i = j)
    OBVIOUS
  <2>1. /\ i \in DOMAIN k \/ i = Len(k) + 1
        /\ j \in DOMAIN k \/ j = Len(k) + 1
    BY <1>2
  <2> QED
    BY <1>2, <1>3, <2>1
<1> QED
  BY <1>4 DEF WaybillsOK, n

\* A handler's step that writes no row.
LEMMA RowsSlot ==
  ASSUME RowsInv, TypeOK', NEW r \in Reqs, NEW h, Becomes(r, h),
         issued \subseteq issued', CopyOK(h)'
  PROVE  RowsInv'
<1>1. req'[r] = h /\ table' = table /\ \A q \in Reqs \ {r} : req'[q] = req[q]
  BY DEF Becomes, RowsInv, TypeOK
<1>2. \A o \in DOMAIN table' : WaybillsOK(table'[o], issued')
  BY <1>1, WaybillsStay DEF RowsInv
<1>3. ASSUME NEW q \in Reqs PROVE CopyOK(req[q])'
  <2>1. CASE q = r
    BY <1>1, <2>1
  <2>2. CASE q # r
    <3>1. CopyOK(req[q]) /\ req'[q] = req[q]
      BY <1>1, <2>2 DEF RowsInv
    <3>2. req[q].pc \in HasCopy => WaybillsOK(req[q].copy, issued')
      BY <3>1, WaybillsStay DEF CopyOK
    <3> QED
      BY <1>1, <3>1, <3>2 DEF CopyOK, WaybillsOK
  <2> QED
    BY <2>1, <2>2
<1> QED
  BY <1>2, <1>3 DEF RowsInv

\* A handler without a copy has no waybills.
LEMMA NoCopy ==
  ASSUME NEW h, h.pc \notin HasCopy
  PROVE  CopyOK(h)'
BY DEF CopyOK

\* A row loses nothing when it stays.
LEMMA SameIsNoLoss ==
  ASSUME NEW row
  PROVE  ~Regresses(row, row)
BY DEF Regresses

\* Writing a row back makes the other copies of it stale, and the handler's
\* own copy is the row.
LEMMA RowsWrite ==
  ASSUME RowsInv, TypeOK', NEW r \in Reqs, NEW mine \in Request, Writes(r, mine),
         mine.pc \in HasCopy => mine.copy = req[r].copy /\ mine.oid = req[r].oid,
         issued' = issued
  PROVE  RowsInv'
<1> DEFINE o == req[r].oid
<1>1. TypeOK /\ req[r].pc = "write" /\ Store(r) /\ req' = AfterWrite(r, mine)
  BY DEF Writes, RowsInv
<1>2. /\ DOMAIN table' = DOMAIN table \cup {o} /\ table'[o] = req[r].copy
      /\ \A x \in DOMAIN table \ {o} : table'[x] = table[x]
  BY <1>1, StoreFacts
<1>3. /\ req'[r] = mine
      /\ \A q \in Reqs \ {r} :
           /\ req'[q].oid = req[q].oid /\ req'[q].pc = req[q].pc
           /\ req'[q].copy = req[q].copy
           /\ IF req[q].oid = o /\ req[q].pc \in HasCopy
              THEN req'[q].stale = TRUE ELSE req'[q].stale = req[q].stale
  BY <1>1, AfterWriteFacts
<1>4. WaybillsOK(req[r].copy, issued')
  <2>1. WaybillsOK(req[r].copy, issued)
    BY <1>1 DEF RowsInv, CopyOK, HasCopy
  <2> QED
    BY <2>1 DEF WaybillsOK
<1>5. ASSUME NEW x \in DOMAIN table' PROVE WaybillsOK(table'[x], issued')
  <2>1. CASE x = o
    BY <1>2, <1>4, <2>1 DEF WaybillsOK
  <2>2. CASE x # o
    <3>1. x \in DOMAIN table /\ table'[x] = table[x] /\ WaybillsOK(table[x], issued)
      BY <1>2, <2>2 DEF RowsInv
    <3> QED
      BY <3>1 DEF WaybillsOK
  <2> QED
    BY <2>1, <2>2
<1>6. ASSUME NEW q \in Reqs PROVE CopyOK(req[q])'
  <2>1. CASE q = r
    <3>1. CASE mine.pc \in HasCopy
      <4>1. req'[q].copy = req[r].copy /\ req'[q].oid = o
        BY <1>3, <2>1, <3>1
      <4>2. WaybillsOK(req'[q].copy, issued')
        BY <1>4, <4>1 DEF WaybillsOK
      <4>3. ~Regresses(table[req[q].oid], req[q].copy)'
        BY <1>2, <4>1, SameIsNoLoss
      <4> QED
        BY <4>2, <4>3 DEF CopyOK
    <3>2. CASE mine.pc \notin HasCopy
      BY <1>3, <2>1, <3>2 DEF CopyOK
    <3> QED
      BY <3>1, <3>2
  <2>2. CASE q # r
    <3>1. CopyOK(req[q])
      BY DEF RowsInv
    <3> SUFFICES ASSUME req[q].pc \in HasCopy
                 PROVE  /\ WaybillsOK(req[q].copy, issued')
                        /\ ~req'[q].stale /\ req[q].oid \in DOMAIN table' =>
                             ~Regresses(table'[req[q].oid], req[q].copy)
      BY <1>3, <2>2 DEF CopyOK
    <3>2. WaybillsOK(req[q].copy, issued')
      <4>1. WaybillsOK(req[q].copy, issued) /\ req'[q].copy = req[q].copy
        BY <1>3, <2>2, <3>1 DEF CopyOK
      <4> QED
        BY <4>1 DEF WaybillsOK
    <3>3. ASSUME ~req'[q].stale, req[q].oid \in DOMAIN table'
          PROVE  ~Regresses(table'[req[q].oid], req[q].copy)
      <4>1. req[q].oid # o /\ ~req[q].stale
        BY <1>3, <2>2, <3>3
      <4>2. /\ req[q].oid \in DOMAIN table
            /\ table'[req[q].oid] = table[req[q].oid]
        BY <1>2, <3>3, <4>1
      <4> QED
        BY <3>1, <4>1, <4>2 DEF CopyOK
    <3> QED
      BY <3>2, <3>3
  <2> QED
    BY <2>1, <2>2
<1> QED
  BY <1>5, <1>6 DEF RowsInv

\* A handler that loads keeps a row that has lost nothing.
LEMMA RowsLoad ==
  ASSUME RowsInv, TypeOK', NEW r \in Reqs, Load(r)
  PROVE  RowsInv'
<1> DEFINE o == req[r].oid
<1>1. TypeOK /\ req[r].pc = "load" /\ UNCHANGED table
  BY LoadCases DEF RowsInv
<1>2. o \in DOMAIN table /\ table[o] \in Row /\ WaybillsOK(table[o], issued)
  BY <1>1, LoadedRow DEF RowsInv
<1>3. CASE Becomes(r, Idle) /\ issued' = issued
  BY <1>3, IdleFacts, NoCopy, RowsSlot DEF HasCopy
<1>4. ASSUME NEW pc \in HasCopy, NEW row \in Row, Keep(r, pc, row),
             ~Regresses(table[o], row), issued \subseteq issued',
             WaybillsOK(row, issued')
      PROVE  RowsInv'
  <2>1. PICK h \in Request :
          /\ Becomes(r, h) /\ HandlerOK(h)
          /\ h.op = req[r].op /\ h.who = req[r].who /\ h.oid = o
          /\ h.pc = pc /\ h.copy = row
    BY <1>1, <1>4, KeepFacts
  <2>2. CopyOK(h)'
    BY <1>1, <1>4, <2>1 DEF CopyOK
  <2> QED
    BY <1>4, <2>1, <2>2, RowsSlot
<1>5. ASSUME NEW pc \in HasCopy, NEW row \in Row, Keep(r, pc, row),
             ~Regresses(table[o], row),
             row.kuaidi = table[o].kuaidi, issued' = issued
      PROVE  RowsInv'
  <2>1. WaybillsOK(row, issued')
    BY <1>2, <1>5 DEF WaybillsOK
  <2> QED
    BY <1>4, <1>5, <2>1
<1>6. ASSUME NEW pc \in HasCopy, NEW row \in Row, Keep(r, pc, row),
             ~Regresses(table[o], row), NEW w \in Waybills \ issued,
             row.kuaidi = Append(table[o].kuaidi, w), issued' = issued \cup {w}
      PROVE  RowsInv'
  <2>1. WaybillsOK(row, issued') /\ issued \subseteq issued'
    BY <1>2, <1>6, AppendIsNew
  <2> QED
    BY <1>4, <1>6, <2>1
<1> QED
  BY <1>1, <1>3, <1>5, <1>6, LoadKeeps

\* Every step keeps the waybills distinct and the fresh copies complete.
LEMMA RowsStep == RowsInv /\ [Next]_vars => RowsInv'
<1> SUFFICES ASSUME RowsInv, [Next]_vars PROVE RowsInv'
  OBVIOUS
<1>1. TypeOK /\ TypeOK'
  BY TypeStep DEF RowsInv
<1>2. CASE UNCHANGED vars
  BY <1>1, <1>2 DEF vars, RowsInv, CopyOK
<1>3. ASSUME NEW r \in Reqs, NEW h, Becomes(r, h), h.pc \notin HasCopy, UNCHANGED issued
      PROVE  RowsInv'
  BY <1>1, <1>3, NoCopy, RowsSlot
<1>4. ASSUME NEW r \in Reqs, Finish(r), UNCHANGED <<table, issued>> PROVE RowsInv'
  <2>1. Becomes(r, Idle) /\ Idle.pc \notin HasCopy
    BY <1>4, IdleFacts DEF Finish, Becomes, HasCopy
  <2> QED
    BY <1>3, <1>4, <2>1
<1>5. ASSUME NEW r \in Reqs, NEW who \in Users, NEW o \in Orders, OrderCreate(r, who, o)
      PROVE  RowsInv'
  <2>1. PICK seller \in Merchants \cup {None}, p \in Int, f \in Int :
          req' = [req EXCEPT ![r] =
            [op |-> "create", who |-> who, oid |-> o, pc |-> "write",
             copy |-> [buyer |-> who, seller |-> seller, price |-> p, fee |-> f,
                       payAmount |-> 0, payed |-> FALSE, closed |-> FALSE,
                       kuaidi |-> <<>>, deleted |-> FALSE],
             stale |-> FALSE, tries |-> 0]]
    BY <1>5, CreateFacts
  <2> DEFINE row == [buyer |-> who, seller |-> seller, price |-> p, fee |-> f,
                     payAmount |-> 0, payed |-> FALSE, closed |-> FALSE,
                     kuaidi |-> <<>>, deleted |-> FALSE]
             h == [op |-> "create", who |-> who, oid |-> o, pc |-> "write",
                   copy |-> row, stale |-> FALSE, tries |-> 0]
  <2>2. row.kuaidi = <<>>
    OBVIOUS
  <2>3. Becomes(r, h) /\ o \notin DOMAIN table /\ UNCHANGED <<table, issued>>
    BY <1>5, <2>1 DEF OrderCreate, Becomes, history
  <2> HIDE DEF row
  <2>4. h.copy = row /\ h.oid = o
    OBVIOUS
  <2> HIDE DEF h
  <2>5. CopyOK(h)'
    BY <2>2, <2>3, <2>4 DEF CopyOK, WaybillsOK
  <2> QED
    BY <1>1, <2>3, <2>5, RowsSlot
<1>6. ASSUME NEW r \in Reqs, NEW op, NEW who, NEW o,
             Becomes(r, Handler(op, who, o, "load")), UNCHANGED issued
      PROVE  RowsInv'
  <2>1. Handler(op, who, o, "load").pc \notin HasCopy
    BY DEF Handler, HasCopy
  <2> QED
    BY <1>3, <1>6, <2>1
<1>7. ASSUME NEW r \in Reqs, NEW who \in Users, NEW o \in Orders, NEW op \in Ops,
             Arrive(r, op, who, o)
      PROVE  RowsInv'
  BY <1>6, <1>7 DEF Arrive, Becomes
<1>8. ASSUME NEW r \in Reqs, NEW o \in Orders, NEW op \in {"wx", "wxother"},
             WxNotify(r, op, o)
      PROVE  RowsInv'
  BY <1>6, <1>8 DEF WxNotify, Becomes, history
<1>9. ASSUME NEW r \in Reqs, ScriptSaysPayed(r) PROVE RowsInv'
  <2>1. PICK h \in Request :
          /\ Becomes(r, h) /\ HandlerOK(h)
          /\ h.op = req[r].op /\ h.who = req[r].who /\ h.oid = req[r].oid
          /\ h.pc = "write" /\ h.copy \in Row /\ h.copy.seller = req[r].copy.seller
          /\ h.copy = [req[r].copy EXCEPT !.payed = TRUE] /\ h.copy.payed = TRUE
          /\ h.stale = req[r].stale
    BY <1>1, <1>9, ScriptFacts
  <2>2. UNCHANGED <<table, issued>> /\ req[r].pc = "script"
    BY <1>9 DEF ScriptSaysPayed
  <2>3. req[r].copy \in Row /\ CopyOK(req[r]) /\ req[r].pc \in HasCopy
    BY <1>1, <2>2 DEF TypeOK, HandlerOK, RowsInv, HasCopy
  <2>4. /\ h.copy.kuaidi = req[r].copy.kuaidi /\ h.copy.deleted = req[r].copy.deleted
        /\ h.copy.buyer = req[r].copy.buyer /\ h.copy.seller = req[r].copy.seller
    BY <2>1, <2>3 DEF Row
  <2>5. \A old : ~Regresses(old, req[r].copy) => ~Regresses(old, h.copy)
    BY <2>1, <2>4 DEF Regresses
  <2>6. WaybillsOK(h.copy, issued')
    BY <2>2, <2>3, <2>4 DEF CopyOK, WaybillsOK
  <2>7. CopyOK(h)'
    BY <2>1, <2>2, <2>3, <2>5, <2>6 DEF CopyOK
  <2> QED
    BY <1>1, <2>1, <2>2, <2>7, RowsSlot
<1>10. ASSUME NEW r \in Reqs,
              ScriptSaysOther(r) \/ PrepayCall(r) \/ WriteFails(r) \/ OrderStatus(r)
       PROVE  RowsInv'
  BY <1>4, <1>10 DEF ScriptSaysOther, PrepayCall, WriteFails, OrderStatus, history
<1>11. ASSUME NEW r \in Reqs, WriteCommits(r) \/ WriteRecoverable(r) PROVE RowsInv'
  <2>1. PICK h \in Request :
          /\ HandlerOK(h)
          /\ \/ /\ h.op = req[r].op /\ h.who = req[r].who /\ h.oid = req[r].oid
                /\ \/ /\ h.pc = "write" /\ h.copy = req[r].copy
                      /\ h.stale = req[r].stale
                   \/ h.pc = "status" /\ h.op \in {"check", "mcheck", "mark"}
             \/ h = Idle
          /\ \/ Becomes(r, h) /\ UNCHANGED <<said, recorded, totals>>
             \/ /\ Writes(r, h)
                /\ \/ said' = said
                   \/ req[r].op = "wx" /\ said' = said \cup {<<"ack", req[r].oid>>}
    BY <1>1, <1>11, WriteCases
  <2>2. req[r].pc = "write" /\ UNCHANGED issued
    BY <1>1, <1>11, WriteCases
  <2>3. h.pc \in HasCopy => /\ h.copy = req[r].copy /\ h.oid = req[r].oid
                            /\ h.stale = req[r].stale
    BY <2>1, IdleFacts DEF HasCopy
  <2>4. CASE Becomes(r, h)
    <3>1. CopyOK(req[r]) /\ req[r].pc \in HasCopy /\ table' = table
      BY <2>2, <2>4 DEF RowsInv, HasCopy, Becomes
    <3>2. CopyOK(h)'
      BY <2>2, <2>3, <3>1 DEF CopyOK
    <3> QED
      BY <1>1, <2>2, <2>4, <3>2, RowsSlot
  <2>5. CASE Writes(r, h)
    BY <1>1, <2>2, <2>3, <2>5, RowsWrite
  <2> QED
    BY <2>1, <2>4, <2>5
<1>12. ASSUME NEW o \in Orders, OrderClose(o) \/ WxPay(o) PROVE RowsInv'
  <2>1. UNCHANGED <<table, req, issued>>
    BY <1>12 DEF OrderClose, WxPay, history
  <2> QED
    BY <1>1, <2>1 DEF RowsInv, CopyOK
<1>13. CASE Crash
  <2>1. UNCHANGED <<table, issued>> /\ \A r \in Reqs : req'[r] = Idle
    BY <1>13 DEF Crash, history
  <2>2. \A r \in Reqs : CopyOK(req[r])'
    BY <2>1, IdleFacts DEF CopyOK, HasCopy
  <2> QED
    BY <1>1, <2>1, <2>2 DEF RowsInv
<1> QED
  BY <1>1, <1>2, <1>5, <1>7, <1>8, <1>9, <1>10, <1>11, <1>12, <1>13, RowsLoad
     DEF Next, Later

\* The invariant of rows and copies holds in every reachable state.
LEMMA RowsInvariant == Spec => []RowsInv
<1>1. Init => RowsInv
  <2> SUFFICES ASSUME Init PROVE RowsInv
    OBVIOUS
  <2>1. TypeOK
    BY InitTypes
  <2>2. \A r \in Reqs : CopyOK(req[r])
    BY IdleFacts DEF Init, CopyOK, HasCopy
  <2> QED
    BY <2>1, <2>2 DEF Init, RowsInv
<1> QED
  BY <1>1, RowsStep, PTL DEF Spec

\* No order holds a waybill twice, however writes are repeated and whichever
\* copies of the row are written back.
THEOREM WaybillsAreDistinct == Spec => []NoDuplicateWaybill
<1>1. RowsInv => NoDuplicateWaybill
  BY DEF RowsInv, WaybillsOK, NoDuplicateWaybill
<1> QED
  BY <1>1, RowsInvariant, PTL

\* A step that changes the table is a write of one handler's copy.
LEMMA OnlyWritesChangeTheTable ==
  ASSUME TypeOK, [Next]_vars, table' # table
  PROVE  \E r \in Reqs : req[r].pc = "write" /\ Store(r)
<1>1. ASSUME NEW r \in Reqs, Load(r) PROVE table' = table
  BY <1>1, LoadCases
<1>2. ASSUME NEW r \in Reqs, Later(r) PROVE req[r].pc = "write" /\ Store(r)
  BY <1>2 DEF Later, ScriptSaysPayed, ScriptSaysOther, PrepayCall, WriteFails,
              OrderStatus, WriteCommits, WriteRecoverable
<1>3. ASSUME NEW r \in Reqs, NEW who \in Users, NEW o \in Orders,
             OrderCreate(r, who, o) \/ \E op \in Ops : Arrive(r, op, who, o)
      PROVE  table' = table
  BY <1>3 DEF OrderCreate, Arrive
<1>4. ASSUME NEW r \in Reqs, NEW op, NEW o \in Orders, WxNotify(r, op, o)
      PROVE  table' = table
  BY <1>4 DEF WxNotify
<1>5. ASSUME NEW o \in Orders, OrderClose(o) \/ WxPay(o) PROVE table' = table
  BY <1>5 DEF OrderClose, WxPay
<1>6. Crash => table' = table
  BY DEF Crash
<1>7. UNCHANGED vars => table' = table
  BY DEF vars
<1> QED
  BY <1>1, <1>2, <1>3, <1>4, <1>5, <1>6, <1>7 DEF Next

\* A row loses a payment, a deletion or a waybill only to a handler that
\* writes back a copy somebody else's write had made stale.
THEOREM LossesAreStaleWrites == Spec => LostOnlyToStaleWrite
<1> DEFINE Kept ==
      \A o \in DOMAIN table :
        /\ o \in DOMAIN table'
        /\ Regresses(table[o], table'[o]) =>
             \E r \in Reqs : /\ req[r].oid = o /\ req[r].pc = "write"
                             /\ req[r].stale /\ table'[o] = req[r].copy
<1>1. RowsInv /\ [Next]_vars => [Kept]_vars
  <2> SUFFICES ASSUME RowsInv, [Next]_vars PROVE Kept
    OBVIOUS
  <2>1. TypeOK
    BY DEF RowsInv
  <2>2. CASE table' = table
    BY <2>2, SameIsNoLoss
  <2>3. CASE table' # table
    <3>1. PICK r \in Reqs : req[r].pc = "write" /\ Store(r)
      BY <2>1, <2>3, OnlyWritesChangeTheTable
    <3>2. /\ DOMAIN table' = DOMAIN table \cup {req[r].oid}
          /\ table'[req[r].oid] = req[r].copy
          /\ \A x \in DOMAIN table \ {req[r].oid} : table'[x] = table[x]
      BY <2>1, <3>1, StoreFacts
    <3>3. CopyOK(req[r]) /\ req[r].pc \in HasCopy
      BY <3>1 DEF RowsInv, HasCopy
    <3> SUFFICES ASSUME NEW o \in DOMAIN table, Regresses(table[o], table'[o])
                 PROVE  /\ req[r].oid = o /\ req[r].pc = "write"
                        /\ req[r].stale /\ table'[o] = req[r].copy
      BY <3>2
    <3>4. o = req[r].oid
      BY <3>2, SameIsNoLoss
    <3> QED
      BY <3>1, <3>2, <3>3, <3>4 DEF CopyOK
  <2> QED
    BY <2>2, <2>3
<1> QED
  BY <1>1, RowsInvariant, PTL DEF Spec, LostOnlyToStaleWrite

=============================================================================
