-------------------------------- MODULE Orders --------------------------------
(***************************************************************************)
(* The life of a cmall_order: created by a buyer, altered, shipped, marked *)
(* payed or deleted by its seller, payed by WeChat or by the seller's      *)
(* checkpay.js, and read by both.                                          *)
(*                                                                         *)
(* Every JSON-RPC request is a coroutine of its own                        *)
(* (cmall_do_websocket.cpp, do_ws_read) and every database operation is a  *)
(* transaction of its own on a thread pool, so a handler is a sequence of  *)
(* steps between which every other handler may run: it loads the whole     *)
(* order row, works on its private copy, and writes the whole row back.    *)
(* A slot of Reqs holds one handler in flight.                             *)
(***************************************************************************)
EXTENDS Integers, Sequences

CONSTANTS
  Orders,      \* order ids gen_uuid() can return
  Buyers,      \* users that are not merchants
  Merchants,   \* users with a row in cmall_merchant
  None,        \* seller_ = 0 (no good was accepted), and the unset fields of
               \* a slot that is not in use
  Reqs,        \* slots: how many handlers run at the same time
  Prices,      \* values of price_
  Fees,        \* values of kuaidifei
  Waybills,    \* values of kuaidihao
  MaxTries,    \* db_max_retries
  MaxCrashes,  \* bound: how often the process dies and is restarted
  Ops          \* bound: the operations clients call in this instance

AllOps == {"create", "detail", "close", "check", "mcheck", "mark", "alter",
           "kuaidi", "delete", "prepay", "wx", "wxother"}

Users == Buyers \cup Merchants

ASSUME ConstantsAssumption ==
  /\ None \notin Users /\ None \notin Orders
  /\ Prices \subseteq Int /\ Fees \subseteq Int
  /\ MaxTries \in Nat \ {0}
  /\ MaxCrashes \in Nat
  /\ Ops \subseteq AllOps

VARIABLES
  table,      \* table cmall_order: oid -> row
  req,        \* the handlers in flight
  crashes,    \* process restarts so far
  prepaid,    \* WeChat: amounts asked for in get_prepay_id, by order
  charged,    \* WeChat: {} or the one amount the buyer has payed, by order
  said,       \* what has been told outside: <<what, oid>>
  issued,     \* history: waybills merchants have entered
  confirmed,  \* history: orders somebody entitled to it declared payed
  recorded,   \* history: orders once stored with payed_at
  totals      \* history: every price_ + kuaidifei an order was stored with

vars == <<table, req, crashes, prepaid, charged, said, issued, confirmed,
          recorded, totals>>

wxVars == <<prepaid, charged>>
history == <<issued, confirmed, recorded, totals>>

-----------------------------------------------------------------------------
(* Data *)

\* A row of cmall_order, its goods abstracted to the seller they all share.
Row == [buyer: Users, seller: Merchants \cup {None}, price: Int, fee: Int,
        payAmount: Int, payed: BOOLEAN, closed: BOOLEAN,
        kuaidi: Seq(Waybills), deleted: BOOLEAN]

Total(row) == row.price + row.fee

Pcs == {"idle", "load", "script", "prepay", "write", "status"}

Said == {"payed", "status", "ack", "closed"}

Request == [op: AllOps \cup {"none"}, who: Users \cup {None},
            oid: Orders \cup {None}, pc: Pcs,
            copy: Row \cup {None}, stale: BOOLEAN, tries: Nat]

\* A handler that holds no copy of a row.
Handler(op, who, o, pc) ==
  [op |-> op, who |-> who, oid |-> o, pc |-> pc,
   copy |-> None, stale |-> FALSE, tries |-> 0]

Idle == Handler("none", None, None, "idle")

\* Mutant of Visible: the merchant queries forget seller == this_user.uid_.
Visible_AnySeller(r) ==
  LET row == table[req[r].oid]
  IN  CASE req[r].op \in {"check", "prepay"} -> row.buyer = req[r].who
        [] req[r].op \in {"wx", "wxother"} -> TRUE
        [] OTHER -> ~row.deleted

\* The query each handler puts to the database; deleted_at.is_null() is part
\* of every query but those of prepay and of the WeChat callback.
Visible(r) ==
  LET row == table[req[r].oid]
  IN  CASE req[r].op = "check" -> row.buyer = req[r].who /\ ~row.deleted
        [] req[r].op = "detail" ->
             req[r].who \in {row.buyer, row.seller} /\ ~row.deleted
        [] req[r].op = "prepay" -> row.buyer = req[r].who
        [] req[r].op \in {"wx", "wxother"} -> TRUE
        [] OTHER -> row.seller = req[r].who /\ ~row.deleted

At(r, op, pc) == req[r].op = op /\ req[r].pc = pc

-----------------------------------------------------------------------------
(* How a handler moves on *)

\* The handler ends; what it replies is in said when a property speaks of it.
Finish(r) == req' = [req EXCEPT ![r] = Idle]

\* orders[0] becomes the handler's own copy, here already modified.
Keep(r, pc, row) ==
  req' = [req EXCEPT ![r].pc = pc, ![r].copy = row, ![r].stale = FALSE]

\* The handlers after r, now in state mine, has written row req[r].oid: every
\* other handler's copy of that row is out of date.
AfterWrite(r, mine) ==
  [q \in Reqs |->
     IF q = r THEN mine
     ELSE IF req[q].oid = req[r].oid /\ req[q].pc \in {"script", "prepay", "write"}
          THEN [req[q] EXCEPT !.stale = TRUE]
          ELSE req[q]]

\* database::update, soft_remove and add write every column of the copy.
Store(r) ==
  LET o == req[r].oid
      row == req[r].copy
  IN  /\ table' = [x \in DOMAIN table \cup {o} |->
                     IF x = o THEN row ELSE table[x]]
      /\ totals' = [totals EXCEPT ![o] = @ \cup {Total(row)}]
      /\ recorded' = IF row.payed THEN recorded \cup {o} ELSE recorded

-----------------------------------------------------------------------------
(* Requests arrive *)

\* order_create_cart / order_create_direct: the goods loop (its result is the
\* seller and the sums) up to async_add of the new order.
OrderCreate(r, who, o) ==
  /\ req[r].pc = "idle" /\ "create" \in Ops
  /\ o \notin DOMAIN table /\ \A q \in Reqs : req[q].oid # o
  /\ \E seller \in Merchants \cup {None}, p \in Prices, f \in Fees :
       LET none == seller = None
           row == [buyer |-> who, seller |-> seller,
                   price |-> IF none THEN 0 ELSE p,
                   fee |-> IF none THEN 0 ELSE f,
                   payAmount |-> 0, payed |-> FALSE, closed |-> FALSE,
                   kuaidi |-> <<>>, deleted |-> FALSE]
       IN  req' = [req EXCEPT ![r] = [op |-> "create", who |-> who, oid |-> o,
                                      pc |-> "write", copy |-> row,
                                      stale |-> FALSE, tries |-> 0]]
  /\ UNCHANGED <<table, crashes, wxVars, said, history>>

\* A request about a stored order is dispatched to its handler. Merchant
\* operations need a merchant session. A merchant that calls mark_payed on an
\* order of its own has thereby declared it payed.
Arrive(r, op, who, o) ==
  /\ req[r].pc = "idle" /\ op \in Ops \ {"create", "close", "wx", "wxother"}
  /\ o \in DOMAIN table
  /\ op \in {"mcheck", "mark", "alter", "kuaidi", "delete"} => who \in Merchants
  /\ req' = [req EXCEPT ![r] = Handler(op, who, o, "load")]
  /\ confirmed' = IF op = "mark" /\ table[o].seller = who
                  THEN confirmed \cup {o} ELSE confirmed
  /\ UNCHANGED <<table, crashes, wxVars, said, issued, recorded, totals>>

\* POST /api/wx/pay.action: WeChat notifies the state of a trade it knows of,
\* again and again until it is told SUCCESS, and sometimes after that. The
\* trade_state is SUCCESS ("wx") once the buyer has payed.
WxNotify(r, op, o) ==
  /\ req[r].pc = "idle" /\ "wx" \in Ops
  /\ o \in DOMAIN table /\ prepaid[o] # {}
  /\ op = "wx" => charged[o] # {}
  /\ req' = [req EXCEPT ![r] = Handler(op, None, o, "load")]
  /\ UNCHANGED <<table, crashes, wxVars, said, history>>

\* order_close: the case is a bare break, the reply carries no error.
OrderClose(o) ==
  /\ "close" \in Ops /\ o \in DOMAIN table
  /\ said' = said \cup {<<"closed", o>>}
  /\ UNCHANGED <<table, req, crashes, wxVars, history>>

-----------------------------------------------------------------------------
(* Handlers: the step that loads the order *)

\* order_not_found.
NotFound(r) ==
  /\ req[r].pc = "load" /\ ~Visible(r)
  /\ Finish(r)
  /\ UNCHANGED <<table, crashes, wxVars, said, history>>

\* Mutant of LoadFails: a callback whose load failed answers SUCCESS.
LoadFails_Acks(r) ==
  /\ req[r].pc = "load"
  /\ said' = IF req[r].op = "wx" THEN said \cup {<<"ack", req[r].oid>>} ELSE said
  /\ Finish(r)
  /\ UNCHANGED <<table, crashes, wxVars, history>>

\* async_load throws: retries exhausted, or a retried vector load returns the
\* row twice and the handler takes it for order_not_found.
LoadFails(r) ==
  /\ req[r].pc = "load"
  /\ Finish(r)
  /\ UNCHANGED <<table, crashes, wxVars, said, history>>

\* order_detail, merchant_get_sold_order_detail: the reply is the row.
OrderDetail(r) ==
  /\ At(r, "detail", "load") /\ Visible(r)
  /\ said' = IF table[req[r].oid].payed
             THEN said \cup {<<"payed", req[r].oid>>} ELSE said
  /\ Finish(r)
  /\ UNCHANGED <<table, crashes, wxVars, history>>

\* An order already payed is answered at once by check and by mark.
AlreadyPayed(r) ==
  /\ req[r].op \in {"check", "mcheck", "mark"} /\ req[r].pc = "load"
  /\ Visible(r) /\ table[req[r].oid].payed
  /\ said' = said \cup {<<"payed", req[r].oid>>}
  /\ Finish(r)
  /\ UNCHANGED <<table, crashes, wxVars, history>>

\* order_check_payment and merchant_sold_orders_check_payment: run the
\* seller's checkpay.js; an order without a seller is answered false.
CheckPayment(r) ==
  /\ req[r].op \in {"check", "mcheck"} /\ req[r].pc = "load"
  /\ Visible(r) /\ ~table[req[r].oid].payed
  /\ IF table[req[r].oid].seller \in Merchants
     THEN Keep(r, "script", table[req[r].oid])
     ELSE Finish(r)
  /\ UNCHANGED <<table, crashes, wxVars, said, history>>

\* merchant_sold_orders_mark_payed, into order_mark_payed.
MarkPayed(r) ==
  /\ At(r, "mark", "load") /\ Visible(r) /\ ~table[req[r].oid].payed
  /\ Keep(r, "write", [table[req[r].oid] EXCEPT !.payed = TRUE])
  /\ UNCHANGED <<table, crashes, wxVars, said, history>>

\* Mutant of AlterOrderPrice: a new price makes the order unpayed again.
AlterOrderPrice_Unpays(r) ==
  /\ At(r, "alter", "load") /\ Visible(r)
  /\ \E p \in Prices :
       Keep(r, "write", [table[req[r].oid] EXCEPT !.price = p, !.payed = FALSE])
  /\ UNCHANGED <<table, crashes, wxVars, said, history>>

\* merchant_alter_order_price: either amount may be left out.
AlterOrderPrice(r) ==
  /\ At(r, "alter", "load") /\ Visible(r)
  /\ LET row == table[req[r].oid]
     IN  \E p \in Prices \cup {row.price}, f \in Fees \cup {row.fee} :
           Keep(r, "write", [row EXCEPT !.price = p, !.fee = f])
  /\ UNCHANGED <<table, crashes, wxVars, said, history>>

\* merchant_sold_orders_add_kuaidi, each waybill entered once.
AddKuaidi(r) ==
  /\ At(r, "kuaidi", "load") /\ Visible(r)
  /\ \E w \in Waybills \ issued :
       /\ Keep(r, "write", [table[req[r].oid] EXCEPT !.kuaidi = Append(@, w)])
       /\ issued' = issued \cup {w}
  /\ UNCHANGED <<table, crashes, wxVars, said, confirmed, recorded, totals>>

\* merchant_delete_sold_orders: payed_at_ is set, then async_soft_remove sets
\* deleted_at_.
DeleteSoldOrder(r) ==
  /\ At(r, "delete", "load") /\ Visible(r)
  /\ Keep(r, "write",
          [table[req[r].oid] EXCEPT !.payed = TRUE, !.deleted = TRUE])
  /\ UNCHANGED <<table, crashes, wxVars, said, history>>

\* order_get_wxpay_prepay_id up to the call of WeChat. A merchant that has
\* vanished, has no mchid or no appid ends it. bought_goods[0] of an order
\* without goods is undefined: the merchant_id read may name any merchant.
WxPrepay(r) ==
  /\ At(r, "prepay", "load") /\ Visible(r)
  /\ \/ Keep(r, "prepay", table[req[r].oid])
     \/ Finish(r)
  /\ UNCHANGED <<table, crashes, wxVars, said, history>>

\* Mutant of WxCallback: SUCCESS is answered before the row is written.
WxCallback_AcksFirst(r) ==
  /\ At(r, "wx", "load")
  /\ Keep(r, "write", [table[req[r].oid] EXCEPT !.payed = TRUE])
  /\ said' = said \cup {<<"ack", req[r].oid>>}
  /\ UNCHANGED <<table, crashes, wxVars, history>>

\* handle_order_wx_callback: only trade_state SUCCESS is written.
WxCallback(r) ==
  /\ req[r].op \in {"wx", "wxother"} /\ req[r].pc = "load"
  /\ IF req[r].op = "wx"
     THEN Keep(r, "write", [table[req[r].oid] EXCEPT !.payed = TRUE])
     ELSE Finish(r)
  /\ UNCHANGED <<table, crashes, wxVars, said, history>>

-----------------------------------------------------------------------------
(* Handlers: the steps after the load *)

\* checkpay.js prints "payed": the seller's script has declared it payed.
ScriptSaysPayed(r) ==
  /\ req[r].pc = "script"
  /\ confirmed' = confirmed \cup {req[r].oid}
  /\ req' = [req EXCEPT ![r].pc = "write", ![r].copy.payed = TRUE]
  /\ UNCHANGED <<table, crashes, wxVars, said, issued, recorded, totals>>

\* Mutant of ScriptSaysOther: every output of checkpay.js counts as payed.
ScriptSaysOther_Payed(r) ==
  /\ req[r].pc = "script"
  /\ said' = said \cup {<<"payed", req[r].oid>>}
  /\ Finish(r)
  /\ UNCHANGED <<table, crashes, wxVars, history>>

\* Anything else it prints, its timeout, no script and no repository end the
\* handler without a write.
ScriptSaysOther(r) ==
  /\ req[r].pc = "script"
  /\ Finish(r)
  /\ UNCHANGED <<table, crashes, wxVars, said, history>>

\* Mutant of PrepayCall: kuaidifei is left out of the amount.
PrepayCall_NoFee(r) ==
  /\ req[r].pc = "prepay"
  /\ prepaid' = [prepaid EXCEPT ![req[r].oid] = @ \cup {req[r].copy.price}]
  /\ Finish(r)
  /\ UNCHANGED <<table, crashes, charged, said, history>>

\* get_prepay_id: WeChat learns the amount; its answer may be an error.
PrepayCall(r) ==
  /\ req[r].pc = "prepay"
  /\ prepaid' = [prepaid EXCEPT ![req[r].oid] = @ \cup {Total(req[r].copy)}]
  /\ Finish(r)
  /\ UNCHANGED <<table, crashes, charged, said, history>>

\* The unique index on oid_ admits the row of a new order only once.
Storable(r) == req[r].op = "create" => req[r].oid \notin DOMAIN table

\* retry_database_op: the transaction commits and its outcome arrives.
\* order_mark_payed goes on to orderstatus.js, the callback answers SUCCESS
\* (which WeChat may or may not receive), the others reply.
WriteCommits(r) ==
  /\ req[r].pc = "write" /\ Storable(r)
  /\ Store(r)
  /\ req' = AfterWrite(r, IF req[r].op \in {"check", "mcheck", "mark"}
                          THEN Handler(req[r].op, req[r].who, req[r].oid, "status")
                          ELSE Idle)
  /\ said' \in IF req[r].op = "wx"
               THEN {said, said \cup {<<"ack", req[r].oid>>}}
               ELSE {said}
  /\ UNCHANGED <<crashes, wxVars, issued, confirmed>>

\* Mutant of WriteRecoverable: the push_back is inside the retried operation.
WriteRecoverable_Appends(r) ==
  /\ req[r].pc = "write" /\ req[r].tries + 1 < MaxTries
  /\ LET k == req[r].copy.kuaidi
     IN  req' = [req EXCEPT ![r].tries = @ + 1,
                            ![r].copy.kuaidi = IF req[r].op = "kuaidi"
                                               THEN Append(k, k[Len(k)]) ELSE k]
  /\ UNCHANGED <<table, crashes, wxVars, said, history>>

\* odb::recoverable: the connection was lost before or after the commit took
\* effect; the same copy is written again, or the handler gives up.
WriteRecoverable(r) ==
  /\ req[r].pc = "write"
  /\ LET mine == IF req[r].tries + 1 < MaxTries
                 THEN [req[r] EXCEPT !.tries = @ + 1] ELSE Idle
     IN  \/ /\ req' = [req EXCEPT ![r] = mine]
            /\ UNCHANGED <<table, recorded, totals>>
         \/ /\ Storable(r)
            /\ Store(r)
            /\ req' = AfterWrite(r, mine)
  /\ UNCHANGED <<crashes, wxVars, said, issued, confirmed>>

\* Any other exception of the write, such as the unique index on oid_ when a
\* create that had committed is tried again: internal_server_error.
WriteFails(r) ==
  /\ req[r].pc = "write"
  /\ Finish(r)
  /\ UNCHANGED <<table, crashes, wxVars, said, history>>

\* The rest of order_mark_payed: orderstatus.js, if the seller has one, is
\* started in the background and true is replied.
OrderStatus(r) ==
  /\ req[r].pc = "status"
  /\ said' \in {said \cup {<<"payed", req[r].oid>>},
                said \cup {<<"payed", req[r].oid>>, <<"status", req[r].oid>>}}
  /\ Finish(r)
  /\ UNCHANGED <<table, crashes, wxVars, history>>

-----------------------------------------------------------------------------
(* The world around the handlers *)

\* The process is stopped or dies, and is restarted: what was in flight is
\* gone. A client that disconnects changes nothing here: its requests hold
\* the connection and run to their end.
Crash ==
  /\ crashes < MaxCrashes
  /\ crashes' = crashes + 1
  /\ req' = [r \in Reqs |-> Idle]
  /\ UNCHANGED <<table, wxVars, said, history>>

\* WeChat: the buyer pays, once, one of the amounts asked for.
WxPay(o) ==
  /\ charged[o] = {}
  /\ \E a \in prepaid[o] : charged' = [charged EXCEPT ![o] = {a}]
  /\ confirmed' = confirmed \cup {o}
  /\ UNCHANGED <<table, req, crashes, prepaid, said, issued, recorded, totals>>

Init ==
  /\ table = [o \in {} |-> <<>>]
  /\ req = [r \in Reqs |-> Idle]
  /\ crashes = 0
  /\ prepaid = [o \in Orders |-> {}]
  /\ charged = [o \in Orders |-> {}]
  /\ said = {} /\ issued = {} /\ confirmed = {} /\ recorded = {}
  /\ totals = [o \in Orders |-> {}]

Load(r) ==
  \/ NotFound(r) \/ LoadFails(r) \/ OrderDetail(r) \/ AlreadyPayed(r)
  \/ CheckPayment(r) \/ MarkPayed(r) \/ AlterOrderPrice(r) \/ AddKuaidi(r)
  \/ DeleteSoldOrder(r) \/ WxPrepay(r) \/ WxCallback(r)

Later(r) ==
  \/ ScriptSaysPayed(r) \/ ScriptSaysOther(r) \/ PrepayCall(r)
  \/ WriteCommits(r) \/ WriteRecoverable(r) \/ WriteFails(r)
  \/ OrderStatus(r)

Next ==
  \/ \E r \in Reqs, who \in Users, o \in Orders :
       OrderCreate(r, who, o) \/ \E op \in Ops : Arrive(r, op, who, o)
  \/ \E r \in Reqs, op \in {"wx", "wxother"}, o \in Orders : WxNotify(r, op, o)
  \/ \E o \in Orders : OrderClose(o) \/ WxPay(o)
  \/ \E r \in Reqs : Load(r) \/ Later(r)
  \/ Crash

Spec == Init /\ [][Next]_vars

-----------------------------------------------------------------------------
(* Fairness: only for what the promises of WeChat rest on *)

\* A request that has arrived is carried on by the io_context and the thread
\* pool; WeChat sends its notification again until it has received SUCCESS;
\* and a database that fails does not fail for ever, so a callback that is
\* tried again and again gets through.
Fairness ==
  /\ \A r \in Reqs : WF_vars(Load(r) \/ Later(r))
  /\ \A o \in Orders :
       /\ SF_vars(/\ <<"ack", o>> \notin said
                  /\ \E r \in Reqs : WxNotify(r, "wx", o))
       /\ SF_vars(\E r \in Reqs : At(r, "wx", "load") /\ req[r].oid = o
                                  /\ WxCallback(r))
       /\ SF_vars(\E r \in Reqs : At(r, "wx", "write") /\ req[r].oid = o
                                  /\ WriteCommits(r))

FairSpec == Spec /\ Fairness

-----------------------------------------------------------------------------
(* Properties *)

\* The fields a handler has filled in at the place where it is: a request
\* about a stored order, past its load with a copy of a row.
HandlerOK(h) ==
  /\ h.pc # "idle" => h.oid \in Orders
  /\ h.pc # "idle" /\ h.op # "create" => h.oid \in DOMAIN table
  /\ h.pc \in {"script", "prepay", "write"} => h.copy \in Row
  /\ h.op = "create" => h.pc = "write" /\ ~h.copy.payed
  /\ h.op = "none" <=> h.pc = "idle"

\* Type correctness of the order table, of the handlers in flight and of the
\* history.
TypeOK ==
  /\ DOMAIN table \subseteq Orders /\ table \in [DOMAIN table -> Row]
  /\ req \in [Reqs -> Request]
  /\ \A r \in Reqs : HandlerOK(req[r])
  /\ crashes \in 0..MaxCrashes
  /\ prepaid \in [Orders -> SUBSET Int] /\ charged \in [Orders -> SUBSET Int]
  /\ said \subseteq Said \X Orders
  /\ issued \subseteq Waybills /\ confirmed \subseteq Orders
  /\ recorded \subseteq Orders /\ totals \in [Orders -> SUBSET Int]

\* An order that clients can see as payed was declared payed by its own
\* seller (mark_payed), by that seller's checkpay.js or by WeChat, although
\* delete_sold_orders sets payed_at_ too and stale rows are written back.
PayedIsConfirmed ==
  \A o \in DOMAIN table :
    table[o].payed /\ ~table[o].deleted => o \in confirmed

\* Whoever is told that an order is payed (the true of check_payment and
\* mark_payed, order_detail, a start of orderstatus.js), it was confirmed.
ToldPayedIsConfirmed ==
  \A o \in Orders :
    <<"payed", o>> \in said \/ <<"status", o>> \in said => o \in confirmed

\* WeChat is answered SUCCESS, after which it sends no more notifications,
\* only when the order has been stored with its payed_at_.
AckMeansRecorded ==
  \A o \in Orders : <<"ack", o>> \in said => o \in recorded

\* The amount a buyer is charged is a total the order was stored with at some
\* moment: never the price of one version of the row with the kuaidifei of
\* another, whatever merchant_alter_order_price does meanwhile.
ChargedTotalWasStored == \A o \in Orders : charged[o] \subseteq totals[o]

\* However often retry_database_op repeats a write, no waybill is twice in
\* the kuaidi of an order.
NoDuplicateWaybill ==
  \A o \in DOMAIN table : \A i, j \in DOMAIN table[o].kuaidi :
    table[o].kuaidi[i] = table[o].kuaidi[j] => i = j

\* What the new row no longer knows of the old one: a payment, a deletion, a
\* waybill, or who buys what from whom.
Regresses(old, new) ==
  \/ old.payed /\ ~new.payed
  \/ old.deleted /\ ~new.deleted
  \/ \E i \in DOMAIN old.kuaidi :
       i \notin DOMAIN new.kuaidi \/ new.kuaidi[i] # old.kuaidi[i]
  \/ <<old.buyer, old.seller>> # <<new.buyer, new.seller>>

\* A row loses a payment, a deletion or a waybill only when a handler writes
\* back a copy that another handler's write has made stale since it was
\* loaded: alone, every handler keeps what it is not about. Orders never
\* disappear from the table.
LostOnlyToStaleWrite ==
  [][\A o \in DOMAIN table :
       /\ o \in DOMAIN table'
       /\ Regresses(table[o], table'[o]) =>
            \E r \in Reqs : /\ req[r].oid = o /\ req[r].pc = "write"
                            /\ req[r].stale /\ table'[o] = req[r].copy]_vars

\* A payment made with WeChat is in the end stored with the order, through
\* failing loads and writes, lost answers and restarts.
WxPaymentRecorded == \A o \in Orders : charged[o] # {} ~> o \in recorded

\* doc/api.md has order_close cancel the order: once it is answered without
\* an error, the order is closed.
CloseCloses ==
  \A o \in DOMAIN table : <<"closed", o>> \in said => table[o].closed

\* db.hpp calls pay_amount_ the amount payed: once WeChat's payment has been
\* acknowledged, it holds what the buyer was charged.
PayAmountIsCharged ==
  \A o \in DOMAIN table :
    <<"ack", o>> \in said /\ table[o].payed => charged[o] = {table[o].payAmount}

=============================================================================
