----------------------------- MODULE OrderCreate -----------------------------
(***************************************************************************)
(* order_create_cart and order_create_direct: an order is made of what a   *)
(* buyer has chosen, one good after the other. For each of them the        *)
(* merchant is loaded once and the good is read from HEAD of his           *)
(* repository, while merchants push, administrators disable merchants and  *)
(* the buyer changes his addresses. A good that is chosen stands for the   *)
(* good and the selections; what it costs depends on the commit.           *)
(***************************************************************************)
EXTENDS Naturals, Sequences, FiniteSets, SequencesExt

CONSTANTS
  Merchants,   \* merchant ids
  Items,       \* goods with their selections
  MerchantOf,  \* the merchant of an item
  Commits,     \* commits
  Offer,       \* price and fee of an item in a commit, None if the good is
               \* not in it or the selection is not valid
  Lists,       \* what buyers order
  Addresses,   \* recipients
  None,        \* no seller, no offer
  Reqs,        \* handlers in flight
  MaxCalls,    \* bound: orders that are tried
  MaxChanges   \* bound: changes of addresses and merchants

ConstantsAssumption ==
  /\ MerchantOf \in [Items -> Merchants] /\ Lists \subseteq Seq(Items)
  /\ Offer \in [Commits -> [Items -> [price: Nat, fee: Nat] \cup {None}]]
  /\ None \notin Merchants \cup Commits \cup Addresses /\ IsFiniteSet(Addresses)
  /\ MaxCalls \in Nat /\ MaxChanges \in Nat

VARIABLES
  head,        \* HEAD of the repositories
  state,       \* cmall_merchant: state_, "unknown" without a row
  recipients,  \* recipients of the buyer in cmall_user
  shown,       \* the list of recipients that the buyer was shown
  orders,      \* cmall_order
  req,         \* the handlers in flight
  calls,
  changes

vars == <<head, state, recipients, shown, orders, req, calls, changes>>

outside == <<head, state, recipients, shown>>

Snapshot == [item: Items, version: Commits, price: Nat]

\* A handler: the recipient's place, the items still to do, and new_order.
\* History: chosen, the address at that place when it was shown; moved, the
\* list has lost one since; heads, every HEAD since the call arrived; away,
\* the merchants that could not sell at some time since.
Handler ==
  [pc: {"idle", "user", "goods", "add"}, place: Nat, todo: Seq(Items),
   known: SUBSET Merchants, closed: SUBSET Merchants,
   to: Addresses \cup {None}, seller: Merchants \cup {None},
   goods: Seq(Snapshot), price: Nat, fee: Nat, snap: Commits \cup {None},
   list: Seq(Items), chosen: Addresses \cup {None}, moved: BOOLEAN,
   heads: SUBSET Commits, away: SUBSET Merchants]

Idle ==
  [pc |-> "idle", place |-> 0, todo |-> <<>>, known |-> {}, closed |-> {},
   to |-> None, seller |-> None, goods |-> <<>>, price |-> 0, fee |-> 0,
   snap |-> None, list |-> <<>>, chosen |-> None, moved |-> FALSE,
   heads |-> {}, away |-> {}]

Finish(r) == req' = [req EXCEPT ![r] = Idle]

Away == {m \in Merchants : state[m] # "normal"}

-----------------------------------------------------------------------------
(* The buyer, the merchants and the administrators *)

\* The call, with a place of the list that was shown.
Create(r, l, i) ==
  /\ req[r].pc = "idle" /\ calls < MaxCalls /\ calls' = calls + 1
  /\ req' = [req EXCEPT ![r] = [Idle EXCEPT !.pc = "user", !.place = i - 1,
               !.todo = l, !.list = l, !.chosen = shown[i],
               !.moved = ~IsPrefix(shown, recipients),
               !.heads = {head[m] : m \in Merchants}, !.away = Away]]
  /\ UNCHANGED <<outside, orders, changes>>

Push(m, c) ==
  /\ head' = [head EXCEPT ![m] = c] /\ c # head[m]
  /\ changes < MaxChanges /\ changes' = changes + 1
  /\ req' = [r \in Reqs |-> IF req[r].pc = "idle" THEN Idle
                            ELSE [req[r] EXCEPT !.heads = @ \cup {c}]]
  /\ UNCHANGED <<state, recipients, shown, orders, calls>>

\* A merchant is approved, disabled or enabled.
SetState(m, s) ==
  /\ s # state[m] /\ state' = [state EXCEPT ![m] = s]
  /\ changes < MaxChanges /\ changes' = changes + 1
  /\ req' = [r \in Reqs |-> IF req[r].pc = "idle" \/ s = "normal" THEN req[r]
                            ELSE [req[r] EXCEPT !.away = @ \cup {m}]]
  /\ UNCHANGED <<head, recipients, shown, orders, calls>>

\* user_erase_receipt_address, from any connection of the buyer
EraseAddress(i) ==
  /\ changes < MaxChanges /\ changes' = changes + 1
  /\ recipients' = RemoveAt(recipients, i)
  /\ req' = [r \in Reqs |-> IF req[r].pc = "user"
                            THEN [req[r] EXCEPT !.moved = TRUE] ELSE req[r]]
  /\ UNCHANGED <<head, state, shown, orders, calls>>

\* user_list_recipient_address
ShowAddresses ==
  /\ shown' = recipients
  /\ UNCHANGED <<head, state, recipients, orders, req, calls, changes>>

-----------------------------------------------------------------------------
(* The handler *)

\* The user is loaded again, so that the place is one of the present list.
LoadUser(r) ==
  LET h == req[r] IN
  /\ h.pc = "user"
  /\ IF h.place < Len(recipients)
     THEN req' = [req EXCEPT ![r] = [h EXCEPT !.to = recipients[h.place + 1],
                                              !.pc = IF h.todo = <<>> THEN "add"
                                                     ELSE "goods"]]
     ELSE Finish(r)
  /\ UNCHANGED <<outside, orders, calls, changes>>

\* The loop goes on with the next item.
Advance(h) == [h EXCEPT !.todo = Tail(h.todo),
                        !.pc = IF Len(h.todo) = 1 THEN "add" ELSE "goods"]

\* A merchant that is not in the cache is loaded. One that is not found is not
\* entered into the cache, and its item is left out.
LoadMerchant(r) ==
  LET h == req[r]
      m == MerchantOf[Head(h.todo)]
  IN
  /\ h.pc = "goods" /\ m \notin h.known
  /\ req' = [req EXCEPT ![r] =
       IF state[m] = "unknown" THEN Advance(h)
       ELSE [h EXCEPT !.known = @ \cup {m},
                      !.closed = IF state[m] = "normal" THEN @ ELSE @ \cup {m}]]
  /\ UNCHANGED <<outside, orders, calls, changes>>

\* Mutant of Skip: the loop is left instead of continued.
Skip_Breaks(r) ==
  LET h == req[r] IN
  /\ h.pc = "goods" /\ MerchantOf[Head(h.todo)] \in h.closed
  /\ req' = [req EXCEPT ![r] = [h EXCEPT !.todo = <<>>, !.pc = "add"]]
  /\ UNCHANGED <<outside, orders, calls, changes>>

\* An item of a merchant that is not normal in the cache is left out.
Skip(r) ==
  LET h == req[r] IN
  /\ h.pc = "goods" /\ MerchantOf[Head(h.todo)] \in h.closed
  /\ req' = [req EXCEPT ![r] = Advance(h)]
  /\ UNCHANGED <<outside, orders, calls, changes>>

\* Mutant of Bought: the sums are assigned and not added up.
Bought_LastOnly(h, m, i, c) ==
  [h EXCEPT !.seller = m, !.snap = c,
            !.goods = Append(@, [item |-> i, version |-> c, price |-> Offer[c][i].price]),
            !.price = Offer[c][i].price, !.fee = Offer[c][i].fee]

\* new_order with one more good
Bought(h, m, i, c) ==
  [h EXCEPT !.seller = m, !.snap = c,
            !.goods = Append(@, [item |-> i, version |-> c, price |-> Offer[c][i].price]),
            !.price = @ + Offer[c][i].price, !.fee = @ + Offer[c][i].fee]

\* The good is read from HEAD. A good that is not there, a selection that is
\* not valid and a second seller end the call with an error.
GetProduct(r) ==
  LET h == req[r]
      i == Head(h.todo)
      m == MerchantOf[i]
      c == head[m]
  IN
  /\ h.pc = "goods" /\ m \in h.known \ h.closed
  /\ IF Offer[c][i] = None \/ h.seller \notin {None, m} THEN Finish(r)
     ELSE req' = [req EXCEPT ![r] = Advance(Bought(h, m, i, c))]
  /\ UNCHANGED <<outside, orders, calls, changes>>

\* The order is inserted. History: what the call knows goes with it.
AddOrder(r) ==
  /\ req[r].pc = "add" /\ orders' = Append(orders, req[r]) /\ Finish(r)
  /\ UNCHANGED <<outside, calls, changes>>

\* The database or git fails: the call ends with an error.
Throws(r) ==
  /\ req[r].pc # "idle" /\ Finish(r)
  /\ UNCHANGED <<outside, orders, calls, changes>>

Init ==
  /\ head \in [Merchants -> Commits]
  /\ state \in [Merchants -> {"normal", "disabled", "unknown"}]
  /\ recipients = SetToSeq(Addresses) /\ shown = recipients
  /\ orders = <<>> /\ req = [r \in Reqs |-> Idle] /\ calls = 0 /\ changes = 0

Next ==
  \/ \E r \in Reqs :
       \/ \E l \in Lists, i \in 1..Len(shown) : Create(r, l, i)
       \/ LoadUser(r) \/ LoadMerchant(r) \/ Skip(r) \/ GetProduct(r)
       \/ AddOrder(r) \/ Throws(r)
  \/ \E m \in Merchants :
       \/ \E c \in Commits : Push(m, c)
       \/ \E s \in {"normal", "disabled"} : SetState(m, s)
  \/ \E i \in 1..Len(recipients) : EraseAddress(i)
  \/ ShowAddresses

Spec == Init /\ [][Next]_vars

-----------------------------------------------------------------------------
(* Properties *)

Stored == {orders[i] : i \in 1..Len(orders)}

Sum(goods) ==
  LET sum[n \in 0..Len(goods)] == IF n = 0 THEN 0 ELSE sum[n - 1] + goods[n].price
  IN  sum[Len(goods)]

\* Type correctness
TypeOK ==
  /\ head \in [Merchants -> Commits]
  /\ state \in [Merchants -> {"normal", "disabled", "unknown"}]
  /\ recipients \in Seq(Addresses) /\ shown \in Seq(Addresses)
  /\ req \in [Reqs -> Handler] /\ orders \in Seq(Handler)
  /\ \A r \in Reqs : /\ req[r].pc = "goods" <=> req[r].todo # <<>> /\ req[r].to # None
                     /\ req[r].closed \subseteq req[r].known
  /\ calls \in Nat /\ changes \in Nat

\* All goods of an order are of its seller, to whom all of the money goes, and
\* an order without a seller has no goods and costs nothing.
OneSeller ==
  \A o \in Stored :
    /\ \A i \in 1..Len(o.goods) : MerchantOf[o.goods[i].item] = o.seller
    /\ o.seller = None => o.price = 0 /\ o.fee = 0

\* Every price in an order is the price that the good had in some HEAD since
\* the call, and the order costs the sum of them, also when merchants push
\* between one good and the next.
PricesWereOffered ==
  \A o \in Stored :
    /\ o.price = Sum(o.goods)
    /\ \A i \in 1..Len(o.goods) :
         LET g == o.goods[i]
         IN  g.version \in o.heads /\ g.price = Offer[g.version][g.item].price

\* The goods of order o are the first n items of its call in their order,
\* place[j] being where good j was in it, without some of merchants that were
\* disabled or unknown at some time since the call.
InOrder(o, n) ==
  \E place \in [1..Len(o.goods) -> 1..n] :
    /\ \A j \in 1..Len(o.goods) : o.goods[j].item = o.list[place[j]]
    /\ \A j, k \in 1..Len(o.goods) : j < k => place[j] < place[k]
    /\ \A i \in 1..n : \/ \E j \in 1..Len(o.goods) : place[j] = i
                       \/ MerchantOf[o.list[i]] \in o.away

\* The goods are the ones of the call in their order, each as often as it was
\* named, and one is missing only if its merchant was away.
MissingWereAway == \A o \in Stored : InOrder(o, Len(o.list))

\* The order goes to the address the buyer chose, unless an address was erased
\* between showing the list and the call's load of it.
SentWhereChosen == \A o \in Stored : o.moved \/ o.to = o.chosen

\* All of it: the order is the one that was called for.
OrderIsAsCalled == MissingWereAway /\ OneSeller /\ SentWhereChosen
=============================================================================
