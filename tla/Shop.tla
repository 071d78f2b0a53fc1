--------------------------------- MODULE Shop ---------------------------------
(***************************************************************************)
(* What buyers and administrators keep and choose, side by side: the       *)
(* key-value stores (KvStore), carts and favourites (Ct), the index page   *)
(* (Pg), the goods of a new order (Oc).                                    *)
(*                                                                         *)
(* They share no table that one of them changes and another one reads: an  *)
(* order is made of what the call names, and leaves the cart to the        *)
(* client. So each of them has merchants and goods of its own here.        *)
(***************************************************************************)
EXTENDS KvStore, Sequences

CONSTANTS
  \* Cart
  Users, Conns, Owner, Merchants, Items, MerchantOf, Counts, MaxCount, MaxId,
  MaxCalls, Enabled,
  \* IndexPage
  Goods, Lists, MaxPageCalls, MaxRows,
  \* OrderCreate: merchants, their goods, and the lists that are ordered
  Sellers, Wares, SellerOf, Baskets, Commits, Offer, Addresses, MaxOrders,
  MaxChanges

VARIABLES
  \* Cart
  cartRows, cartId, merchants, cartReq, view, dirty, missed, cartCalls, raced,
  gone, wiped, failed,
  \* IndexPage
  page, pageId, offered, pageReq, pageCalls, crowded,
  \* OrderCreate
  head, state, recipients, shown, orders, orderReq, orderCalls, changes

Ct == INSTANCE Cart WITH
  rows <- cartRows, lastId <- cartId, req <- cartReq, calls <- cartCalls,
  unsure <- failed

Pg == INSTANCE IndexPage WITH
  MaxCalls <- MaxPageCalls, rows <- page, lastId <- pageId, req <- pageReq,
  calls <- pageCalls

Oc == INSTANCE OrderCreate WITH
  Merchants <- Sellers, Items <- Wares, MerchantOf <- SellerOf,
  Lists <- Baskets, MaxCalls <- MaxOrders, req <- orderReq, calls <- orderCalls

ASSUME ShopAssumption ==
  Ct!ConstantsAssumption /\ Pg!ConstantsAssumption /\ Oc!ConstantsAssumption

-----------------------------------------------------------------------------
(* Properties of the parts *)

\* Type correctness, and no count of a cart is less than one.
ShopTypeOK == TypeOK /\ Ct!TypeOK /\ Pg!TypeOK /\ Oc!TypeOK

\* What was removed from a cart or from the favourites stays removed, and an
\* item is in a table twice only if two calls that added it overlapped or an
\* insert was repeated after its commit.
RowsAsAsked == Ct!RowsAsAsked

\* When nothing is under way, every client shows the cart of its user, but for
\* rows that a list has removed, users with a write that was committed by a
\* handler that failed, and clients that a full queue kept cart_changed from.
ViewsCurrent == Ct!ViewsCurrent

\* A row belongs to one user for ever, and only a call of that user changes
\* its count.
OwnersChangeRows == Ct!OwnersChangeRows

\* Two goods share a position only if one of them was added while others came
\* or the page was set, or is there twice.
PositionsDistinct == Pg!PositionsDistinct

\* admin_set_index_goods removes everything that was on the page when it was
\* called; what stays besides its list was inserted while it was under way.
SetReplaces == Pg!SetReplaces

\* Every price in an order is one the good had in some HEAD since the call,
\* and the order costs the sum of them.
PricesWereOffered == Oc!PricesWereOffered

\* The goods are the ones of the call in their order, all of one seller, and
\* one is missing only if its merchant was disabled or unknown at some time
\* since the call. The order goes to the address the buyer chose, unless one
\* was erased between showing the list and the call's load of it.
OrderIsAsCalled == Oc!OrderIsAsCalled
=============================================================================
