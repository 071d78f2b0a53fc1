------------------------------- MODULE MCShop -------------------------------
(***************************************************************************)
(* Shop on small instances. One part moves in a behaviour, the one in      *)
(* focus, and the others stay as they were.                                *)
(*                                                                         *)
(* Carts: calls of one connection of a user without favourites, who has    *)
(* another one that shows the cart, whose queue may be full and whose list *)
(* may be loaded again; or of a connection of each of two users, whose     *)
(* queues are never full and whose lists are loaded once, with a merchant  *)
(* that may not exist.                                                     *)
(* The index page: two goods that merchants push and keep, and lists that  *)
(* are empty, new and shorter. Orders of two goods, of one seller and of   *)
(* two: in the second commit one good has another price and one is gone.   *)
(***************************************************************************)
EXTENDS Shop, TLC

CONSTANTS u1, u2, c1, c2, c3, m1, m2, i1, i2, i3, g1, g2, h1, h2

VARIABLE focus

carts == <<cartRows, cartId, merchants, cartReq, view, dirty, missed, cartCalls,
           raced, gone, wiped, failed>>
indexPage == <<page, pageId, offered, pageReq, pageCalls, crowded>>
creates == <<head, state, recipients, shown, orders, orderReq, orderCalls, changes>>
all == <<focus, vars, carts, indexPage, creates>>

MCOwner == c1 :> u1 @@ c2 :> u1 @@ c3 :> u2
MCMerchantOf == i1 :> m1
MCLists == {<<>>, <<g1, g2>>, <<g2>>}
MCSellerOf == i1 :> m1 @@ i2 :> m1 @@ i3 :> m2
MCBaskets == {<<i1, i2>>, <<i1, i3>>}

At(p, f) == [price |-> p, fee |-> f]

MCOffer == h1 :> (i1 :> At(1, 1) @@ i2 :> At(2, 0) @@ i3 :> At(4, 1))
           @@ h2 :> (i1 :> At(3, 0) @@ i2 :> At(2, 1) @@ i3 :> None)

\* The connections and the tables of calls
Callers(C) == \A r \in Reqs : cartReq'[r].op = "list" \/ cartReq'[r].c \in C

Listers(C) == \A r \in Reqs : cartReq'[r].pc = "idle" \/ cartReq'[r].c \in C

LoadedOnce(C) ==
  \A r \in Reqs : cartReq'[r].pc = "list" /\ cartReq'[r].c \in C => ~cartReq'[r].tried

NoFavourites == \A r \in Reqs : cartReq'[r].row.tab = "cart"

AllInit ==
  /\ focus \in {"store", "cart1", "cart2", "page", "create"}
  /\ Init /\ Ct!Init /\ Pg!Init /\ Oc!Init
  /\ focus # "cart2" => merchants = {m1}
  /\ focus # "create" => /\ head = [m \in {m1, m2} |-> h1]
                         /\ state = [m \in {m1, m2} |-> "normal"]

AllNext ==
  /\ UNCHANGED focus
  /\ \/ focus = "store" /\ Next /\ UNCHANGED <<carts, indexPage, creates>>
     \/ /\ Ct!Next /\ UNCHANGED <<vars, indexPage, creates>>
        /\ \/ /\ focus = "cart1" /\ Callers({c1}) /\ Listers({c1, c2}) /\ NoFavourites
              /\ LoadedOnce({c1}) /\ missed' \subseteq {c2}
           \/ focus = "cart2" /\ Listers({c2, c3}) /\ LoadedOnce(Conns) /\ missed' = {}
     \/ focus = "page" /\ Pg!Next /\ offered \subseteq offered'
        /\ UNCHANGED <<vars, carts, creates>>
     \/ focus = "create" /\ Oc!Next /\ UNCHANGED <<vars, carts, indexPage>>

AllSpec == AllInit /\ [][AllNext]_all

Symmetry == Permutations(Reqs)
=============================================================================
