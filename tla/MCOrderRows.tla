----------------------------- MODULE MCOrderRows -----------------------------
(***************************************************************************)
(* Two questions about the rows of orders, each with the operations and    *)
(* the number of handlers it needs: what is charged, while the seller      *)
(* reprices an order and the buyer asks WeChat for prepay ids and pays;    *)
(* and what becomes of waybills, while handlers append them, reprice and   *)
(* delete, writes are repeated and the process dies. A behaviour is about  *)
(* the one or the other.                                                   *)
(***************************************************************************)
EXTENDS Orders, TLC

CONSTANTS Packers   \* the handlers of the second question

VARIABLE focus

Shipping == INSTANCE Orders WITH
  Reqs <- Packers, Prices <- {1}, Fees <- {0}, MaxTries <- 3, MaxCrashes <- 1,
  Ops <- {"create", "kuaidi", "alter", "delete"}

RowsInit ==
  \/ focus = "amount" /\ Init
  \/ focus = "shipping" /\ Shipping!Init

RowsNext ==
  /\ UNCHANGED focus
  /\ \/ focus = "amount" /\ Next
     \/ focus = "shipping" /\ Shipping!Next

RowsSpec == RowsInit /\ [][RowsNext]_<<focus, vars>>

\* Handlers are interchangeable.
Symmetry == Permutations(Reqs) \cup Permutations(Packers)
=============================================================================
