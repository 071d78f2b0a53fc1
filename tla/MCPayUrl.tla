------------------------------ MODULE MCPayUrl ------------------------------
(* Instances of PayUrl for TLC. *)
EXTENDS PayUrl, TLC

CONSTANTS r1, r2, r3

\* One client on a ws acceptor, two behind an acceptor that is closed later.
MCReqs == {r1, r2, r3}
MCGroup == (r1 :> 1) @@ (r2 :> 2) @@ (r3 :> 2)
=============================================================================
