----------------------------- MODULE MCServices -----------------------------
(***************************************************************************)
(* Services on small instances: two merchants with a coroutine each, or    *)
(* one whose repository is loaded once or twice by the second start; a     *)
(* client that sends up to three calls, one of them not a request; and     *)
(* three configurations of WeChat payment, two of which are for the same   *)
(* appid. The parts share no state, so one of them moves in a behaviour,   *)
(* the one in focus, and the others stay as they were, where nothing that  *)
(* is fair is enabled.                                                     *)
(***************************************************************************)
EXTENDS Services, TLC

CONSTANTS m1, q1, q2, q3, p1, p2, p3, a1, a2

VARIABLE focus

connection == <<window, sent, inbox, session, reader, handler, writing, channel,
                got, lost, noted, ended>>
wxConfig == <<rows, batches, services, req, up, starts, crowded, unsure>>
all == <<focus, vars, connection, wxConfig>>

MCAppOf == p1 :> a1 @@ p2 :> a1 @@ p3 :> a2

AllInit ==
  /\ focus \in {"repos", "twice", "connection", "config"}
  /\ Init /\ Wx!Init /\ Ws!Init
  /\ focus # "connection" => window = 1 /\ session

AllNext ==
  /\ UNCHANGED focus
  /\ \/ /\ Next /\ UNCHANGED <<connection, wxConfig>>
        /\ \/ focus = "repos" /\ \A m \in Merchants : bg'[m][2].pc = "none"
           \/ focus = "twice" /\ known' \subseteq {m1}
     \/ focus = "connection" /\ Ws!Next /\ UNCHANGED <<vars, wxConfig>>
     \/ focus = "config" /\ Wx!Next /\ UNCHANGED <<vars, connection>>

AllSpec == AllInit /\ [][AllNext]_all /\ Fairness /\ Ws!Fairness
=============================================================================
