------------------------------- MODULE MCUsers -------------------------------
(***************************************************************************)
(* Users on small instances: sessions of two connections that share a      *)
(* session id, sessions of an administrator in sudo mode, one of them      *)
(* from an api token, verify codes, and the rows of a merchant and of a    *)
(* user who is none. One of these moves in a behaviour, the one in focus,  *)
(* and the others stay. Two calls are in flight at most, of one connection *)
(* or of two.                                                              *)
(***************************************************************************)
EXTENDS Users, TLC

CONSTANTS t1, t2, s1, s2, u1, a1

VARIABLE focus

codes == <<now, stor, wake, sending, issued, oldest>>
accounts == <<userRows, merchants, gitea, copy, accReq, used, accCalls, again,
              unsure>>
all == <<focus, vars, codes, accounts>>

\* A server that is started for the first time
Empty == <<>>

MCOwner == [s \in {s1} |-> u1]

NoSessions == [s \in Sids |-> {}]

\* A server that has two users, the first of them an administrator, who has
\* logged in and asked for another code, and the second a merchant
Office == {[user |-> 1, tel |-> t1, cookie |-> t1, sudo |-> FALSE, orig |-> 0]}

Sudoing == INSTANCE Session WITH
  Registered <- <<t1, t2>>, Appointed <- <<1>>, Traders <- {2},
  Kept <- [NoSessions EXCEPT ![s1] = Office],
  Enabled <- {"sudo"}, MaxCalls <- MaxCalls + 2

Tokens == INSTANCE Session WITH
  Registered <- <<t1, t2>>, Appointed <- <<1>>, Traders <- {2},
  Kept <- [NoSessions EXCEPT ![s1] = Office],
  Enabled <- {"prelogin", "fast", "sudo", "merchant", "token"}, MaxCalls <- MaxCalls

ASSUME StaffedAssumption ==
  Sudoing!ConstantsAssumption /\ Tokens!ConstantsAssumption

\* All visitors of the first server have one session id.
OneSession == rows'[s2] = {} /\ \A c \in Conns : sess'[c].sid = s1

\* There one connection comes and goes; the other ones are never opened.
OneConnection ==
  \E c \in Conns : \A d \in Conns \ {c} :
    conn'[d] = "closed" /\ d \notin active' /\ sess'[d] = NewSession(s1)

\* The calls on rows of both kinds; the calls on the list of addresses
OneAddress ==
  used' \cap Addresses \subseteq {a1} /\ \A r \in Reqs : accReq'[r].op # "erase"

OnlyAddresses == \A r \in Reqs : accReq'[r].op \in {"none", "add", "erase"}

AllInit ==
  /\ focus \in {"fresh", "sudo", "tokens", "codes", "rows", "lists"}
  /\ VC!Init /\ Ac!Init
  /\ CASE focus = "sudo" -> Sudoing!Init
       [] focus = "tokens" -> Tokens!Init
       [] OTHER -> Init
  /\ \A c \in Conns : sess[c].sid = s1

AllNext ==
  /\ UNCHANGED focus
  /\ \/ focus = "fresh" /\ Next /\ OneSession /\ UNCHANGED <<codes, accounts>>
     \/ focus = "sudo" /\ Sudoing!Next /\ OneConnection
        /\ UNCHANGED <<codes, accounts>>
     \/ focus = "tokens" /\ Tokens!Next /\ OneConnection /\ shop'[1] = "none"
        /\ UNCHANGED <<codes, accounts>>
     \/ focus = "codes" /\ VC!Next /\ UNCHANGED <<vars, accounts>>
     \/ focus = "rows" /\ Ac!Next /\ OneAddress /\ UNCHANGED <<vars, codes>>
     \/ focus = "lists" /\ Ac!Next /\ OnlyAddresses /\ UNCHANGED <<vars, codes>>

AllSpec == AllInit /\ [][AllNext]_all

Symmetry == Permutations(Conns) \cup Permutations(Reqs)
=============================================================================
