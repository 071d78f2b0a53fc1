--------------------------- MODULE Session_proofs ---------------------------
(***************************************************************************)
(* Sessions, for every value of the constants and any number of calls of   *)
(* one connection in flight: the ids that sessions, rows and handlers keep *)
(* are ids of rows that exist; active_users holds sessions that are logged *)
(* in, a session in sudo mode knows the administrator to go back to, and a *)
(* code is accepted for the number it was sent to, but for the races that  *)
(* the histories record. And the map of the codes implements what it       *)
(* promises.                                                               *)
(*                                                                         *)
(* The three properties are proved from an invariant each. A step of a     *)
(* handler is summed up first by what it does to its connection, to the    *)
(* session and to what is saved; the invariants are proved from that.      *)
(***************************************************************************)
EXTENDS Users, TLAPS

\* The ids of a session, of a saved session and of a handler are those of rows,
\* of n users and a administrators.
SessionIds(x, n, a) ==
  /\ x.user \in 0..n /\ x.merchant \in 0..n
  /\ x.admin \in 0..a /\ x.orig \in 0..a

SavedIds(w, n, a) == w.user \in 0..n /\ w.orig \in 0..a

Loading == {"info", "infoMerchant", "infoAdmin"}

HandlerIds(h, n, a) ==
  /\ IF h.pc = "idle" THEN h.c = NoConn ELSE h.c \in Conns
  /\ h.uid \in 0..n /\ \A w \in h.out : SavedIds(w, n, a)
  /\ h.pc \in Loading \cup {"token", "tokenMerchant", "tokenAdmin", "merchant",
                            "admin", "sudo", "cancel"} => h.uid # 0
  /\ h.pc = "infoOrig" => h.uid \in 1..a

\* The kind of a handler that is at a place
HandlerKind(h) ==
  /\ h.pc \in {"banned", "send"} => h.op = "prelogin"
  /\ h.pc = "verify" => h.op = "login"
  /\ h.pc = "fast" => h.op = "fast"
  /\ h.pc \in {"find", "add", "merchant", "admin"} => h.op \in {"login", "fast"}
  /\ h.pc = "sudo" => h.op = "sudo"
  /\ h.pc = "cancel" => h.op = "cancel"
  /\ h.pc \in {"token", "tokenMerchant", "tokenAdmin"} => h.op = "token"

\* The tables, and what there is only once
DbOK ==
  /\ users \in Seq(Tels \cup {NoTel}) /\ Len(users) <= MaxUsers
  /\ admins \in Seq(1..Len(users)) /\ Len(admins) <= 1
  /\ shop \in [Uids -> MerchantStates]
  /\ once \in BOOLEAN /\ candidate \in 0..Len(users)

HistoriesOK ==
  /\ active \subseteq Conns /\ late \subseteq Conns /\ overtaken \subseteq Conns
  /\ unsent \subseteq Sids /\ crossed \subseteq Sids /\ mixed \subseteq Sids

\* The inductive invariant of type correctness
TypeInv ==
  /\ DbOK /\ HistoriesOK
  /\ rows \in [Sids -> SUBSET Saved]
  /\ \A s \in Sids : \A w \in rows[s] : SavedIds(w, Len(users), Len(admins))
  /\ conn \in [Conns -> {"closed", "opening", "open"}]
  /\ sess \in [Conns -> Session]
  /\ \A c \in Conns : SessionIds(sess[c], Len(users), Len(admins))
  /\ req \in [Reqs -> Request]
  /\ \A r \in Reqs : HandlerIds(req[r], Len(users), Len(admins)) /\ HandlerKind(req[r])

-----------------------------------------------------------------------------
(* The inductive invariants of the properties *)

\* Two handlers work on one connection.
Beside(q, r) == q # r /\ req[q].c = req[r].c /\ req[r].c \in Conns

\* Of ActiveIsLoggedIn: a handler that enters its connection into active_users
\* without setting user_info finds it set, or was overtaken; and the recovery
\* of a connection that has no session yet is alone with it.
ActiveInv ==
  /\ ActiveIsLoggedIn
  /\ \A r \in Reqs : req[r].c \in Conns =>
       /\ Enters(req[r]) => My(r).user # 0 \/ req[r].c \in overtaken
       /\ conn[req[r].c] = "closed" => req[r].c \in late
       /\ conn[req[r].c] = "opening" /\ req[r].pc = "token" => req[r].c \notin active
  /\ \A q, r \in Reqs : Beside(q, r) => conn[req[r].c] # "opening"

\* What SudoHasOrigin asks of a session or a row, and what of a session in
\* memory besides
SavedSudo(w, s) == w.sudo /\ s \notin mixed => w.orig # 0

PowersOK(x) ==
  x.sid \notin mixed => (x.sudo => x.orig # 0) /\ (x.isAdmin => x.admin # 0)

\* Of SudoHasOrigin: admin_sudo finds admin_info, and admin_sudo_cancel
\* original_user, for another one that takes it is recorded.
SudoInv ==
  /\ \A c \in Conns : PowersOK(sess[c])
  /\ \A s \in Sids : \A w \in rows[s] : SavedSudo(w, s)
  /\ \A r \in Reqs : \A w \in req[r].out : SavedSudo(w, req[r].sid)
  /\ \A r \in Reqs : req[r].c \in Conns /\ ~req[r].lost /\ My(r).sid \notin mixed =>
       /\ req[r].pc = "sudo" => My(r).admin # 0
       /\ req[r].pc = "cancel" => My(r).orig # 0
       /\ \A q \in Reqs : Beside(q, r) /\ ~req[q].lost =>
            req[r].pc \notin {"sudo", "cancel"} \/ req[q].pc # req[r].pc

\* The code of a session or a row was sent to its number.
Matches(x) == x.cookie \in {NoTel, x.tel}

SavedCode(w, s) == Matches(w) \/ Excused(s)

\* Calls that change the number, and calls that must not meet them
Numbering == {"prelogin", "fast"}
Changing == Numbering \cup {"login", "sudo", "cancel"}

Clash(g, h) ==
  /\ g.pc # "save" /\ h.pc # "save" /\ ~(g.lost /\ h.lost)
  /\ \/ g.op \in Numbering /\ h.op \in Changing
     \/ h.op \in Numbering /\ g.op \in Changing

\* A handler has changed verify_telephone, and has not come to the cookie.
Midway(h) ==
  /\ ~h.lost
  /\ \/ h.pc = "send"
     \/ h.op = "fast" /\ h.pc \in {"find", "add", "merchant", "admin"}

\* What a handler relies on in the session x
NumberOK(h, x) ==
  ~h.lost /\ ~Excused(x.sid) =>
    /\ h.pc = "send" => x.tel = h.tel
    /\ h.pc = "verify" => h.code = x.tel
    /\ h.op = "login" /\ h.pc \in {"find", "add", "merchant", "admin"} =>
         h.code = h.tel
    /\ h.op = "login" /\ h.pc = "find" => h.tel = x.tel

\* Of CodeBelongsToNumber: calls that would come between the number and the
\* code of another one are recorded.
CodeInv ==
  /\ \A c \in Conns : \/ Matches(sess[c]) \/ Excused(sess[c].sid)
                      \/ \E r \in Reqs : req[r].c = c /\ Midway(req[r])
  /\ \A s \in Sids : \A w \in rows[s] : SavedCode(w, s)
  /\ \A r \in Reqs : \A w \in req[r].out : SavedCode(w, req[r].sid)
  /\ \A r \in Reqs : req[r].c \in Conns => NumberOK(req[r], My(r))
  /\ \A q, r \in Reqs : Beside(q, r) /\ My(r).sid \notin crossed =>
       ~Clash(req[q], req[r])


-----------------------------------------------------------------------------
(* What a step of a handler does: g and h are the handler before and after  *)
(* it, y and x the session of its connection.                               *)

\* The handler ends, or goes on for the same call.
Goes(g, h) ==
  \/ h.pc = "idle"
  \/ g.pc # "save" /\ h.c = g.c /\ h.op = g.op /\ h.code = g.code /\ h.lost = g.lost

UserPart(g, h, y, x) ==
  /\ y.user # 0 => x.user # 0
  /\ Enters(h) => Enters(g) \/ x.user # 0

PowerPart(g, h, y, x) ==
  /\ x.sid = y.sid /\ h.pc \notin {"sudo", "cancel"}
  /\ \/ /\ x.sudo = y.sudo /\ (x.orig = y.orig \/ x.orig # 0)
        /\ (x.admin = y.admin /\ x.isAdmin = y.isAdmin) \/ x.admin # 0
     \/ g.pc = "sudo" /\ ~g.lost /\ x.sudo /\ x.orig = y.admin /\ ~x.isAdmin
     \/ g.pc = "cancel" /\ ~g.lost /\ ~x.sudo /\ x.admin = y.orig

\* send_verify_code has returned.
Sent(g, y, x) == g.pc = "send" /\ ~g.lost /\ x.tel = y.tel /\ x.cookie = g.tel

CodePart(g, h, y, x, failed) ==
  /\ x.tel = y.tel \/ (~g.lost /\ g.op \in Numbering /\ g.pc # "save" /\ Midway(h))
  /\ x.cookie \in {y.cookie, NoTel} \/ Sent(g, y, x)
  /\ Midway(g) => Midway(h) \/ x.cookie = NoTel \/ Sent(g, y, x) \/ failed
  /\ h.pc # "verify"
  /\ ~g.lost =>
       /\ h.pc = "send" => x.tel = h.tel
       /\ h.pc = "find" => x.tel = h.tel /\ (g.op = "login" => g.pc = "verify" /\ x.tel = y.tel)
       /\ h.pc = "add" => g.pc = "find" /\ h.tel = x.tel /\ x.tel = y.tel
       /\ h.pc \in {"merchant", "admin"} => g.pc \in {"find", "merchant"} /\ h.tel = g.tel

\* w is what Serialize makes of x.
Image(w, x) ==
  w.sudo = x.sudo /\ w.orig = x.orig /\ w.tel = x.tel /\ w.cookie = x.cookie

OutPart(g, h, x, stored) ==
  \A w \in h.out :
    \/ h.sid = g.sid /\ (w \in g.out \/ w \in stored)
    \/ h.sid = x.sid /\ Image(w, x) /\ h.pc = "save" /\ g.op \in Changing /\ g.pc # "save"

\* The connection d of the handler
ConnPart(g, h, d) ==
  /\ active' \subseteq active \cup {d}
  /\ d \in active' => d \in active \/ Enters(g)
  /\ \A c \in Conns \ {d} : conn'[c] = conn[c]
  /\ \/ conn'[d] = conn[d]
     \/ conn[d] = "opening" /\ conn'[d] = "open" /\ h.pc = "idle"
     \/ /\ conn[d] = "opening" /\ conn'[d] = "closed" /\ h.pc = "idle"
        /\ d \notin active' \/ (g.pc = "token" /\ active' = active)
  /\ h.pc # "token"

\* Only the session of d and the handler r change.
Only(r, d) ==
  /\ \A c \in Conns \ {d} : sess'[c] = sess[c]
  /\ \A q \in Reqs \ {r} : req'[q] = req[q]

StepFacts(r) ==
  /\ req[r].c \in Conns /\ Only(r, req[r].c) /\ Goes(req[r], req'[r])
  /\ UserPart(req[r], req'[r], My(r), sess'[req[r].c])
  /\ PowerPart(req[r], req'[r], My(r), sess'[req[r].c])
  /\ CodePart(req[r], req'[r], My(r), sess'[req[r].c], My(r).sid \in unsent')
  /\ OutPart(req[r], req'[r], sess'[req[r].c], rows[req[r].sid])
  /\ \A s \in Sids : \A w \in rows'[s] : w \in rows[s] \/ (s = req[r].sid /\ w \in req[r].out)
  /\ ConnPart(req[r], req'[r], req[r].c)
  /\ UNCHANGED <<crossed, mixed, overtaken, late>> /\ unsent \subseteq unsent'

-----------------------------------------------------------------------------
(* Types *)

\* A new session, a new handler and a row have no ids.
LEMMA NewSessionType ==
  ASSUME NEW s \in Sids, MaxUsers \in Nat, DbOK
  PROVE  NewSession(s) \in Session /\ SessionIds(NewSession(s), Len(users), Len(admins))
  BY DEF NewSession, Session, SessionIds, Uids, DbOK

LEMMA NewHandlerType ==
  ASSUME NEW pc \in Pcs, NEW op \in Ops, NEW c \in Conns \cup {NoConn}, ConstantsAssumption
  PROVE  /\ Start(pc, op, c) \in Request
         /\ Start(pc, op, c).pc = pc /\ Start(pc, op, c).op = op /\ Start(pc, op, c).c = c
         /\ Start(pc, op, c).tel = NoTel /\ Start(pc, op, c).code = NoTel
         /\ Start(pc, op, c).uid = 0 /\ Start(pc, op, c).lost = FALSE
         /\ Start(pc, op, c).out = {}
<1>1. (CHOOSE s \in Sids : TRUE) \in Sids
  BY DEF ConstantsAssumption
<1>2. 0 \in Uids
  BY DEF ConstantsAssumption, Uids
<1> QED
  BY <1>1, <1>2 DEF Start, Request

LEMMA IdleType ==
  ASSUME ConstantsAssumption
  PROVE  /\ Idle \in Request /\ Idle.pc = "idle" /\ Idle.op = "none" /\ Idle.c = NoConn
         /\ Idle.uid = 0 /\ Idle.lost = FALSE /\ Idle.out = {} /\ HandlerKind(Idle)
         /\ ~Enters(Idle) /\ ~Midway(Idle)
         /\ \A n, a \in Nat : HandlerIds(Idle, n, a)
<1>1. "idle" \in Pcs /\ "none" \in Ops /\ NoConn \in Conns \cup {NoConn}
  BY DEF Pcs, Ops
<1>2. /\ Idle \in Request /\ Idle.pc = "idle" /\ Idle.op = "none" /\ Idle.c = NoConn
      /\ Idle.uid = 0 /\ Idle.lost = FALSE /\ Idle.out = {}
  <2>1. (CHOOSE s \in Sids : TRUE) \in Sids /\ 0 \in Uids
    BY DEF ConstantsAssumption, Uids
  <2> QED
    BY <1>1, <2>1 DEF Idle, Start, Request
<1> QED
  BY <1>2 DEF HandlerKind, HandlerIds, Loading, Enters, Midway

LEMMA SerializeType ==
  ASSUME NEW x \in Session, NEW n, NEW a, SessionIds(x, n, a)
  PROVE  Serialize(x) \in Saved /\ SavedIds(Serialize(x), n, a) /\ Image(Serialize(x), x)
  BY DEF Serialize, Session, Saved, SessionIds, SavedIds, Image

\* x is a session that was loaded from the row w.
Loaded(x, w, s) ==
  /\ x.user = w.user /\ x.tel = w.tel /\ x.cookie = w.cookie /\ x.sid = s
  /\ x.sudo = w.sudo /\ (w.sudo => x.orig = w.orig) /\ x.isAdmin = FALSE

LEMMA DeserializeType ==
  ASSUME NEW s \in Sids, NEW w \in Saved, SavedIds(w, Len(users), Len(admins)),
         MaxUsers \in Nat, DbOK, NEW x, x = Deserialize(s, w)
  PROVE  x \in Session /\ SessionIds(x, Len(users), Len(admins)) /\ Loaded(x, w, s)
<1> DEFINE o == IF w.sudo THEN w.orig ELSE 0
<1>1. /\ 0 \in Uids /\ o \in Uids /\ o \in 0..Len(admins) /\ Len(users) \in Nat
      /\ Len(admins) \in Nat /\ (w.sudo => o = w.orig)
  BY DEF Uids, Saved, SavedIds, DbOK
<1>2. x = [user |-> w.user, merchant |-> 0, admin |-> 0, isAdmin |-> FALSE, tel |-> w.tel,
           cookie |-> w.cookie, sudo |-> w.sudo, orig |-> o, sid |-> s]
  BY DEF Deserialize, NewSession
<1> HIDE DEF o
<1> QED
  BY <1>1, <1>2 DEF Saved, Session, SavedIds, SessionIds, Loaded

\* A handler at a place has a connection, and so a session.
LEMMA AtWork ==
  ASSUME TypeInv, NEW r \in Reqs, req[r].pc # "idle"
  PROVE  /\ req[r] \in Request /\ req[r].c \in Conns
         /\ My(r) \in Session /\ SessionIds(My(r), Len(users), Len(admins))
         /\ HandlerIds(req[r], Len(users), Len(admins)) /\ HandlerKind(req[r])
  BY DEF TypeInv, HandlerIds, My

\* The ids of rows that exist are in the bounds of the tables.
LEMMA IdsInBounds ==
  ASSUME DbOK, MaxUsers \in Nat
  PROVE  /\ 0..Len(users) \subseteq Uids /\ 0..Len(admins) \subseteq 0..Len(users)
         /\ Len(users) \in Nat /\ Len(admins) \in Nat
  BY DEF DbOK, Uids

\* Ids stay ids when a table grows.
LEMMA IdsStay ==
  ASSUME NEW n \in Nat, NEW a \in Nat, NEW n2 \in Nat, NEW a2 \in Nat, n <= n2, a <= a2
  PROVE  /\ \A x : SessionIds(x, n, a) => SessionIds(x, n2, a2)
         /\ \A w : SavedIds(w, n, a) => SavedIds(w, n2, a2)
         /\ \A h : HandlerIds(h, n, a) => HandlerIds(h, n2, a2)
<1>1. 0..n \subseteq 0..n2 /\ 0..a \subseteq 0..a2 /\ 1..a \subseteq 1..a2
  OBVIOUS
<1>2. \A w : SavedIds(w, n, a) => SavedIds(w, n2, a2)
  BY <1>1 DEF SavedIds
<1>3. \A x : SessionIds(x, n, a) => SessionIds(x, n2, a2)
  BY <1>1 DEF SessionIds
<1>4. ASSUME NEW h, HandlerIds(h, n, a) PROVE HandlerIds(h, n2, a2)
  BY <1>1, <1>2, <1>4 DEF HandlerIds
<1> QED
  BY <1>2, <1>3, <1>4

\* A step that changes one session and one handler, and lets the tables grow.
LEMMA TouchType ==
  ASSUME TypeInv, MaxUsers \in Nat, NEW d \in Conns, NEW x \in Session,
         SessionIds(x, Len(users'), Len(admins')),
         NEW r \in Reqs, NEW h \in Request, HandlerIds(h, Len(users'), Len(admins')),
         HandlerKind(h),
         sess' = [sess EXCEPT ![d] = x], req' = [req EXCEPT ![r] = h],
         DbOK', Len(users) <= Len(users'), Len(admins) <= Len(admins'),
         conn' \in [Conns -> {"closed", "opening", "open"}],
         rows' \in [Sids -> SUBSET Saved],
         \A s \in Sids : \A w \in rows'[s] : SavedIds(w, Len(users'), Len(admins')),
         HistoriesOK'
  PROVE  TypeInv'
<1>1. /\ Len(users) \in Nat /\ Len(admins) \in Nat /\ Len(users') \in Nat /\ Len(admins') \in Nat
  BY DEF TypeInv, DbOK
<1>2. /\ sess' \in [Conns -> Session]
      /\ \A c \in Conns : sess'[c] = IF c = d THEN x ELSE sess[c]
  BY DEF TypeInv
<1>3. \A c \in Conns : SessionIds(sess'[c], Len(users'), Len(admins'))
  BY <1>1, <1>2, IdsStay DEF TypeInv
<1>4. /\ req' \in [Reqs -> Request]
      /\ \A q \in Reqs : req'[q] = IF q = r THEN h ELSE req[q]
  BY DEF TypeInv
<1>5. \A q \in Reqs : HandlerIds(req'[q], Len(users'), Len(admins')) /\ HandlerKind(req'[q])
  BY <1>1, <1>4, IdsStay DEF TypeInv
<1> QED
  BY <1>2, <1>3, <1>4, <1>5 DEF TypeInv, SessionIds, SavedIds, HandlerIds, HandlerKind, Loading

\* A step of a handler is summed up.
LEMMA Sum ==
  ASSUME TypeInv, MaxUsers \in Nat, NEW r \in Reqs, req[r].pc # "idle",
         NEW x \in Session, SessionIds(x, Len(users'), Len(admins')),
         NEW h \in Request, HandlerIds(h, Len(users'), Len(admins')), HandlerKind(h),
         sess' = [sess EXCEPT ![req[r].c] = x], req' = [req EXCEPT ![r] = h],
         DbOK', Len(users) <= Len(users'), Len(admins) <= Len(admins'),
         conn' \in [Conns -> {"closed", "opening", "open"}],
         rows' = rows \/ rows' = [rows EXCEPT ![req[r].sid] = req[r].out],
         unsent' \in {unsent, unsent \cup {My(r).sid}},
         UNCHANGED <<crossed, mixed, overtaken, late>>,
         Goes(req[r], h), UserPart(req[r], h, My(r), x), PowerPart(req[r], h, My(r), x),
         CodePart(req[r], h, My(r), x, My(r).sid \in unsent'),
         OutPart(req[r], h, x, rows[req[r].sid]), ConnPart(req[r], h, req[r].c)
  PROVE  TypeInv' /\ StepFacts(r)
<1>0. /\ req[r].c \in Conns /\ req[r] \in Request /\ My(r) \in Session
      /\ req[r].sid \in Sids /\ req[r].out \in SUBSET Saved /\ My(r).sid \in Sids
  BY AtWork DEF Request, Session
<1>1. /\ rows' \in [Sids -> SUBSET Saved]
      /\ \A s \in Sids : \A w \in rows'[s] : w \in rows[s] \/ (s = req[r].sid /\ w \in req[r].out)
  BY <1>0 DEF TypeInv
<1>2. /\ Len(users) \in Nat /\ Len(admins) \in Nat /\ Len(users') \in Nat /\ Len(admins') \in Nat
  BY DEF TypeInv, DbOK
<1>3. \A s \in Sids : \A w \in rows'[s] : SavedIds(w, Len(users'), Len(admins'))
  BY <1>1, <1>2, IdsStay DEF TypeInv, HandlerIds
<1>4. HistoriesOK'
  BY <1>0 DEF TypeInv, HistoriesOK, ConnPart
<1>5. TypeInv'
  BY <1>0, <1>1, <1>3, <1>4, TouchType
<1>6. sess'[req[r].c] = x /\ req'[r] = h /\ Only(r, req[r].c)
  BY <1>0 DEF TypeInv, Only
<1> QED
  BY <1>0, <1>1, <1>5, <1>6 DEF StepFacts

-----------------------------------------------------------------------------
(* The steps of handlers *)

\* The handler goes on, and what is saved stays.
LEMMA SumGoto ==
  ASSUME TypeInv, MaxUsers \in Nat, NEW r \in Reqs, req[r].pc \notin {"idle", "save"},
         NEW x \in Session, SessionIds(x, Len(users), Len(admins)),
         NEW h \in Request, HandlerIds(h, Len(users), Len(admins)), HandlerKind(h),
         sess' = [sess EXCEPT ![req[r].c] = x], req' = [req EXCEPT ![r] = h],
         UNCHANGED <<users, shop, admins, once, candidate, rows, conn, active, late, unsent,
                     crossed, mixed, overtaken>>,
         h.c = req[r].c, h.op = req[r].op, h.code = req[r].code, h.lost = req[r].lost,
         h.sid = req[r].sid, h.out = req[r].out, h.pc \notin {"sudo", "cancel", "token"},
         UserPart(req[r], h, My(r), x), PowerPart(req[r], h, My(r), x),
         CodePart(req[r], h, My(r), x, FALSE)
  PROVE  TypeInv' /\ StepFacts(r)
<1>1. DbOK' /\ Len(users) <= Len(users') /\ Len(admins) <= Len(admins')
  BY DEF TypeInv, DbOK
<1>2. CodePart(req[r], h, My(r), x, My(r).sid \in unsent')
  BY DEF CodePart
<1>3. Goes(req[r], h) /\ OutPart(req[r], h, x, rows[req[r].sid]) /\ ConnPart(req[r], h, req[r].c)
  BY DEF Goes, OutPart, ConnPart
<1>4. SessionIds(x, Len(users'), Len(admins')) /\ HandlerIds(h, Len(users'), Len(admins'))
  OBVIOUS
<1>5. conn' \in [Conns -> {"closed", "opening", "open"}] /\ rows' = rows /\ unsent' = unsent
  BY DEF TypeInv
<1> QED
  BY <1>1, <1>2, <1>3, <1>4, <1>5, Sum

\* A save is queued.
LEMMA SumQueue ==
  ASSUME TypeInv, MaxUsers \in Nat, NEW r \in Reqs, req[r].pc \notin {"idle", "save"},
         NEW x \in Session, SessionIds(x, Len(users'), Len(admins')), QueueSave(r, x),
         req[r].op \in Changing,
         DbOK', Len(users) <= Len(users'), Len(admins) <= Len(admins'),
         UNCHANGED <<rows, conn, active, late, unsent, crossed, mixed, overtaken>>,
         My(r).user # 0 => x.user # 0,
         req[r].op \in {"login", "fast"} => Enters(req[r]) \/ x.user # 0,
         \A h : h.pc = "save" => PowerPart(req[r], h, My(r), x),
         x.tel = My(r).tel,
         x.cookie \in {My(r).cookie, NoTel} \/ Sent(req[r], My(r), x),
         Midway(req[r]) => x.cookie = NoTel \/ Sent(req[r], My(r), x)
  PROVE  TypeInv' /\ StepFacts(r)
<1> DEFINE g == req[r]
           h == [g EXCEPT !.pc = "save", !.out = {Serialize(x)}, !.sid = x.sid]
<1>1. /\ g \in Request /\ g.c \in Conns /\ Serialize(x) \in Saved /\ x.sid \in Sids
      /\ SavedIds(Serialize(x), Len(users'), Len(admins')) /\ Image(Serialize(x), x)
      /\ HandlerIds(g, Len(users), Len(admins))
  BY AtWork, SerializeType DEF Session
<1>2. /\ h \in Request /\ h.c = g.c /\ h.op = g.op /\ h.code = g.code /\ h.lost = g.lost
      /\ h.sid = x.sid /\ h.out = {Serialize(x)} /\ h.pc = "save" /\ h.uid = g.uid
  BY <1>1 DEF Request, Pcs
<1>3. req' = [req EXCEPT ![r] = h] /\ sess' = [sess EXCEPT ![g.c] = x]
  BY DEF QueueSave, TypeInv
<1> HIDE DEF h
<1>4. HandlerIds(h, Len(users'), Len(admins')) /\ HandlerKind(h)
  <2>1. Len(users) \in Nat /\ Len(users') \in Nat /\ g.uid \in 0..Len(users)
    BY <1>1 DEF TypeInv, DbOK, HandlerIds
  <2>2. g.uid \in 0..Len(users')
    BY <2>1
  <2> QED
    BY <1>1, <1>2, <2>2 DEF HandlerIds, HandlerKind, Loading
<1>5. UserPart(g, h, My(r), x) /\ PowerPart(g, h, My(r), x)
  BY <1>2 DEF UserPart, Enters
<1>6. CodePart(g, h, My(r), x, My(r).sid \in unsent')
  BY <1>2 DEF CodePart
<1>7. Goes(g, h) /\ OutPart(g, h, x, rows[g.sid]) /\ ConnPart(g, h, g.c)
  BY <1>1, <1>2 DEF Goes, OutPart, ConnPart
<1>8. conn' \in [Conns -> {"closed", "opening", "open"}] /\ rows' = rows /\ unsent' = unsent
  BY DEF TypeInv
<1> QED
  BY <1>2, <1>3, <1>4, <1>5, <1>6, <1>7, <1>8, Sum

\* The handler ends.
LEMMA SumEnd ==
  ASSUME ConstantsAssumption, TypeInv, NEW r \in Reqs, req[r].pc # "idle", Finish(r),
         NEW x \in Session, SessionIds(x, Len(users), Len(admins)),
         sess' = [sess EXCEPT ![req[r].c] = x],
         UNCHANGED <<users, shop, admins, once, candidate, late, crossed, mixed, overtaken>>,
         conn' \in [Conns -> {"closed", "opening", "open"}],
         rows' = rows \/ rows' = [rows EXCEPT ![req[r].sid] = req[r].out],
         unsent' \in {unsent, unsent \cup {My(r).sid}},
         My(r).user # 0 => x.user # 0, x.tel = My(r).tel, x.cookie = My(r).cookie,
         \A h : h.pc = "idle" => PowerPart(req[r], h, My(r), x),
         Midway(req[r]) => My(r).sid \in unsent',
         \A h : h.pc = "idle" => ConnPart(req[r], h, req[r].c)
  PROVE  TypeInv' /\ StepFacts(r)
<1>1. DbOK' /\ Len(users) <= Len(users') /\ Len(admins) <= Len(admins') /\ MaxUsers \in Nat
      /\ Len(users) \in Nat /\ Len(admins) \in Nat
  BY DEF TypeInv, DbOK, ConstantsAssumption
<1>2. /\ Idle \in Request /\ HandlerIds(Idle, Len(users'), Len(admins')) /\ HandlerKind(Idle)
      /\ Idle.pc = "idle" /\ Idle.out = {} /\ ~Enters(Idle) /\ ~Midway(Idle)
  BY <1>1, IdleType
<1>3. /\ Goes(req[r], Idle) /\ OutPart(req[r], Idle, x, rows[req[r].sid])
      /\ ConnPart(req[r], Idle, req[r].c) /\ PowerPart(req[r], Idle, My(r), x)
      /\ UserPart(req[r], Idle, My(r), x)
  BY <1>2 DEF Goes, OutPart, UserPart
<1>4. CodePart(req[r], Idle, My(r), x, My(r).sid \in unsent')
  BY <1>2 DEF CodePart
<1>5. req' = [req EXCEPT ![r] = Idle] /\ SessionIds(x, Len(users'), Len(admins'))
  BY DEF Finish
<1> QED
  BY <1>1, <1>2, <1>3, <1>4, <1>5, Sum

\* What async_load<administrators> makes of a session
LEMMA AdminType ==
  ASSUME DbOK, MaxUsers \in Nat, NEW x \in Session, SessionIds(x, Len(users), Len(admins)),
         NEW u \in 1..Len(users), NEW z, z = AsAdmin(x, u)
  PROVE  /\ z \in Session /\ SessionIds(z, Len(users), Len(admins))
         /\ z.user = x.user /\ z.tel = x.tel /\ z.cookie = x.cookie /\ z.sid = x.sid
         /\ z.sudo = x.sudo /\ z.orig = x.orig
         /\ (z.admin = x.admin /\ z.isAdmin = x.isAdmin) \/ z.admin # 0
<1>1. /\ Len(users) \in Nat /\ Len(admins) \in Nat /\ u \in Uids /\ u # 0
  BY DEF DbOK, Uids
<1>2. CASE u <= Len(admins)
  <2>1. z = [x EXCEPT !.admin = u, !.isAdmin = TRUE] /\ u \in 0..Len(admins)
    BY <1>1, <1>2 DEF AsAdmin
  <2> QED
    BY <1>1, <2>1 DEF Session, SessionIds
<1>3. CASE ~(u <= Len(admins))
  BY <1>3 DEF AsAdmin
<1> QED
  BY <1>2, <1>3

\* update_lifetime
LEMMA LifeSteps ==
  ASSUME ConstantsAssumption, TypeInv, NEW r \in Reqs, LifeRead(r) \/ LifeWrite(r)
  PROVE  TypeInv' /\ StepFacts(r)
<1> DEFINE g == req[r]
           y == My(r)
<1>0. g.pc \in {"life", "lifeWrite"} /\ MaxUsers \in Nat
  BY DEF LifeRead, LifeWrite, ConstantsAssumption
<1>1. /\ g \in Request /\ g.c \in Conns /\ y \in Session /\ y = sess[g.c]
      /\ SessionIds(y, Len(users), Len(admins)) /\ HandlerIds(g, Len(users), Len(admins))
      /\ g.sid \in Sids /\ g.pc # "idle"
  BY <1>0, AtWork DEF Request, My
<1>2. /\ UNCHANGED <<users, shop, admins, once, candidate, active, late, unsent,
                     crossed, mixed, overtaken>>
      /\ sess' = [sess EXCEPT ![g.c] = y]
  BY <1>1 DEF LifeRead, LifeWrite, db, boot, races, TypeInv
<1>3. DbOK' /\ Len(users) <= Len(users') /\ Len(admins) <= Len(admins')
  BY <1>2 DEF TypeInv, DbOK
<1>4. ~Midway(g) /\ \A h : h.pc \notin {"sudo", "cancel"} => PowerPart(g, h, y, y)
  BY <1>0 DEF Midway, PowerPart
<1>5. CASE LifeRead(r)
  <2> DEFINE h == [g EXCEPT !.pc = "lifeWrite", !.out = rows[g.sid]]
  <2>1. rows[g.sid] \subseteq Saved
        /\ \A w \in rows[g.sid] : SavedIds(w, Len(users'), Len(admins'))
    BY <1>1, <1>2 DEF TypeInv
  <2>2. /\ h \in Request /\ h.c = g.c /\ h.op = g.op /\ h.code = g.code /\ h.lost = g.lost
        /\ h.sid = g.sid /\ h.out = rows[g.sid] /\ h.pc = "lifeWrite" /\ h.uid = g.uid
    BY <1>1, <2>1 DEF Request, Pcs
  <2>3. req' = [req EXCEPT ![r] = h]
    BY <1>5 DEF LifeRead, TypeInv
  <2> HIDE DEF h
  <2>4. HandlerIds(h, Len(users'), Len(admins')) /\ HandlerKind(h)
    BY <1>1, <1>2, <2>1, <2>2 DEF HandlerIds, HandlerKind, Loading
  <2>5. UserPart(g, h, y, y) /\ PowerPart(g, h, y, y) /\ Goes(g, h)
    BY <1>0, <1>4, <2>2 DEF UserPart, Enters, Goes
  <2>6. CodePart(g, h, y, y, y.sid \in unsent')
    BY <1>4, <2>2 DEF CodePart
  <2>7. OutPart(g, h, y, rows[g.sid])
    BY <2>2 DEF OutPart
  <2>8. ConnPart(g, h, g.c) /\ conn' \in [Conns -> {"closed", "opening", "open"}]
    BY <1>2, <1>5, <2>2 DEF ConnPart, LifeRead, TypeInv
  <2>9. rows' = rows
    BY <1>5 DEF LifeRead
  <2> QED
    BY <1>0, <1>1, <1>2, <1>3, <2>2, <2>3, <2>4, <2>5, <2>6, <2>7, <2>8, <2>9, Sum
<1>6. CASE LifeWrite(r)
  <2>0. rows' = [rows EXCEPT ![g.sid] = g.out] /\ g.pc = "lifeWrite"
    BY <1>6 DEF LifeWrite
  <2>1. CASE g.op = "recover" /\ y.user # 0
    <3> DEFINE h == [g EXCEPT !.pc = "info", !.uid = y.user]
    <3>1. /\ h \in Request /\ h.c = g.c /\ h.op = g.op /\ h.code = g.code /\ h.lost = g.lost
          /\ h.sid = g.sid /\ h.out = g.out /\ h.pc = "info" /\ h.uid = y.user
      BY <1>1 DEF Request, Session, Pcs
    <3>2. req' = [req EXCEPT ![r] = h] /\ UNCHANGED conn
      BY <1>6, <2>1 DEF LifeWrite, TypeInv
    <3> HIDE DEF h
    <3>3. HandlerIds(h, Len(users'), Len(admins')) /\ HandlerKind(h)
      BY <1>1, <1>2, <2>1, <3>1 DEF HandlerIds, HandlerKind, Loading, SessionIds
    <3>4. UserPart(g, h, y, y) /\ PowerPart(g, h, y, y) /\ Goes(g, h)
      BY <1>4, <2>0, <2>1, <3>1 DEF UserPart, Goes
    <3>5. CodePart(g, h, y, y, y.sid \in unsent')
      BY <1>4, <3>1 DEF CodePart
    <3>6. OutPart(g, h, y, rows[g.sid])
      BY <3>1 DEF OutPart
    <3>7. ConnPart(g, h, g.c) /\ conn' \in [Conns -> {"closed", "opening", "open"}]
      BY <1>2, <3>1, <3>2 DEF ConnPart, TypeInv
    <3> QED
      BY <1>0, <1>1, <1>2, <1>3, <2>0, <3>1, <3>2, <3>3, <3>4, <3>5, <3>6, <3>7, Sum
  <2>2. CASE ~(g.op = "recover" /\ y.user # 0)
    <3>1. Finish(r) /\ conn' = [conn EXCEPT ![g.c] = IF @ = "opening" THEN "open" ELSE @]
      BY <1>6, <2>2 DEF LifeWrite, Done
    <3>2. conn' \in [Conns -> {"closed", "opening", "open"}]
      BY <1>1, <3>1 DEF TypeInv
    <3>3. \A h : h.pc = "idle" => ConnPart(g, h, g.c) /\ PowerPart(g, h, y, y)
      BY <1>1, <1>2, <1>4, <3>1 DEF ConnPart, TypeInv
    <3> QED
      BY <1>1, <1>2, <1>4, <2>0, <3>1, <3>2, <3>3, SumEnd
  <2> QED
    BY <2>1, <2>2
<1> QED
  BY <1>5, <1>6

LEMMA UidType ==
  ASSUME DbOK, NEW x \in Session, SessionIds(x, Len(users), Len(admins)), NEW u \in UidOf(x)
  PROVE  u \in 1..Len(users)
  BY DEF DbOK, UidOf, SessionIds

\* The handler ends, and an opening connection is open.
LEMMA DoneConn ==
  ASSUME TypeInv, NEW r \in Reqs, req[r].c \in Conns, req[r].pc # "token",
         conn' = [conn EXCEPT ![req[r].c] = IF @ = "opening" THEN "open" ELSE @],
         active' = active \/ (active' = active \cup {req[r].c} /\ Enters(req[r]))
  PROVE  /\ conn' \in [Conns -> {"closed", "opening", "open"}]
         /\ \A h : h.pc = "idle" => ConnPart(req[r], h, req[r].c)
<1>1. conn' \in [Conns -> {"closed", "opening", "open"}]
  BY DEF TypeInv
<1>2. /\ \A c \in Conns \ {req[r].c} : conn'[c] = conn[c]
      /\ conn'[req[r].c] = conn[req[r].c]
         \/ (conn[req[r].c] = "opening" /\ conn'[req[r].c] = "open")
  BY DEF TypeInv
<1> QED
  BY <1>1, <1>2 DEF ConnPart

\* load_user_info: the user, then the merchant
LEMMA InfoSteps ==
  ASSUME ConstantsAssumption, TypeInv, NEW r \in Reqs, LoadUser(r) \/ LoadMerchantInfo(r)
  PROVE  TypeInv' /\ StepFacts(r)
<1> DEFINE g == req[r]
           y == My(r)
<1>0. g.pc \in {"info", "infoMerchant"} /\ MaxUsers \in Nat
  BY DEF LoadUser, LoadMerchantInfo, ConstantsAssumption
<1>1. /\ g \in Request /\ g.c \in Conns /\ y \in Session /\ y = sess[g.c]
      /\ SessionIds(y, Len(users), Len(admins)) /\ HandlerIds(g, Len(users), Len(admins))
      /\ g.pc # "idle" /\ g.uid # 0 /\ DbOK
  BY <1>0, AtWork DEF My, HandlerIds, Loading, TypeInv
<1>2. UNCHANGED <<users, shop, admins, once, candidate, rows, conn, active, late, unsent,
                  crossed, mixed, overtaken>>
  BY DEF LoadUser, LoadMerchantInfo, db, boot, races
<1>3. ~Midway(g) /\ Enters(g)
  BY <1>0 DEF Midway, Enters
<1>a. 0..Len(users) \subseteq Uids /\ 1..Len(users) \subseteq 0..Len(users)
      /\ g.uid \in 0..Len(users) /\ 0 \notin 1..Len(users)
  BY <1>0, <1>1, IdsInBounds DEF HandlerIds
<1>4. ASSUME NEW x \in Session, SessionIds(x, Len(users), Len(admins)), NEW u \in 1..Len(users),
             NEW pc \in {"infoMerchant", "infoAdmin"},
             sess' = [sess EXCEPT ![g.c] = x], req' = [req EXCEPT ![r].pc = pc, ![r].uid = u],
             y.user # 0 => x.user # 0, x.tel = y.tel, x.cookie = y.cookie, x.sid = y.sid,
             x.sudo = y.sudo, x.orig = y.orig, x.admin = y.admin, x.isAdmin = y.isAdmin
      PROVE  TypeInv' /\ StepFacts(r)
  <2> DEFINE h == [g EXCEPT !.pc = pc, !.uid = u]
  <2>1. u \in Uids /\ u # 0 /\ pc \in Pcs /\ u \in 0..Len(users)
    BY <1>a DEF Pcs
  <2>2. /\ h \in Request /\ h.c = g.c /\ h.op = g.op /\ h.code = g.code /\ h.lost = g.lost
        /\ h.sid = g.sid /\ h.out = g.out /\ h.pc = pc /\ h.uid = u
    BY <1>1, <2>1 DEF Request
  <2>3. req' = [req EXCEPT ![r] = h]
    BY <1>4 DEF TypeInv
  <2> HIDE DEF h
  <2>4. HandlerIds(h, Len(users), Len(admins)) /\ HandlerKind(h)
    BY <1>1, <2>1, <2>2 DEF HandlerIds, HandlerKind, Loading
  <2>5. UserPart(g, h, y, x) /\ PowerPart(g, h, y, x)
    BY <1>3, <1>4, <2>2 DEF UserPart, PowerPart
  <2>6. CodePart(g, h, y, x, FALSE)
    BY <1>3, <1>4, <2>2 DEF CodePart
  <2>7. h.pc \notin {"sudo", "cancel", "token"}
    BY <2>2
  <2> QED
    BY <1>0, <1>1, <1>2, <1>4, <2>2, <2>3, <2>4, <2>5, <2>6, <2>7, SumGoto
<1>5. CASE LoadUser(r)
  <2> DEFINE x == IF y.user # 0 THEN Assigned(r, [y EXCEPT !.user = g.uid]) ELSE y
  <2>1. g.uid \in 0..Len(users) /\ g.uid \in Uids
    BY <1>a
  <2>2. /\ x \in Session /\ SessionIds(x, Len(users), Len(admins))
        /\ y.user # 0 => x.user # 0
        /\ x.tel = y.tel /\ x.cookie = y.cookie /\ x.sid = y.sid
        /\ x.sudo = y.sudo /\ x.orig = y.orig /\ x.admin = y.admin /\ x.isAdmin = y.isAdmin
    BY <1>1, <2>1 DEF Session, SessionIds, Assigned
  <2>3. sess' = [sess EXCEPT ![g.c] = x]
        /\ \E u \in UidOf(x) : req' = [req EXCEPT ![r].pc = "infoMerchant", ![r].uid = u]
    BY <1>5 DEF LoadUser
  <2> HIDE DEF x
  <2>4. PICK u \in UidOf(x) : req' = [req EXCEPT ![r].pc = "infoMerchant", ![r].uid = u]
    BY <2>3
  <2>5. u \in 1..Len(users)
    BY <1>1, <2>2, UidType
  <2>6. "infoMerchant" \in {"infoMerchant", "infoAdmin"}
    OBVIOUS
  <2> QED
    BY <1>4, <2>2, <2>3, <2>4, <2>5, <2>6
<1>6. CASE LoadMerchantInfo(r)
  <2> DEFINE m == IF shop[g.uid] # "none" THEN g.uid ELSE y.merchant
             x == [y EXCEPT !.merchant = m]
  <2>1. m \in 0..Len(users) /\ m \in Uids
    BY <1>1, <1>a DEF SessionIds
  <2>2. sess' = [sess EXCEPT ![g.c] = x]
    BY <1>1, <1>6 DEF LoadMerchantInfo, TypeInv
  <2> HIDE DEF m
  <2>3. /\ x \in Session /\ SessionIds(x, Len(users), Len(admins)) /\ x.user = y.user
        /\ x.tel = y.tel /\ x.cookie = y.cookie /\ x.sid = y.sid
        /\ x.sudo = y.sudo /\ x.orig = y.orig /\ x.admin = y.admin /\ x.isAdmin = y.isAdmin
    BY <1>1, <2>1 DEF Session, SessionIds
  <2> HIDE DEF x
  <2>4. PICK u \in UidOf(y) : req' = [req EXCEPT ![r].pc = "infoAdmin", ![r].uid = u]
    BY <1>6 DEF LoadMerchantInfo
  <2>5. u \in 1..Len(users)
    BY <1>1, UidType
  <2>6. "infoAdmin" \in {"infoMerchant", "infoAdmin"}
    OBVIOUS
  <2> QED
    BY <1>4, <2>2, <2>3, <2>4, <2>5, <2>6
<1> QED
  BY <1>5, <1>6

\* load_user_info: the administrator and original_user, and the entry in active_users
LEMMA EnterSteps ==
  ASSUME ConstantsAssumption, TypeInv, NEW r \in Reqs, LoadAdminInfo(r) \/ LoadOriginal(r)
  PROVE  TypeInv' /\ StepFacts(r)
<1> DEFINE g == req[r]
           y == My(r)
<1>0. g.pc \in {"infoAdmin", "infoOrig"} /\ MaxUsers \in Nat
  BY DEF LoadAdminInfo, LoadOriginal, ConstantsAssumption
<1>1. /\ g \in Request /\ g.c \in Conns /\ y \in Session /\ y = sess[g.c]
      /\ SessionIds(y, Len(users), Len(admins)) /\ HandlerIds(g, Len(users), Len(admins))
      /\ g.pc # "idle" /\ DbOK
  BY <1>0, AtWork DEF My, TypeInv
<1>2. UNCHANGED <<users, shop, admins, once, candidate, rows, late, unsent,
                  crossed, mixed, overtaken>>
  BY DEF LoadAdminInfo, LoadOriginal, db, boot, races
<1>3. ~Midway(g) /\ Enters(g)
  BY <1>0 DEF Midway, Enters
<1>4. DbOK' /\ Len(users) <= Len(users') /\ Len(admins) <= Len(admins')
  BY <1>1, <1>2 DEF DbOK
<1>a. 0..Len(admins) \subseteq Uids /\ Len(admins) \in Nat /\ Len(users) \in Nat
      /\ 1..Len(admins) \subseteq 0..Len(users)
  BY <1>0, <1>1, IdsInBounds DEF DbOK
<1>5. ASSUME NEW x \in Session, SessionIds(x, Len(users), Len(admins)),
             sess' = [sess EXCEPT ![g.c] = x],
             x.user = y.user, x.tel = y.tel, x.cookie = y.cookie, x.sid = y.sid,
             x.sudo = y.sudo, x.orig = y.orig \/ x.orig # 0,
             (x.admin = y.admin /\ x.isAdmin = y.isAdmin) \/ x.admin # 0,
             EnterActive(r)
      PROVE  TypeInv' /\ StepFacts(r)
  <2>0. active' = active \cup {g.c}
    BY <1>5 DEF EnterActive
  <2>a. \A h : h.pc \notin {"sudo", "cancel"} => PowerPart(g, h, y, x)
    BY <1>5 DEF PowerPart
  <2>1. CASE g.op = "cookie"
    <3> DEFINE h == [g EXCEPT !.pc = "life"]
    <3>1. /\ h \in Request /\ h.c = g.c /\ h.op = g.op /\ h.code = g.code /\ h.lost = g.lost
          /\ h.sid = g.sid /\ h.out = g.out /\ h.pc = "life" /\ h.uid = g.uid
      BY <1>1 DEF Request, Pcs
    <3>2. req' = [req EXCEPT ![r] = h] /\ UNCHANGED conn
      BY <1>5, <2>1 DEF EnterActive, Goto, TypeInv
    <3> HIDE DEF h
    <3>3. HandlerIds(h, Len(users'), Len(admins')) /\ HandlerKind(h)
      BY <1>1, <1>2, <3>1 DEF HandlerIds, HandlerKind, Loading
    <3>4. UserPart(g, h, y, x) /\ PowerPart(g, h, y, x) /\ Goes(g, h)
      BY <1>0, <1>3, <1>5, <2>a, <3>1 DEF UserPart, Goes
    <3>5. CodePart(g, h, y, x, y.sid \in unsent')
      BY <1>3, <1>5, <3>1 DEF CodePart
    <3>6. OutPart(g, h, x, rows[g.sid])
      BY <3>1 DEF OutPart
    <3>7. ConnPart(g, h, g.c) /\ conn' \in [Conns -> {"closed", "opening", "open"}]
      BY <1>3, <2>0, <3>1, <3>2 DEF ConnPart, TypeInv
    <3>8. rows' = rows /\ unsent' = unsent /\ SessionIds(x, Len(users'), Len(admins'))
      BY <1>2, <1>5
    <3> QED
      BY <1>0, <1>1, <1>2, <1>4, <1>5, <3>1, <3>2, <3>3, <3>4, <3>5, <3>6, <3>7, <3>8, Sum
  <2>2. CASE g.op # "cookie"
    <3>1. Finish(r) /\ conn' = [conn EXCEPT ![g.c] = IF @ = "opening" THEN "open" ELSE @]
      BY <1>5, <2>2 DEF EnterActive, Done
    <3>2. /\ conn' \in [Conns -> {"closed", "opening", "open"}]
          /\ \A h : h.pc = "idle" => ConnPart(g, h, g.c)
      BY <1>0, <1>1, <1>3, <2>0, <3>1, DoneConn
    <3> QED
      BY <1>1, <1>2, <1>3, <1>5, <2>a, <3>1, <3>2, SumEnd
  <2> QED
    BY <2>1, <2>2
<1>6. CASE LoadAdminInfo(r)
  <2> DEFINE x == AsAdmin(y, g.uid)
  <2>1. g.uid \in 1..Len(users) /\ g.pc = "infoAdmin"
    BY <1>1, <1>6, <1>a DEF LoadAdminInfo, HandlerIds, Loading
  <2>2. /\ x \in Session /\ SessionIds(x, Len(users), Len(admins))
        /\ x.user = y.user /\ x.tel = y.tel /\ x.cookie = y.cookie /\ x.sid = y.sid
        /\ x.sudo = y.sudo /\ x.orig = y.orig
        /\ (x.admin = y.admin /\ x.isAdmin = y.isAdmin) \/ x.admin # 0
    BY <1>0, <1>1, <2>1, AdminType
  <2>3. sess' = [sess EXCEPT ![g.c] = x]
    BY <1>1, <1>6 DEF LoadAdminInfo, TypeInv
  <2> HIDE DEF x
  <2>4. CASE y.sudo
    <3>1. PICK o \in 1..Len(admins) : req' = [req EXCEPT ![r].pc = "infoOrig", ![r].uid = o]
      BY <1>6, <2>4 DEF LoadAdminInfo
    <3> DEFINE h == [g EXCEPT !.pc = "infoOrig", !.uid = o]
    <3>2. o \in Uids /\ o \in 0..Len(users) /\ UNCHANGED <<conn, active>>
      BY <1>6, <1>a, <2>4 DEF LoadAdminInfo
    <3>3. /\ h \in Request /\ h.c = g.c /\ h.op = g.op /\ h.code = g.code /\ h.lost = g.lost
          /\ h.sid = g.sid /\ h.out = g.out /\ h.pc = "infoOrig" /\ h.uid = o
      BY <1>1, <3>2 DEF Request, Pcs
    <3>4. req' = [req EXCEPT ![r] = h]
      BY <3>1 DEF TypeInv
    <3> HIDE DEF h
    <3>5. HandlerIds(h, Len(users), Len(admins)) /\ HandlerKind(h)
      BY <1>1, <3>2, <3>3 DEF HandlerIds, HandlerKind, Loading
    <3>6. UserPart(g, h, y, x) /\ PowerPart(g, h, y, x)
      BY <1>3, <2>2, <3>3 DEF UserPart, PowerPart
    <3>7. CodePart(g, h, y, x, FALSE)
      BY <1>3, <2>2, <3>3 DEF CodePart
    <3>8. h.pc \notin {"sudo", "cancel", "token"}
      BY <3>3
    <3> QED
      BY <1>0, <1>1, <1>2, <2>2, <2>3, <3>2, <3>3, <3>4, <3>5, <3>6, <3>7, <3>8, SumGoto
  <2>5. CASE ~y.sudo
    BY <1>5, <1>6, <2>2, <2>3, <2>5 DEF LoadAdminInfo
  <2> QED
    BY <2>4, <2>5
<1>7. CASE LoadOriginal(r)
  <2> DEFINE x == [y EXCEPT !.orig = g.uid]
  <2>1. g.uid \in 1..Len(admins) /\ g.uid \in 0..Len(admins) /\ g.uid \in Uids /\ g.uid # 0
    BY <1>1, <1>7, <1>a DEF LoadOriginal, HandlerIds
  <2>2. /\ x \in Session /\ SessionIds(x, Len(users), Len(admins))
        /\ x.user = y.user /\ x.tel = y.tel /\ x.cookie = y.cookie /\ x.sid = y.sid
        /\ x.sudo = y.sudo /\ x.orig # 0 /\ x.admin = y.admin /\ x.isAdmin = y.isAdmin
    BY <1>1, <2>1 DEF Session, SessionIds
  <2>3. sess' = [sess EXCEPT ![g.c] = x] /\ EnterActive(r)
    BY <1>1, <1>7 DEF LoadOriginal, TypeInv
  <2> HIDE DEF x
  <2> QED
    BY <1>5, <2>2, <2>3
<1> QED
  BY <1>6, <1>7

\* The api token: what is loaded after the user
LEMMA TokenSteps ==
  ASSUME ConstantsAssumption, TypeInv, NEW r \in Reqs, TokenMerchant(r) \/ TokenAdmin(r)
  PROVE  TypeInv' /\ StepFacts(r)
<1> DEFINE g == req[r]
           y == My(r)
<1>0. g.pc \in {"tokenMerchant", "tokenAdmin"} /\ MaxUsers \in Nat
  BY DEF TokenMerchant, TokenAdmin, ConstantsAssumption
<1>1. /\ g \in Request /\ g.c \in Conns /\ y \in Session /\ y = sess[g.c]
      /\ SessionIds(y, Len(users), Len(admins)) /\ HandlerIds(g, Len(users), Len(admins))
      /\ HandlerKind(g) /\ g.pc # "idle" /\ DbOK
  BY <1>0, AtWork DEF My, TypeInv
<1>2. UNCHANGED <<users, shop, admins, once, candidate, rows, active, late, unsent,
                  crossed, mixed, overtaken>>
  BY DEF TokenMerchant, TokenAdmin, db, boot, races
<1>a. g.uid \in 1..Len(users) /\ g.uid \in Uids /\ 0..Len(users) \subseteq Uids
  BY <1>0, <1>1, IdsInBounds DEF HandlerIds
<1>3. ~Midway(g)
  BY <1>0 DEF Midway
<1>4. CASE TokenMerchant(r)
  <2> DEFINE m == IF shop[g.uid] # "none" THEN g.uid ELSE y.merchant
             x == [y EXCEPT !.merchant = m]
             h == [g EXCEPT !.pc = "tokenAdmin"]
  <2>1. m \in 0..Len(users) /\ m \in Uids
    BY <1>1, <1>a DEF SessionIds, DbOK
  <2>2. sess' = [sess EXCEPT ![g.c] = x] /\ req' = [req EXCEPT ![r] = h]
    BY <1>1, <1>4 DEF TokenMerchant, Goto, TypeInv
  <2> HIDE DEF m
  <2>3. /\ x \in Session /\ SessionIds(x, Len(users), Len(admins)) /\ x.user = y.user
        /\ x.tel = y.tel /\ x.cookie = y.cookie /\ x.sid = y.sid
        /\ x.sudo = y.sudo /\ x.orig = y.orig /\ x.admin = y.admin /\ x.isAdmin = y.isAdmin
    BY <1>1, <2>1 DEF Session, SessionIds
  <2>4. /\ h \in Request /\ h.c = g.c /\ h.op = g.op /\ h.code = g.code /\ h.lost = g.lost
        /\ h.sid = g.sid /\ h.out = g.out /\ h.pc = "tokenAdmin" /\ h.uid = g.uid
    BY <1>1 DEF Request, Pcs
  <2> HIDE DEF x, h
  <2>5. HandlerIds(h, Len(users), Len(admins)) /\ HandlerKind(h)
    BY <1>0, <1>1, <2>4 DEF HandlerIds, HandlerKind, Loading
  <2>6. UserPart(g, h, y, x) /\ PowerPart(g, h, y, x)
    BY <1>0, <2>3, <2>4 DEF UserPart, PowerPart, Enters
  <2>7. CodePart(g, h, y, x, FALSE)
    BY <1>3, <2>3, <2>4 DEF CodePart
  <2>8. h.pc \notin {"sudo", "cancel", "token"} /\ UNCHANGED conn
    BY <1>4, <2>4 DEF TokenMerchant
  <2> QED
    BY <1>0, <1>1, <1>2, <2>2, <2>3, <2>4, <2>5, <2>6, <2>7, <2>8, SumGoto
<1>5. CASE TokenAdmin(r)
  <2> DEFINE x == AsAdmin(y, g.uid)
  <2>1. /\ x \in Session /\ SessionIds(x, Len(users), Len(admins))
        /\ x.user = y.user /\ x.tel = y.tel /\ x.cookie = y.cookie /\ x.sid = y.sid
        /\ x.sudo = y.sudo /\ x.orig = y.orig
        /\ (x.admin = y.admin /\ x.isAdmin = y.isAdmin) \/ x.admin # 0
    BY <1>0, <1>1, <1>a, AdminType
  <2>2. sess' = [sess EXCEPT ![g.c] = x]
    BY <1>1, <1>5 DEF TokenAdmin, TypeInv
  <2> HIDE DEF x
  <2>3. \A h : h.pc = "idle" => PowerPart(g, h, y, x)
    BY <2>1 DEF PowerPart
  <2>4. Finish(r) /\ conn' = [conn EXCEPT ![g.c] = IF @ = "opening" THEN "open" ELSE @]
    BY <1>5 DEF TokenAdmin, Done
  <2>5. /\ conn' \in [Conns -> {"closed", "opening", "open"}]
        /\ \A h : h.pc = "idle" => ConnPart(g, h, g.c)
    BY <1>0, <1>1, <1>2, <2>4, DoneConn
  <2> QED
    BY <1>1, <1>2, <1>3, <2>1, <2>2, <2>3, <2>4, <2>5, SumEnd
<1> QED
  BY <1>4, <1>5

\* A handler that changes the number or nothing of the session, and goes on with
\* a number, or that ends
LEMMA NumberSteps ==
  ASSUME ConstantsAssumption, TypeInv, NEW r \in Reqs,
         CheckBanned(r) \/ VerifyCode(r) \/ FastLogin(r)
  PROVE  TypeInv' /\ StepFacts(r)
<1> DEFINE g == req[r]
           y == My(r)
<1>0. g.pc \in {"banned", "verify", "fast"} /\ MaxUsers \in Nat
  BY DEF CheckBanned, VerifyCode, FastLogin, ConstantsAssumption
<1>1. /\ g \in Request /\ g.c \in Conns /\ y \in Session /\ y = sess[g.c]
      /\ SessionIds(y, Len(users), Len(admins)) /\ HandlerIds(g, Len(users), Len(admins))
      /\ HandlerKind(g) /\ g.pc # "idle" /\ DbOK
  BY <1>0, AtWork DEF My, TypeInv
<1>2. UNCHANGED <<users, shop, admins, once, candidate, rows, conn, active, late, unsent,
                  crossed, mixed, overtaken>>
  BY DEF CheckBanned, VerifyCode, FastLogin, db, boot, races
<1>3. ~Midway(g) /\ \A h : h.pc \notin {"sudo", "cancel"} => PowerPart(g, h, y, y)
  BY <1>0 DEF Midway, PowerPart
<1>4. CASE Finish(r) /\ UNCHANGED sess
  <2>1. sess' = [sess EXCEPT ![g.c] = y] /\ rows' = rows /\ unsent' = unsent
        /\ conn' \in [Conns -> {"closed", "opening", "open"}]
    BY <1>1, <1>2, <1>4 DEF TypeInv
  <2>2. \A h : h.pc = "idle" => ConnPart(g, h, g.c) /\ PowerPart(g, h, y, y)
    BY <1>2, <1>3 DEF ConnPart
  <2> QED
    BY <1>1, <1>2, <1>3, <1>4, <2>1, <2>2, SumEnd
<1>5. ASSUME NEW t \in Tels \cup {NoTel}, NEW v \in Tels \cup {NoTel}, NEW pc \in {"send", "find"},
             sess' = [sess EXCEPT ![g.c] = [y EXCEPT !.tel = t]],
             req' = [req EXCEPT ![r].pc = pc, ![r].tel = v],
             t = y.tel \/ (~g.lost /\ g.op \in Numbering),
             ~g.lost => t = v, pc = "send" <=> g.pc = "banned", g.op = "login" => t = y.tel
      PROVE  TypeInv' /\ StepFacts(r)
  <2> DEFINE x == [y EXCEPT !.tel = t]
             h == [g EXCEPT !.pc = pc, !.tel = v]
  <2>1. /\ x \in Session /\ SessionIds(x, Len(users), Len(admins))
        /\ x.user = y.user /\ x.tel = t /\ x.cookie = y.cookie /\ x.sid = y.sid
        /\ x.sudo = y.sudo /\ x.orig = y.orig /\ x.admin = y.admin /\ x.isAdmin = y.isAdmin
    BY <1>1 DEF Session, SessionIds
  <2>2. /\ h \in Request /\ h.c = g.c /\ h.op = g.op /\ h.code = g.code /\ h.lost = g.lost
        /\ h.sid = g.sid /\ h.out = g.out /\ h.pc = pc /\ h.uid = g.uid /\ h.tel = v
    BY <1>1 DEF Request, Pcs
  <2>3. sess' = [sess EXCEPT ![g.c] = x] /\ req' = [req EXCEPT ![r] = h]
    BY <1>5 DEF TypeInv
  <2> HIDE DEF x, h
  <2>4. HandlerIds(h, Len(users), Len(admins)) /\ HandlerKind(h)
    BY <1>0, <1>1, <1>5, <2>2 DEF HandlerIds, HandlerKind, Loading
  <2>5. UserPart(g, h, y, x) /\ PowerPart(g, h, y, x)
    BY <1>0, <2>1, <2>2 DEF UserPart, PowerPart, Enters
  <2>6. CodePart(g, h, y, x, FALSE)
    <3>1. ~g.lost /\ g.op \in Numbering => Midway(h)
      BY <1>0, <1>1, <1>5, <2>2 DEF Midway, HandlerKind, Numbering
    <3>2. g.op = "login" => g.pc = "verify"
      BY <1>0, <1>1 DEF HandlerKind
    <3> QED
      BY <1>0, <1>3, <1>5, <2>1, <2>2, <3>1, <3>2 DEF CodePart
  <2>7. h.pc \notin {"sudo", "cancel", "token"}
    BY <2>2
  <2> QED
    BY <1>0, <1>1, <1>2, <2>1, <2>2, <2>3, <2>4, <2>5, <2>6, <2>7, SumGoto
<1>6. /\ g.tel \in Tels \cup {NoTel} /\ y.tel \in Tels \cup {NoTel} /\ y = [y EXCEPT !.tel = y.tel]
      /\ sess = [sess EXCEPT ![g.c] = y] /\ Tels \subseteq Tels \cup {NoTel}
  BY <1>1 DEF Request, Session, TypeInv
<1>7. CASE CheckBanned(r)
  <2> DEFINE t == IF g.lost THEN y.tel ELSE g.tel
  <2>1. CASE Goto(r, "send") /\ sess' = [sess EXCEPT ![g.c] = Assigned(r, [@ EXCEPT !.tel = g.tel])]
    <3>1. req' = [req EXCEPT ![r].pc = "send", ![r].tel = g.tel]
      BY <1>1, <2>1 DEF Goto, TypeInv, Request
    <3>2. sess' = [sess EXCEPT ![g.c] = [y EXCEPT !.tel = t]]
      BY <1>1, <1>6, <2>1 DEF Assigned, TypeInv
    <3>3. g.pc = "banned" /\ g.op = "prelogin"
      BY <1>1, <1>7 DEF CheckBanned, HandlerKind
    <3>4. t \in Tels \cup {NoTel} /\ (t = y.tel \/ ~g.lost) /\ (~g.lost => t = g.tel)
      BY <1>6
    <3>5. g.op \in Numbering /\ "send" \in {"send", "find"}
      BY <3>3 DEF Numbering
    <3> QED
      BY <1>5, <1>6, <3>1, <3>2, <3>3, <3>4, <3>5
  <2> QED
    BY <1>4, <1>7, <2>1 DEF CheckBanned
<1>8. CASE VerifyCode(r)
  <2>1. ASSUME NEW v \in Tels \cup {NoTel}, g.lost \/ v = y.tel,
               req' = [req EXCEPT ![r].pc = "find", ![r].tel = v]
        PROVE  TypeInv' /\ StepFacts(r)
    <3>1. sess' = [sess EXCEPT ![g.c] = [y EXCEPT !.tel = y.tel]] /\ g.pc = "verify"
      BY <1>6, <1>8 DEF VerifyCode
    <3>2. "find" \in {"send", "find"}
      OBVIOUS
    <3> QED
      BY <1>5, <1>6, <2>1, <3>1, <3>2
  <2> QED
    BY <1>4, <1>8, <2>1 DEF VerifyCode
<1>9. CASE FastLogin(r)
  <2>1. ASSUME NEW v \in Tels, req' = [req EXCEPT ![r].pc = "find", ![r].tel = v],
               sess' = [sess EXCEPT ![g.c] = Assigned(r, [@ EXCEPT !.tel = v])]
        PROVE  TypeInv' /\ StepFacts(r)
    <3> DEFINE t == IF g.lost THEN y.tel ELSE v
    <3>1. sess' = [sess EXCEPT ![g.c] = [y EXCEPT !.tel = t]]
      BY <1>1, <1>6, <2>1 DEF Assigned, TypeInv
    <3>2. g.pc = "fast" /\ g.op = "fast" /\ g.op \in Numbering /\ "find" \in {"send", "find"}
      BY <1>1, <1>9 DEF FastLogin, HandlerKind, Numbering
    <3>3. t \in Tels \cup {NoTel} /\ (t = y.tel \/ ~g.lost) /\ (~g.lost => t = v)
      BY <1>6
    <3> QED
      BY <1>5, <1>6, <2>1, <3>1, <3>2, <3>3
  <2> QED
    BY <1>4, <1>9, <2>1 DEF FastLogin
<1> QED
  BY <1>7, <1>8, <1>9

\* handle_user_login up to the queries for the merchant
LEMMA LoginSteps ==
  ASSUME ConstantsAssumption, TypeInv, NEW r \in Reqs, FindUser(r) \/ LoginMerchant(r)
  PROVE  TypeInv' /\ StepFacts(r)
<1> DEFINE g == req[r]
           y == My(r)
<1>0. g.pc \in {"find", "merchant"} /\ MaxUsers \in Nat
  BY DEF FindUser, LoginMerchant, ConstantsAssumption
<1>1. /\ g \in Request /\ g.c \in Conns /\ y \in Session /\ y = sess[g.c]
      /\ SessionIds(y, Len(users), Len(admins)) /\ HandlerIds(g, Len(users), Len(admins))
      /\ HandlerKind(g) /\ g.pc # "idle" /\ DbOK
  BY <1>0, AtWork DEF My, TypeInv
<1>2. UNCHANGED <<users, shop, admins, once, candidate, rows, conn, active, late, unsent,
                  crossed, mixed, overtaken>>
  BY DEF FindUser, LoginMerchant, db, boot, races
<1>3. g.op \in {"login", "fast"} /\ 0..Len(users) \subseteq Uids
      /\ g.uid \in 0..Len(users) /\ y.tel \in Tels \cup {NoTel} /\ g.tel \in Tels \cup {NoTel}
      /\ g.uid \in Uids /\ Len(users) \in Nat
  BY <1>0, <1>1, IdsInBounds DEF HandlerKind, HandlerIds, Session, Request
<1>4. ASSUME NEW x \in Session, SessionIds(x, Len(users), Len(admins)),
             NEW v \in Tels \cup {NoTel}, NEW u \in 0..Len(users),
             NEW pc \in {"add", "merchant", "admin"},
             sess' = [sess EXCEPT ![g.c] = x],
             req' = [req EXCEPT ![r] = [g EXCEPT !.pc = pc, !.tel = v, !.uid = u]],
             y.user # 0 => x.user # 0, x.tel = y.tel, x.cookie = y.cookie, x.sid = y.sid,
             x.sudo = y.sudo, x.orig = y.orig, x.admin = y.admin, x.isAdmin = y.isAdmin,
             pc = "add" => g.pc = "find" /\ v = y.tel, pc # "add" => v = g.tel /\ u # 0,
             pc = "merchant" => g.lost \/ x.user # 0, pc = "admin" => g.pc = "merchant"
      PROVE  TypeInv' /\ StepFacts(r)
  <2> DEFINE h == [g EXCEPT !.pc = pc, !.tel = v, !.uid = u]
  <2>1. u \in Uids /\ pc \in Pcs
    BY <1>3 DEF Pcs
  <2>2. /\ h \in Request /\ h.c = g.c /\ h.op = g.op /\ h.code = g.code /\ h.lost = g.lost
        /\ h.sid = g.sid /\ h.out = g.out /\ h.pc = pc /\ h.uid = u /\ h.tel = v
    BY <1>1, <2>1 DEF Request
  <2>3. req' = [req EXCEPT ![r] = h]
    BY <1>4
  <2> HIDE DEF h
  <2>4. HandlerIds(h, Len(users), Len(admins)) /\ HandlerKind(h)
    BY <1>1, <1>3, <1>4, <2>2 DEF HandlerIds, HandlerKind, Loading
  <2>5. UserPart(g, h, y, x) /\ PowerPart(g, h, y, x)
    BY <1>0, <1>3, <1>4, <2>2 DEF UserPart, PowerPart, Enters
  <2>6. CodePart(g, h, y, x, FALSE)
    <3>1. Midway(g) => Midway(h)
      BY <1>0, <2>2 DEF Midway
    <3> QED
      BY <1>0, <1>4, <2>2, <3>1 DEF CodePart
  <2>7. h.pc \notin {"sudo", "cancel", "token"}
    BY <2>2
  <2> QED
    BY <1>0, <1>1, <1>2, <1>4, <2>2, <2>3, <2>4, <2>5, <2>6, <2>7, SumGoto
<1>5. CASE FindUser(r)
  <2>0. g.pc = "find"
    BY <1>5 DEF FindUser
  <2>1. ASSUME NEW u \in 1..Len(users),
               sess' = [sess EXCEPT ![g.c] = Assigned(r, [@ EXCEPT !.user = u])],
               req' = [req EXCEPT ![r].pc = "merchant", ![r].uid = u]
        PROVE  TypeInv' /\ StepFacts(r)
    <3> DEFINE x == Assigned(r, [y EXCEPT !.user = u])
    <3>1. u \in 0..Len(users) /\ u \in Uids /\ u # 0
      BY <1>3
    <3>2. /\ x \in Session /\ SessionIds(x, Len(users), Len(admins)) /\ (g.lost \/ x.user # 0)
          /\ y.user # 0 => x.user # 0
          /\ x.tel = y.tel /\ x.cookie = y.cookie /\ x.sid = y.sid
          /\ x.sudo = y.sudo /\ x.orig = y.orig /\ x.admin = y.admin /\ x.isAdmin = y.isAdmin
      BY <1>1, <3>1 DEF Session, SessionIds, Assigned
    <3>3. sess' = [sess EXCEPT ![g.c] = x]
      BY <1>1, <2>1 DEF TypeInv
    <3>4. req' = [req EXCEPT ![r] = [g EXCEPT !.pc = "merchant", !.tel = g.tel, !.uid = u]]
      BY <1>1, <2>1 DEF TypeInv, Request
    <3>5. "merchant" \in {"add", "merchant", "admin"} /\ "merchant" # "add" /\ "merchant" # "admin"
      OBVIOUS
    <3> HIDE DEF x
    <3> QED
      BY <1>3, <1>4, <3>1, <3>2, <3>3, <3>4, <3>5
  <2>2. CASE /\ req' = [req EXCEPT ![r].pc = "add", ![r].tel = y.tel] /\ UNCHANGED sess
    <3>1. sess' = [sess EXCEPT ![g.c] = y]
      BY <1>1, <2>2 DEF TypeInv
    <3>2. req' = [req EXCEPT ![r] = [g EXCEPT !.pc = "add", !.tel = y.tel, !.uid = g.uid]]
      BY <1>1, <2>2 DEF TypeInv, Request
    <3>3. "add" \in {"add", "merchant", "admin"} /\ "merchant" # "add" /\ "add" # "admin"
      OBVIOUS
    <3> QED
      BY <1>1, <1>3, <1>4, <2>0, <3>1, <3>2, <3>3
  <2> QED
    BY <1>5, <2>1, <2>2 DEF FindUser
<1>6. CASE LoginMerchant(r)
  <2> DEFINE b == shop[g.uid] = "normal" /\ ~g.lost
             x == IF b THEN [y EXCEPT !.merchant = g.uid] ELSE y
  <2>1. g.pc = "merchant" /\ g.uid # 0
    BY <1>1, <1>6 DEF LoginMerchant, HandlerIds, Loading
  <2>2. sess' = [sess EXCEPT ![g.c] = x]
    BY <1>1, <1>6 DEF LoginMerchant, Assigned, TypeInv
  <2> HIDE DEF b
  <2>3. /\ x \in Session /\ SessionIds(x, Len(users), Len(admins)) /\ x.user = y.user
        /\ x.tel = y.tel /\ x.cookie = y.cookie /\ x.sid = y.sid
        /\ x.sudo = y.sudo /\ x.orig = y.orig /\ x.admin = y.admin /\ x.isAdmin = y.isAdmin
    BY <1>1, <1>3 DEF Session, SessionIds
  <2> HIDE DEF x
  <2>4. req' = [req EXCEPT ![r] = [g EXCEPT !.pc = "admin", !.tel = g.tel, !.uid = g.uid]]
    BY <1>1, <1>6 DEF LoginMerchant, Goto, TypeInv, Request
  <2>5. "admin" \in {"add", "merchant", "admin"} /\ "admin" # "add" /\ "admin" # "merchant"
    OBVIOUS
  <2> QED
    BY <1>3, <1>4, <2>1, <2>2, <2>3, <2>4, <2>5
<1> QED
  BY <1>5, <1>6

\* The steps that end with a save of what they have changed
LEMMA QueueSteps ==
  ASSUME ConstantsAssumption, TypeInv, NEW r \in Reqs,
         SendCode(r) \/ LoginAdmin(r) \/ Sudo(r) \/ SudoCancel(r)
  PROVE  TypeInv' /\ StepFacts(r)
<1> DEFINE g == req[r]
           y == My(r)
           u == g.uid
<1>0. g.pc \in {"send", "admin", "sudo", "cancel"} /\ MaxUsers \in Nat
  BY DEF SendCode, LoginAdmin, Sudo, SudoCancel, ConstantsAssumption
<1>1. /\ g \in Request /\ g.c \in Conns /\ y \in Session /\ y = sess[g.c]
      /\ SessionIds(y, Len(users), Len(admins)) /\ HandlerIds(g, Len(users), Len(admins))
      /\ HandlerKind(g) /\ g.pc \notin {"idle", "save"} /\ DbOK
  BY <1>0, AtWork DEF My, TypeInv
<1>2. UNCHANGED <<users, shop, admins, once, candidate, rows, conn, active, late,
                  crossed, mixed, overtaken>>
  BY DEF SendCode, LoginAdmin, Sudo, SudoCancel, db, boot, races
<1>3. DbOK' /\ Len(users) <= Len(users') /\ Len(admins) <= Len(admins')
  BY <1>1, <1>2 DEF DbOK
<1>4. /\ u \in 0..Len(users) /\ 0..Len(users) \subseteq Uids /\ 0 \in 0..Len(users)
      /\ 0 \in 0..Len(admins) /\ g.tel \in Tels \cup {NoTel} /\ g.op \in Changing
  BY <1>0, <1>1, IdsInBounds DEF HandlerIds, Request, HandlerKind, Changing, Numbering
<1>5. ASSUME NEW x \in Session, SessionIds(x, Len(users), Len(admins)), QueueSave(r, x),
             UNCHANGED unsent, y.user # 0 => x.user # 0,
             g.op \in {"login", "fast"} => Enters(g) \/ x.user # 0,
             \A h : h.pc = "save" => PowerPart(g, h, y, x), x.tel = y.tel,
             x.cookie \in {y.cookie, NoTel} \/ Sent(g, y, x),
             Midway(g) => x.cookie = NoTel \/ Sent(g, y, x)
      PROVE  TypeInv' /\ StepFacts(r)
  <2>1. SessionIds(x, Len(users'), Len(admins'))
    BY <1>2, <1>5
  <2> QED
    BY <1>0, <1>1, <1>2, <1>3, <1>4, <1>5, <2>1, SumQueue
<1>6. CASE SendCode(r)
  <2> DEFINE x == Assigned(r, [y EXCEPT !.cookie = g.tel])
  <2>0. g.pc = "send" /\ g.op = "prelogin"
    BY <1>1, <1>6 DEF SendCode, HandlerKind
  <2>1. CASE QueueSave(r, x) /\ UNCHANGED unsent
    <3>1. /\ x \in Session /\ SessionIds(x, Len(users), Len(admins)) /\ x.user = y.user
          /\ x.tel = y.tel /\ x.sid = y.sid
          /\ x.sudo = y.sudo /\ x.orig = y.orig /\ x.admin = y.admin /\ x.isAdmin = y.isAdmin
          /\ IF g.lost THEN x.cookie = y.cookie ELSE x.cookie = g.tel
      BY <1>1, <1>4 DEF Session, SessionIds, Assigned
    <3> HIDE DEF x
    <3>2. \A h : h.pc = "save" => PowerPart(g, h, y, x)
      BY <3>1 DEF PowerPart
    <3>3. /\ x.cookie \in {y.cookie, NoTel} \/ Sent(g, y, x)
          /\ Midway(g) => x.cookie = NoTel \/ Sent(g, y, x)
      BY <2>0, <3>1 DEF Sent, Midway
    <3>4. g.op \notin {"login", "fast"}
      BY <2>0
    <3> QED
      BY <1>5, <2>1, <3>1, <3>2, <3>3, <3>4
  <2>2. CASE Finish(r) /\ unsent' = unsent \cup {y.sid} /\ UNCHANGED sess
    <3>1. sess' = [sess EXCEPT ![g.c] = y] /\ rows' = rows
          /\ conn' \in [Conns -> {"closed", "opening", "open"}]
      BY <1>1, <1>2, <2>2 DEF TypeInv
    <3>2. \A h : h.pc = "idle" => ConnPart(g, h, g.c) /\ PowerPart(g, h, y, y)
      BY <1>2 DEF ConnPart, PowerPart
    <3> QED
      BY <1>1, <1>2, <2>2, <3>1, <3>2, SumEnd
  <2> QED
    BY <1>6, <2>1, <2>2 DEF SendCode
<1>7. CASE LoginAdmin(r)
  <2> DEFINE z == AsAdmin(y, u)
             x == Assigned(r, [z EXCEPT !.cookie = NoTel])
  <2>0. g.pc = "admin" /\ u \in 1..Len(users) /\ UNCHANGED unsent
    BY <1>1, <1>4, <1>7 DEF LoginAdmin, HandlerIds
  <2>1. /\ z \in Session /\ SessionIds(z, Len(users), Len(admins))
        /\ z.user = y.user /\ z.tel = y.tel /\ z.sid = y.sid
        /\ z.sudo = y.sudo /\ z.orig = y.orig
        /\ (z.admin = y.admin /\ z.isAdmin = y.isAdmin) \/ z.admin # 0
    BY <1>0, <1>1, <2>0, AdminType
  <2>2. QueueSave(r, x)
    BY <1>7 DEF LoginAdmin
  <2> HIDE DEF z
  <2>3. /\ x \in Session /\ SessionIds(x, Len(users), Len(admins)) /\ x.user = y.user
        /\ x.tel = y.tel /\ x.sid = y.sid /\ x.sudo = y.sudo /\ x.orig = y.orig
        /\ (x.admin = y.admin /\ x.isAdmin = y.isAdmin) \/ x.admin # 0
        /\ IF g.lost THEN x.cookie = y.cookie ELSE x.cookie = NoTel
    BY <1>1, <2>1 DEF Session, SessionIds, Assigned
  <2> HIDE DEF x
  <2>4. \A h : h.pc = "save" => PowerPart(g, h, y, x)
    BY <2>3 DEF PowerPart
  <2>5. /\ x.cookie \in {y.cookie, NoTel} \/ Sent(g, y, x)
        /\ Midway(g) => x.cookie = NoTel \/ Sent(g, y, x)
    BY <2>3 DEF Midway
  <2>6. g.op \in {"login", "fast"} => Enters(g)
    BY <2>0 DEF Enters
  <2> QED
    BY <1>5, <2>0, <2>2, <2>3, <2>4, <2>5, <2>6
<1>8. CASE Sudo(r)
  <2> DEFINE m == IF shop[u] # "none" THEN u ELSE 0
             z == [y EXCEPT !.orig = y.admin, !.admin = 0, !.isAdmin = FALSE,
                            !.merchant = m, !.sudo = TRUE, !.user = u]
             x == Assigned(r, z)
  <2>0. g.pc = "sudo" /\ g.op = "sudo" /\ u # 0 /\ UNCHANGED unsent /\ QueueSave(r, x)
    BY <1>1, <1>8 DEF Sudo, HandlerIds, HandlerKind
  <2>1. m \in 0..Len(users)
    BY <1>4
  <2> HIDE DEF m
  <2>2. /\ z \in Session /\ SessionIds(z, Len(users), Len(admins)) /\ z.user = u
        /\ z.tel = y.tel /\ z.cookie = y.cookie /\ z.sid = y.sid
        /\ z.sudo /\ z.orig = y.admin /\ ~z.isAdmin
    BY <1>1, <1>4, <2>1 DEF Session, SessionIds
  <2> HIDE DEF z
  <2>3. /\ x \in Session /\ SessionIds(x, Len(users), Len(admins)) /\ (y.user # 0 => x.user # 0)
        /\ x.tel = y.tel /\ x.cookie = y.cookie
    BY <1>1, <2>0, <2>2 DEF Assigned
  <2>4. \A h : h.pc = "save" => PowerPart(g, h, y, x)
    BY <2>0, <2>2 DEF PowerPart, Assigned
  <2> HIDE DEF x
  <2>5. x.cookie \in {y.cookie, NoTel} /\ ~Midway(g) /\ g.op \notin {"login", "fast"}
    BY <2>0, <2>3 DEF Midway
  <2> QED
    BY <1>5, <2>0, <2>3, <2>4, <2>5
<1>9. CASE SudoCancel(r)
  <2> DEFINE m == IF shop[u] # "none" THEN u ELSE 0
             z == [y EXCEPT !.isAdmin = TRUE, !.admin = y.orig, !.user = u, !.sudo = FALSE,
                            !.merchant = m, !.orig = 0]
             x == Assigned(r, z)
  <2>0. g.pc = "cancel" /\ g.op = "cancel" /\ u # 0 /\ UNCHANGED unsent /\ QueueSave(r, x)
    BY <1>1, <1>9 DEF SudoCancel, HandlerIds, HandlerKind
  <2>1. m \in 0..Len(users)
    BY <1>4
  <2> HIDE DEF m
  <2>2. /\ z \in Session /\ SessionIds(z, Len(users), Len(admins)) /\ z.user = u
        /\ z.tel = y.tel /\ z.cookie = y.cookie /\ z.sid = y.sid
        /\ ~z.sudo /\ z.admin = y.orig
    BY <1>1, <1>4, <2>1 DEF Session, SessionIds
  <2> HIDE DEF z
  <2>3. /\ x \in Session /\ SessionIds(x, Len(users), Len(admins)) /\ (y.user # 0 => x.user # 0)
        /\ x.tel = y.tel /\ x.cookie = y.cookie
    BY <1>1, <2>0, <2>2 DEF Assigned
  <2>4. \A h : h.pc = "save" => PowerPart(g, h, y, x)
    BY <2>0, <2>2 DEF PowerPart, Assigned
  <2> HIDE DEF x
  <2>5. x.cookie \in {y.cookie, NoTel} /\ ~Midway(g) /\ g.op \notin {"login", "fast"}
    BY <2>0, <2>3 DEF Midway
  <2> QED
    BY <1>5, <2>0, <2>3, <2>4, <2>5
<1> QED
  BY <1>6, <1>7, <1>8, <1>9

\* A user is added: ids of rows that existed are still ids of rows.
LEMMA GrowType ==
  ASSUME DbOK, NEW t \in Tels \cup {NoTel}, users' = Append(users, t), Len(users) < MaxUsers,
         MaxUsers \in Nat, UNCHANGED <<admins, shop>>, once' \in BOOLEAN,
         candidate' \in {candidate, Len(users) + 1}
  PROVE  /\ DbOK' /\ Len(users) \in Nat /\ Len(users') = Len(users) + 1
         /\ Len(admins') = Len(admins) /\ Len(users) + 1 \in Uids
<1>1. /\ Len(users) \in Nat /\ users' \in Seq(Tels \cup {NoTel})
      /\ Len(users') = Len(users) + 1 /\ Len(admins) \in Nat
  BY DEF DbOK
<1>2. admins' \in Seq(1..Len(users'))
  <2>1. 1..Len(users) \subseteq 1..Len(users')
    BY <1>1
  <2> QED
    BY <2>1 DEF DbOK
<1> QED
  BY <1>1, <1>2 DEF DbOK, Uids

\* handle_user_login with a new user. When the insert is repeated, only the
\* table grows.
LEMMA AddStep ==
  ASSUME ConstantsAssumption, TypeInv, NEW r \in Reqs, AddUser(r)
  PROVE  /\ TypeInv'
         /\ StepFacts(r) \/ UNCHANGED <<rows, conn, sess, active, req, late, unsent,
                                        crossed, mixed, overtaken>>
<1> DEFINE g == req[r]
           y == My(r)
<1>0. g.pc = "add" /\ MaxUsers \in Nat
  BY DEF AddUser, ConstantsAssumption
<1>1. /\ g \in Request /\ g.c \in Conns /\ y \in Session /\ y = sess[g.c]
      /\ SessionIds(y, Len(users), Len(admins)) /\ HandlerKind(g)
      /\ g.pc \notin {"idle", "save"} /\ DbOK /\ g.tel \in Tels \cup {NoTel}
      /\ g.op \in {"login", "fast"}
  BY <1>0, AtWork DEF My, TypeInv, Request, HandlerKind
<1>2. /\ DbOK' /\ Len(users) \in Nat /\ Len(users') = Len(users) + 1
      /\ Len(admins') = Len(admins) /\ Len(users) + 1 \in Uids
  <2>1. /\ once' \in BOOLEAN /\ candidate' \in {candidate, Len(users) + 1}
        /\ Len(users) < MaxUsers /\ users' = Append(users, g.tel) /\ UNCHANGED <<admins, shop>>
    BY <1>1 DEF AddUser, boot, DbOK
  <2> QED
    BY <1>0, <1>1, <2>1, GrowType
<1>3. /\ UNCHANGED <<rows, conn, active, late, unsent, crossed, mixed, overtaken>>
      /\ Len(admins) \in Nat /\ Len(users) <= Len(users') /\ Len(admins) <= Len(admins')
      /\ Len(users') \in Nat /\ Len(admins') \in Nat
  BY <1>1, <1>2 DEF AddUser, DbOK, races
<1>4. CASE QueueSave(r, NewUser(r))
  <2> DEFINE n == Len(users) + 1
             x == NewUser(r)
  <2>1. /\ n \in Uids /\ n # 0 /\ n \in 0..Len(users') /\ y.merchant \in 0..Len(users')
    BY <1>1, <1>2 DEF SessionIds
  <2> DEFINE z == Assigned(r, [y EXCEPT !.cookie = NoTel])
  <2>2. /\ z \in Session /\ z.merchant = y.merchant
        /\ z.admin = y.admin /\ z.orig = y.orig /\ z.tel = y.tel /\ z.sid = y.sid
        /\ z.sudo = y.sudo /\ z.isAdmin = y.isAdmin
        /\ IF g.lost THEN z.cookie = y.cookie ELSE z.cookie = NoTel
    BY <1>1 DEF Session, Assigned
  <2>3. x = [z EXCEPT !.user = n]
    BY DEF NewUser
  <2> HIDE DEF z, n, x
  <2>4. /\ x \in Session /\ x.merchant = z.merchant /\ x.user = n
        /\ x.admin = z.admin /\ x.orig = z.orig /\ x.tel = z.tel /\ x.sid = z.sid
        /\ x.sudo = z.sudo /\ x.isAdmin = z.isAdmin /\ x.cookie = z.cookie
    BY <2>1, <2>2, <2>3 DEF Session
  <2>5. SessionIds(x, Len(users'), Len(admins')) /\ x.user # 0
    BY <1>1, <1>2, <2>1, <2>2, <2>4 DEF SessionIds
  <2>6. \A h : h.pc = "save" => PowerPart(g, h, y, x)
    BY <2>2, <2>4 DEF PowerPart
  <2>7. /\ x.cookie \in {y.cookie, NoTel} /\ (Midway(g) => x.cookie = NoTel) /\ x.tel = y.tel
    BY <2>2, <2>4 DEF Midway
  <2>8. g.op \in Changing /\ QueueSave(r, x)
    BY <1>1, <1>4 DEF Changing, Numbering, x
  <2> QED
    BY <1>0, <1>1, <1>2, <1>3, <2>4, <2>5, <2>6, <2>7, <2>8, SumQueue
<1>5. CASE UNCHANGED <<sess, req>>
  <2>1. /\ \A s \in Sids : \A w \in rows'[s] : SavedIds(w, Len(users'), Len(admins'))
        /\ \A c \in Conns : SessionIds(sess'[c], Len(users'), Len(admins'))
        /\ \A q \in Reqs : HandlerIds(req'[q], Len(users'), Len(admins')) /\ HandlerKind(req'[q])
    BY <1>2, <1>3, <1>5, IdsStay DEF TypeInv
  <2>2. HistoriesOK' /\ rows' = rows /\ conn' = conn
    BY <1>3 DEF TypeInv, HistoriesOK
  <2> QED
    BY <1>2, <1>3, <1>5, <2>1, <2>2 DEF TypeInv, SessionIds, SavedIds, HandlerIds, HandlerKind, Loading
<1> QED
  BY <1>4, <1>5 DEF AddUser

\* The end of a handler
LEMMA EndSteps ==
  ASSUME ConstantsAssumption, TypeInv, NEW r \in Reqs, Save(r) \/ Throws(r)
  PROVE  TypeInv' /\ StepFacts(r)
<1> DEFINE g == req[r]
           y == My(r)
<1>0. g.pc # "idle" /\ Finish(r)
  BY DEF Save, Throws
<1>1. g.c \in Conns /\ y \in Session /\ y = sess[g.c] /\ SessionIds(y, Len(users), Len(admins))
  BY <1>0, AtWork DEF My
<1>2. /\ UNCHANGED <<users, shop, admins, once, candidate, late, crossed, mixed, overtaken>>
      /\ sess' = [sess EXCEPT ![g.c] = y]
  BY <1>1 DEF Save, Throws, db, boot, races, TypeInv
<1>3. \A h : h.pc = "idle" => PowerPart(g, h, y, y)
  BY DEF PowerPart
<1>4. CASE Save(r)
  <2>1. /\ g.pc = "save" /\ UNCHANGED <<conn, unsent>>
        /\ rows' = rows \/ rows' = [rows EXCEPT ![g.sid] = g.out]
        /\ active' = active \/ (active' = active \cup {g.c} /\ g.op \in {"login", "fast"})
    BY <1>4 DEF Save
  <2>2. \A h : h.pc = "idle" => ConnPart(g, h, g.c)
    BY <2>1 DEF ConnPart, Enters
  <2>3. ~Midway(g) /\ conn' \in [Conns -> {"closed", "opening", "open"}]
    BY <2>1 DEF Midway, TypeInv
  <2> QED
    BY <1>0, <1>1, <1>2, <1>3, <2>1, <2>2, <2>3, SumEnd
<1>5. CASE Throws(r)
  <2>1. /\ rows' = rows /\ unsent' \in {unsent, unsent \cup {y.sid}}
        /\ Midway(g) => y.sid \in unsent'
        /\ conn' \in [Conns -> {"closed", "opening", "open"}]
    BY <1>1, <1>5 DEF Throws, TypeInv, Midway
  <2>2. /\ active' = active \/ (active' = active \ {g.c})
        /\ \A c \in Conns \ {g.c} : conn'[c] = conn[c]
        /\ \/ conn'[g.c] = conn[g.c]
           \/ conn[g.c] = "opening" /\ conn'[g.c] = "open"
           \/ /\ conn[g.c] = "opening" /\ conn'[g.c] = "closed"
              /\ g.c \notin active' \/ (g.pc = "token" /\ active' = active)
    BY <1>1, <1>5 DEF Throws, TypeInv
  <2>3. \A h : h.pc = "idle" => ConnPart(g, h, g.c)
    BY <2>2 DEF ConnPart
  <2> QED
    BY <1>0, <1>1, <1>2, <1>3, <2>1, <2>3, SumEnd
<1> QED
  BY <1>4, <1>5

\* The steps of handlers that are summed up
LEMMA StepSummary ==
  ASSUME ConstantsAssumption, TypeInv, NEW r \in Reqs, Step(r),
         ~\E s \in Sids : TokenUser(r, s)
  PROVE  /\ TypeInv'
         /\ StepFacts(r) \/ UNCHANGED <<rows, conn, sess, active, req, late, unsent,
                                        crossed, mixed, overtaken>>
  BY LifeSteps, InfoSteps, EnterSteps, TokenSteps, NumberSteps, LoginSteps, QueueSteps,
     AddStep, EndSteps DEF Step

-----------------------------------------------------------------------------
(* The invariants, from what the steps of handlers do *)

\* A handler has a connection exactly when it is at work.
LEMMA Working ==
  ASSUME ConstantsAssumption, TypeInv, NEW r \in Reqs
  PROVE  req[r].c \in Conns <=> req[r].pc # "idle"
  BY DEF TypeInv, HandlerIds, ConstantsAssumption

LEMMA WorkingNext ==
  ASSUME ConstantsAssumption, TypeInv', NEW r \in Reqs
  PROVE  req'[r].c \in Conns <=> req'[r].pc # "idle"
  BY DEF TypeInv, HandlerIds, ConstantsAssumption

LEMMA ActiveStep ==
  ASSUME ConstantsAssumption, TypeInv, TypeInv', ActiveInv, NEW r \in Reqs, StepFacts(r)
  PROVE  ActiveInv'
<1> DEFINE g == req[r]
           h == req'[r]
           d == g.c
           y == My(r)
           x == sess'[d]
<1>0. /\ d \in Conns /\ Only(r, d) /\ Goes(g, h) /\ UserPart(g, h, y, x) /\ ConnPart(g, h, d)
      /\ UNCHANGED <<overtaken, late>> /\ y = sess[d]
  BY DEF StepFacts, My
<1>1. /\ Enters(g) => y.user # 0 \/ d \in overtaken
      /\ conn[d] = "closed" => d \in late
      /\ conn[d] = "opening" /\ g.pc = "token" => d \notin active
  BY <1>0 DEF ActiveInv, My
<1>2. y.user # 0 => x.user # 0
  BY <1>0 DEF UserPart
<1>3. ASSUME NEW c \in active'
      PROVE  /\ sess'[c].user = 0 => c \in overtaken'
             /\ conn'[c] = "closed" => c \in late'
  <2>1. CASE c # d
    <3>1. c \in active /\ c \in Conns
      BY <1>0, <1>3, <2>1 DEF ConnPart, TypeInv, HistoriesOK
    <3>2. sess'[c] = sess[c] /\ conn'[c] = conn[c]
      BY <1>0, <2>1, <3>1 DEF Only, ConnPart
    <3> QED
      BY <1>0, <3>1, <3>2 DEF ActiveInv, ActiveIsLoggedIn
  <2>2. CASE c = d
    <3>1. d \in active \/ Enters(g)
      BY <1>0, <1>3, <2>2 DEF ConnPart
    <3>2. y.user # 0 \/ d \in overtaken
      BY <1>0, <1>1, <3>1 DEF ActiveInv, ActiveIsLoggedIn
    <3>3. conn'[d] = "closed" => d \in late
      BY <1>0, <1>1, <1>3, <2>2 DEF ConnPart
    <3> QED
      BY <1>0, <1>2, <2>2, <3>2, <3>3
  <2> QED
    BY <2>1, <2>2
<1>4. ASSUME NEW q \in Reqs, NEW p \in Reqs, q # p, req'[q].c = req'[p].c, req'[p].c \in Conns
      PROVE  conn'[req'[p].c] # "opening"
  <2>1. req'[q].pc # "idle" /\ req'[p].pc # "idle"
    BY <1>4, WorkingNext
  <2>2. req[q].c = req'[q].c /\ req[p].c = req'[p].c
    BY <1>0, <2>1 DEF Only, Goes
  <2>3. conn[req[p].c] # "opening"
    BY <1>4, <2>2 DEF ActiveInv, Beside
  <2> QED
    BY <1>0, <1>4, <2>2, <2>3 DEF ConnPart
<1>5. ASSUME NEW q \in Reqs, req'[q].c \in Conns
      PROVE  /\ Enters(req'[q]) => sess'[req'[q].c].user # 0 \/ req'[q].c \in overtaken'
             /\ conn'[req'[q].c] = "closed" => req'[q].c \in late'
             /\ conn'[req'[q].c] = "opening" /\ req'[q].pc = "token" => req'[q].c \notin active'
  <2>0. req'[q].pc # "idle"
    BY <1>5, WorkingNext
  <2>1. CASE q = r
    <3>1. h.c = d
      BY <1>0, <2>0, <2>1 DEF Goes
    <3>2. conn'[d] = "closed" => conn[d] = "closed"
      BY <1>0, <2>0, <2>1 DEF ConnPart
    <3>3. h.pc # "token"
      BY <1>0 DEF ConnPart
    <3>4. Enters(h) => x.user # 0 \/ d \in overtaken
      BY <1>0, <1>1, <1>2 DEF UserPart
    <3> QED
      BY <1>0, <1>1, <2>1, <3>1, <3>2, <3>3, <3>4
  <2>2. CASE q # r
    <3>1. req'[q] = req[q]
      BY <1>0, <2>2 DEF Only
    <3>2. /\ Enters(req[q]) => sess[req[q].c].user # 0 \/ req[q].c \in overtaken
          /\ conn[req[q].c] = "closed" => req[q].c \in late
          /\ conn[req[q].c] = "opening" /\ req[q].pc = "token" => req[q].c \notin active
      BY <1>5, <3>1 DEF ActiveInv, My
    <3>3. CASE req[q].c = d
      <4>1. conn[d] # "opening"
        BY <1>0, <2>2, <3>3 DEF ActiveInv, Beside
      <4>2. conn'[d] = conn[d]
        BY <1>0, <4>1 DEF ConnPart
      <4> QED
        BY <1>0, <1>2, <3>1, <3>2, <3>3, <4>1, <4>2
    <3>4. CASE req[q].c # d
      <4>1. sess'[req[q].c] = sess[req[q].c] /\ conn'[req[q].c] = conn[req[q].c]
        BY <1>0, <1>5, <3>1, <3>4 DEF Only, ConnPart
      <4>2. req[q].c \in active' => req[q].c \in active
        BY <1>0, <3>4 DEF ConnPart
      <4> QED
        BY <1>0, <3>1, <3>2, <4>1, <4>2
    <3> QED
      BY <3>3, <3>4
  <2> QED
    BY <2>1, <2>2
<1> QED
  BY <1>3, <1>4, <1>5 DEF ActiveInv, ActiveIsLoggedIn, Beside, My, Enters

LEMMA SudoStep ==
  ASSUME ConstantsAssumption, TypeInv, TypeInv', SudoInv, NEW r \in Reqs, StepFacts(r)
  PROVE  SudoInv'
<1> DEFINE g == req[r]
           h == req'[r]
           d == g.c
           y == My(r)
           x == sess'[d]
<1>0. /\ d \in Conns /\ Only(r, d) /\ Goes(g, h) /\ PowerPart(g, h, y, x)
      /\ OutPart(g, h, x, rows[g.sid]) /\ mixed' = mixed /\ y = sess[d]
      /\ \A s \in Sids : \A w \in rows'[s] : w \in rows[s] \/ (s = g.sid /\ w \in g.out)
  BY DEF StepFacts, My
<1>1. g.sid \in Sids /\ PowersOK(y)
  BY <1>0 DEF TypeInv, Request, SudoInv
<1>2. ~g.lost /\ y.sid \notin mixed =>
        (g.pc = "sudo" => y.admin # 0) /\ (g.pc = "cancel" => y.orig # 0)
  BY <1>0 DEF SudoInv, My
<1>3. PowersOK(x) /\ x.sid = y.sid
  BY <1>0, <1>1, <1>2 DEF PowersOK, PowerPart
<1>4. \A c \in Conns : PowersOK(sess'[c])
  BY <1>0, <1>3 DEF SudoInv, Only
<1>5. \A s \in Sids : \A w \in rows'[s] : SavedSudo(w, s)
  BY <1>0 DEF SudoInv
<1>6. ASSUME NEW q \in Reqs, NEW w \in req'[q].out PROVE SavedSudo(w, req'[q].sid)
  <2>1. CASE q # r
    BY <1>0, <1>6, <2>1 DEF SudoInv, Only
  <2>2. CASE q = r
    <3>1. \/ h.sid = g.sid /\ (w \in g.out \/ w \in rows[g.sid])
          \/ h.sid = x.sid /\ Image(w, x)
      BY <1>0, <1>6, <2>2 DEF OutPart
    <3>2. CASE h.sid = g.sid /\ (w \in g.out \/ w \in rows[g.sid])
      BY <1>1, <2>2, <3>2 DEF SudoInv
    <3>3. CASE h.sid = x.sid /\ Image(w, x)
      BY <1>3, <2>2, <3>3 DEF PowersOK, Image, SavedSudo
    <3> QED
      BY <3>1, <3>2, <3>3
  <2> QED
    BY <2>1, <2>2
<1>7. ASSUME NEW q \in Reqs, req'[q].c \in Conns, ~req'[q].lost,
             sess'[req'[q].c].sid \notin mixed
      PROVE  /\ req'[q].pc = "sudo" => sess'[req'[q].c].admin # 0
             /\ req'[q].pc = "cancel" => sess'[req'[q].c].orig # 0
             /\ \A p \in Reqs : p # q /\ req'[p].c = req'[q].c /\ ~req'[p].lost =>
                  req'[q].pc \notin {"sudo", "cancel"} \/ req'[p].pc # req'[q].pc
  <2>1. h.pc \notin {"sudo", "cancel"}
    BY <1>0 DEF PowerPart
  <2>2. CASE q = r
    BY <2>1, <2>2
  <2>3. CASE q # r
    <3>1. req'[q] = req[q]
      BY <1>0, <2>3 DEF Only
    <3>2. CASE req[q].c = d
      <4>1. y.sid \notin mixed /\ ~req[q].lost
        BY <1>3, <1>7, <3>1, <3>2
      <4>2. /\ req[q].pc = "sudo" => y.admin # 0
            /\ req[q].pc = "cancel" => y.orig # 0
            /\ \A p \in Reqs : Beside(p, q) /\ ~req[p].lost =>
                 req[q].pc \notin {"sudo", "cancel"} \/ req[p].pc # req[q].pc
        BY <1>0, <3>2, <4>1 DEF SudoInv, My
      <4>3. ~g.lost => req[q].pc \notin {"sudo", "cancel"} \/ g.pc # req[q].pc
        BY <1>0, <2>3, <3>2, <4>2 DEF Beside
      <4>4. /\ req[q].pc = "sudo" => x.admin # 0
            /\ req[q].pc = "cancel" => x.orig # 0
        BY <1>0, <1>2, <4>1, <4>2, <4>3 DEF PowerPart
      <4>5. ASSUME NEW p \in Reqs, p # q, req'[p].c = req[q].c, ~req'[p].lost
            PROVE  req[q].pc \notin {"sudo", "cancel"} \/ req'[p].pc # req[q].pc
        <5>1. CASE p = r
          BY <2>1, <5>1
        <5>2. CASE p # r
          BY <1>0, <3>2, <4>2, <4>5, <5>2 DEF Only, Beside
        <5> QED
          BY <5>1, <5>2
      <4> QED
        BY <3>1, <3>2, <4>4, <4>5
    <3>3. CASE req[q].c # d
      <4>1. sess'[req[q].c] = sess[req[q].c] /\ req[q].c \in Conns
        BY <1>0, <1>7, <3>1, <3>3 DEF Only
      <4>2. /\ req[q].pc = "sudo" => sess[req[q].c].admin # 0
            /\ req[q].pc = "cancel" => sess[req[q].c].orig # 0
            /\ \A p \in Reqs : Beside(p, q) /\ ~req[p].lost =>
                 req[q].pc \notin {"sudo", "cancel"} \/ req[p].pc # req[q].pc
        BY <1>7, <3>1, <4>1 DEF SudoInv, My
      <4>3. ASSUME NEW p \in Reqs, p # q, req'[p].c = req[q].c, ~req'[p].lost
            PROVE  req[q].pc \notin {"sudo", "cancel"} \/ req'[p].pc # req[q].pc
        <5>1. CASE p = r
          BY <2>1, <5>1
        <5>2. CASE p # r
          BY <1>0, <4>1, <4>2, <4>3, <5>2 DEF Only, Beside
        <5> QED
          BY <5>1, <5>2
      <4> QED
        BY <3>1, <4>1, <4>2, <4>3
    <3> QED
      BY <3>2, <3>3
  <2> QED
    BY <2>2, <2>3
<1> QED
  BY <1>0, <1>4, <1>5, <1>6, <1>7 DEF SudoInv, PowersOK, SavedSudo, Beside, My

LEMMA CodeStep ==
  ASSUME ConstantsAssumption, TypeInv, TypeInv', CodeInv, NEW r \in Reqs, StepFacts(r)
  PROVE  CodeInv'
<1> DEFINE g == req[r]
           h == req'[r]
           d == g.c
           y == My(r)
           x == sess'[d]
           Excused2(s) == s \in unsent' \cup crossed'
<1>0. /\ d \in Conns /\ Only(r, d) /\ Goes(g, h) /\ OutPart(g, h, x, rows[g.sid])
      /\ CodePart(g, h, y, x, y.sid \in unsent')
      /\ crossed' = crossed /\ unsent \subseteq unsent' /\ y = sess[d] /\ x.sid = y.sid
      /\ \A s \in Sids : \A w \in rows'[s] : w \in rows[s] \/ (s = g.sid /\ w \in g.out)
  BY DEF StepFacts, My, PowerPart
<1>a. \A s : Excused(s) => Excused2(s)
  BY <1>0 DEF Excused
<1>1. g.sid \in Sids /\ NumberOK(g, y) /\ \A q \in Reqs : HandlerKind(req[q])
  BY <1>0 DEF TypeInv, Request, CodeInv
<1>2. ASSUME NEW q \in Reqs, q # r, req[q].c = d, ~Excused2(y.sid)
      PROVE  ~Clash(req[q], g) /\ ~Clash(g, req[q])
  <2>1. y.sid \notin crossed
    BY <1>0, <1>2
  <2> QED
    BY <1>0, <1>2, <2>1 DEF CodeInv, Beside, My
<1>3. \A q \in Reqs : Midway(req[q]) =>
        ~req[q].lost /\ req[q].op \in Numbering /\ req[q].pc # "save"
  BY <1>1 DEF Midway, HandlerKind, Numbering
<1>4. Matches(x) \/ Excused2(x.sid) \/ \E q \in Reqs : req'[q].c = d /\ Midway(req'[q])
  <2> SUFFICES ASSUME ~Excused2(y.sid), ~Midway(h)
               PROVE  Matches(x) \/ \E q \in Reqs : req'[q].c = d /\ Midway(req'[q])
    <3>1. Midway(h) => h.c = d
      BY <1>0 DEF Midway, Goes
    <3> QED
      BY <1>0, <3>1
  <2>1. x.tel = y.tel /\ ~Excused(y.sid) /\ y.sid \notin unsent'
    BY <1>0, <1>a DEF CodePart
  <2>2. CASE Midway(g)
    <3>1. CASE x.cookie = NoTel
      BY <3>1 DEF Matches
    <3>2. CASE Sent(g, y, x)
      BY <1>1, <2>1, <3>2 DEF Sent, NumberOK, Matches
    <3> QED
      BY <1>0, <2>1, <2>2, <3>1, <3>2 DEF CodePart
  <2>3. CASE ~Midway(g)
    <3>1. x.cookie \in {y.cookie, NoTel}
      BY <1>0, <2>3 DEF CodePart, Sent, Midway
    <3>2. Matches(y) \/ \E q \in Reqs : req[q].c = d /\ Midway(req[q])
      BY <1>0, <2>1 DEF CodeInv
    <3>3. ASSUME NEW q \in Reqs, req[q].c = d, Midway(req[q])
          PROVE  req'[q].c = d /\ Midway(req'[q])
      BY <1>0, <2>3, <3>3 DEF Only
    <3> QED
      BY <2>1, <3>1, <3>2, <3>3 DEF Matches
  <2> QED
    BY <2>2, <2>3
<1>5. ASSUME NEW c \in Conns
      PROVE  \/ Matches(sess'[c]) \/ Excused2(sess'[c].sid)
             \/ \E q \in Reqs : req'[q].c = c /\ Midway(req'[q])
  <2>1. CASE c = d
    BY <1>4, <2>1
  <2>2. CASE c # d
    <3>1. sess'[c] = sess[c] /\ \A q \in Reqs : req[q].c = c => req'[q] = req[q]
      BY <1>0, <2>2 DEF Only
    <3>2. \/ Matches(sess[c]) \/ Excused(sess[c].sid)
          \/ \E q \in Reqs : req[q].c = c /\ Midway(req[q])
      BY DEF CodeInv
    <3> QED
      BY <1>a, <3>1, <3>2
  <2> QED
    BY <2>1, <2>2
<1>6. \A s \in Sids : \A w \in rows'[s] : Matches(w) \/ Excused2(s)
  BY <1>0, <1>a DEF CodeInv, SavedCode
<1>7. ASSUME NEW q \in Reqs, NEW w \in req'[q].out PROVE Matches(w) \/ Excused2(req'[q].sid)
  <2>1. CASE q # r
    BY <1>0, <1>7, <1>a, <2>1 DEF CodeInv, SavedCode, Only
  <2>2. CASE q = r
    <3>1. \/ h.sid = g.sid /\ (w \in g.out \/ w \in rows[g.sid])
          \/ /\ h.sid = x.sid /\ Image(w, x) /\ h.pc = "save" /\ g.op \in Changing
             /\ g.pc # "save"
      BY <1>0, <1>7, <2>2 DEF OutPart
    <3>2. CASE h.sid = g.sid /\ (w \in g.out \/ w \in rows[g.sid])
      BY <1>1, <1>a, <2>2, <3>2 DEF CodeInv, SavedCode
    <3>3. CASE /\ h.sid = x.sid /\ Image(w, x) /\ h.pc = "save" /\ g.op \in Changing
               /\ g.pc # "save"
      <4>1. ASSUME NEW p \in Reqs, req'[p].c = d, Midway(req'[p]), ~Excused2(y.sid) PROVE FALSE
        <5>1. p # r
          BY <3>3, <4>1 DEF Midway
        <5>2. req'[p] = req[p]
          BY <1>0, <5>1 DEF Only
        <5>3. Clash(req[p], g)
          BY <1>3, <3>3, <4>1, <5>2 DEF Clash
        <5> QED
          BY <1>2, <4>1, <5>1, <5>2, <5>3
      <4>2. Matches(x) \/ Excused2(x.sid)
        BY <1>0, <1>4, <4>1
      <4>3. Matches(x) => Matches(w)
        BY <3>3 DEF Matches, Image
      <4> QED
        BY <2>2, <3>3, <4>2, <4>3
    <3> QED
      BY <3>1, <3>2, <3>3
  <2> QED
    BY <2>1, <2>2
<1> DEFINE NumberOK2(k, z) ==
             ~k.lost /\ ~Excused2(z.sid) =>
               /\ k.pc = "send" => z.tel = k.tel
               /\ k.pc = "verify" => k.code = z.tel
               /\ k.op = "login" /\ k.pc \in {"find", "add", "merchant", "admin"} =>
                    k.code = k.tel
               /\ k.op = "login" /\ k.pc = "find" => k.tel = z.tel
<1>b. \A k, z : NumberOK(k, z) => NumberOK2(k, z)
  BY <1>a DEF NumberOK
<1>8. ASSUME NEW q \in Reqs, req'[q].c \in Conns PROVE NumberOK2(req'[q], sess'[req'[q].c])
  <2>0. req'[q].pc # "idle"
    BY <1>8, WorkingNext
  <2>1. CASE q = r
    <3>1. h.c = d /\ h.op = g.op /\ h.code = g.code /\ h.lost = g.lost
      BY <1>0, <2>0, <2>1 DEF Goes
    <3> SUFFICES ASSUME ~g.lost, ~Excused2(y.sid) PROVE NumberOK2(h, x)
      BY <1>0, <2>1, <3>1
    <3>2. ~Excused(y.sid)
      BY <1>a
    <3>3. /\ g.pc = "verify" => g.code = y.tel
          /\ g.op = "login" /\ g.pc \in {"find", "add", "merchant", "admin"} => g.code = g.tel
          /\ g.op = "login" /\ g.pc = "find" => g.tel = y.tel
      BY <1>1, <3>2 DEF NumberOK
    <3>4. /\ h.pc = "send" => x.tel = h.tel /\ h.pc # "verify"
          /\ h.pc # "verify"
          /\ h.pc = "find" => x.tel = h.tel /\ (g.op = "login" => g.pc = "verify" /\ x.tel = y.tel)
          /\ h.pc = "add" => g.pc = "find" /\ h.tel = x.tel /\ x.tel = y.tel
          /\ h.pc \in {"merchant", "admin"} => g.pc \in {"find", "merchant"} /\ h.tel = g.tel
      BY <1>0 DEF CodePart
    <3> QED
      BY <3>1, <3>3, <3>4
  <2>2. CASE q # r
    <3>1. req'[q] = req[q] /\ NumberOK(req[q], sess[req[q].c])
      BY <1>0, <1>8, <2>2 DEF Only, CodeInv, My
    <3>2. CASE req[q].c # d
      BY <1>0, <1>8, <1>b, <3>1, <3>2 DEF Only
    <3>3. CASE req[q].c = d
      <4> SUFFICES ASSUME ~req[q].lost, ~Excused2(y.sid) PROVE NumberOK2(req[q], x)
        BY <1>0, <3>1, <3>3
      <4>1. CASE x.tel = y.tel
        BY <1>0, <1>b, <3>1, <3>3, <4>1
      <4>2. CASE ~g.lost /\ g.op \in Numbering /\ g.pc # "save"
        <5>1. ~(req[q].op \in Changing /\ req[q].pc # "save")
          BY <1>2, <2>2, <3>3, <4>2 DEF Clash
        <5>2. HandlerKind(req[q])
          BY <1>1
        <5>3. /\ req[q].pc \notin {"send", "verify"}
              /\ ~(req[q].op = "login" /\ req[q].pc \in {"find", "add", "merchant", "admin"})
          BY <5>1, <5>2 DEF HandlerKind, Changing, Numbering
        <5> QED
          BY <5>3
      <4> QED
        BY <1>0, <4>1, <4>2 DEF CodePart
    <3> QED
      BY <3>2, <3>3
  <2> QED
    BY <2>1, <2>2
<1>9. ASSUME NEW q \in Reqs, NEW p \in Reqs, q # p, req'[q].c = req'[p].c, req'[p].c \in Conns,
             sess'[req'[p].c].sid \notin crossed'
      PROVE  ~Clash(req'[q], req'[p])
  <2>1. req'[q].pc # "idle" /\ req'[p].pc # "idle"
    BY <1>9, WorkingNext
  <2>2. \A k \in {q, p} : /\ req[k].c = req'[k].c /\ req[k].op = req'[k].op
                          /\ req[k].lost = req'[k].lost
                          /\ req'[k].pc # "save" => req[k].pc # "save"
    BY <1>0, <2>1 DEF Only, Goes
  <2>3. sess[req[p].c].sid \notin crossed
    BY <1>0, <1>9, <2>2 DEF Only
  <2>4. ~Clash(req[q], req[p])
    BY <1>9, <2>2, <2>3 DEF CodeInv, Beside, My
  <2> QED
    BY <2>2, <2>4 DEF Clash
<1> QED
  BY <1>5, <1>6, <1>7, <1>8, <1>9 DEF CodeInv, SavedCode, Matches, Excused, NumberOK, Beside,
     My, Clash, Midway

-----------------------------------------------------------------------------
(* The steps that begin or end a session or a call *)

\* What is proved of every step
Keeps ==
  /\ TypeInv' /\ (ActiveInv => ActiveInv') /\ (SudoInv => SudoInv') /\ (CodeInv => CodeInv')

\* The invariants do not speak of the rest.
LEMMA Quiet ==
  ASSUME UNCHANGED <<rows, conn, sess, active, req, late, unsent, crossed, mixed, overtaken>>,
         TypeInv'
  PROVE  Keeps
<1>1. ActiveInv => ActiveInv'
  BY DEF ActiveInv, ActiveIsLoggedIn, Enters, Beside, My
<1>2. SudoInv => SudoInv'
  BY DEF SudoInv, PowersOK, SavedSudo, Beside, My
<1>3. CodeInv => CodeInv'
  BY DEF CodeInv, Matches, SavedCode, Excused, NumberOK, Midway, Clash, Beside, My
<1> QED
  BY <1>1, <1>2, <1>3 DEF Keeps

LEMMA StepKeeps ==
  ASSUME ConstantsAssumption, TypeInv, NEW r \in Reqs, Step(r), ~\E s \in Sids : TokenUser(r, s)
  PROVE  Keeps
<1>1. CASE StepFacts(r)
  BY <1>1, StepSummary, ActiveStep, SudoStep, CodeStep DEF Keeps
<1>2. CASE ~StepFacts(r)
  BY <1>2, StepSummary, Quiet
<1> QED
  BY <1>1, <1>2

\* A call begins on the connection c.
LEMMA ActiveBegin ==
  ASSUME ConstantsAssumption, TypeInv, TypeInv', ActiveInv, NEW r \in Reqs, NEW c \in Conns,
         Only(r, c), req'[r].c = c, late' = late, active' \subseteq active,
         \A d \in Conns \ {c} : conn'[d] = conn[d] /\ (d \in overtaken => d \in overtaken'),
         Enters(req'[r]) => sess'[c].user # 0, conn'[c] # "closed",
         conn'[c] = "open" \/ (~Busy(c) /\ c \notin active'),
         c \in active' => sess'[c].user = sess[c].user /\ overtaken' = overtaken,
         \A q \in Reqs : req[q].c = c /\ Enters(req[q]) =>
           (sess'[c].user = sess[c].user /\ overtaken' = overtaken) \/ c \in overtaken'
  PROVE  ActiveInv'
<1>1. ASSUME NEW d \in active'
      PROVE  /\ sess'[d].user = 0 => d \in overtaken'
             /\ conn'[d] = "closed" => d \in late'
  <2>1. d \in active /\ d \in Conns
    BY <1>1 DEF TypeInv, HistoriesOK
  <2>2. CASE d = c
    BY <1>1, <2>1, <2>2 DEF ActiveInv, ActiveIsLoggedIn
  <2>3. CASE d # c
    BY <2>1, <2>3 DEF ActiveInv, ActiveIsLoggedIn, Only
  <2> QED
    BY <2>2, <2>3
<1>2. ASSUME NEW q \in Reqs, req[q].c = c, req[q].pc # "idle" PROVE conn'[c] = "open"
  BY <1>2 DEF Busy
<1>3. ASSUME NEW q \in Reqs, q # r, req'[q].c \in Conns
      PROVE  req'[q] = req[q] /\ req[q].pc # "idle" /\ (req[q].c = c => conn'[c] = "open")
  BY <1>2, <1>3, Working DEF Only
<1>4. ASSUME NEW q \in Reqs, NEW p \in Reqs, q # p, req'[q].c = req'[p].c, req'[p].c \in Conns
      PROVE  conn'[req'[p].c] # "opening"
  <2>1. CASE req'[p].c = c
    BY <1>3, <1>4, <2>1
  <2>2. CASE req'[p].c # c
    <3>1. q # r /\ p # r
      BY <1>4, <2>2
    <3> QED
      BY <1>3, <1>4, <2>2, <3>1 DEF ActiveInv, Beside
  <2> QED
    BY <2>1, <2>2
<1>5. ASSUME NEW q \in Reqs, req'[q].c \in Conns
      PROVE  /\ Enters(req'[q]) => sess'[req'[q].c].user # 0 \/ req'[q].c \in overtaken'
             /\ conn'[req'[q].c] = "closed" => req'[q].c \in late'
             /\ conn'[req'[q].c] = "opening" /\ req'[q].pc = "token" => req'[q].c \notin active'
  <2>1. CASE q = r
    BY <1>5, <2>1
  <2>2. CASE q # r
    <3>1. /\ Enters(req[q]) => sess[req[q].c].user # 0 \/ req[q].c \in overtaken
          /\ conn[req[q].c] = "closed" => req[q].c \in late
          /\ conn[req[q].c] = "opening" /\ req[q].pc = "token" => req[q].c \notin active
      BY <1>3, <1>5, <2>2 DEF ActiveInv, My
    <3>2. CASE req[q].c = c
      BY <1>3, <1>5, <2>2, <3>1, <3>2
    <3>3. CASE req[q].c # c
      BY <1>3, <1>5, <2>2, <3>1, <3>3 DEF Only
    <3> QED
      BY <3>2, <3>3
  <2> QED
    BY <2>1, <2>2
<1> QED
  BY <1>1, <1>4, <1>5 DEF ActiveInv, ActiveIsLoggedIn, Beside, My, Enters

LEMMA SudoBegin ==
  ASSUME ConstantsAssumption, TypeInv, SudoInv, NEW r \in Reqs, NEW c \in Conns,
         Only(r, c), req'[r].c = c, rows' = rows, mixed \subseteq mixed',
         NEW x, NEW y, NEW h, x = sess'[c], y = sess[c], h = req'[r],
         \A w \in h.out : h.sid = x.sid /\ Image(w, x),
         x.sid \notin mixed' =>
           /\ (x.sudo => x.orig # 0) /\ (x.isAdmin => x.admin # 0)
           /\ (h.pc = "sudo" => x.admin # 0) /\ (h.pc = "cancel" => x.orig # 0)
           /\ \A q \in Reqs \ {r} :
                req[q].c = c /\ ~req[q].lost /\ req[q].pc \in {"sudo", "cancel"} =>
                  /\ req[q].pc # h.pc /\ x.sid = y.sid /\ x.orig = y.orig
                  /\ req[q].pc = "sudo" => x.admin = y.admin
  PROVE  SudoInv'
<1> DEFINE Saved2(w, s) == w.sudo /\ s \notin mixed' => w.orig # 0
           Powers2(z) == z.sid \notin mixed' => (z.sudo => z.orig # 0) /\ (z.isAdmin => z.admin # 0)
<1>0. \A w, s : SavedSudo(w, s) => Saved2(w, s)
  BY DEF SavedSudo
<1>1. \A d \in Conns : Powers2(sess'[d])
  BY DEF SudoInv, PowersOK, Only
<1>2. \A s \in Sids : \A w \in rows'[s] : Saved2(w, s)
  BY <1>0 DEF SudoInv
<1>3. ASSUME NEW q \in Reqs, NEW w \in req'[q].out PROVE Saved2(w, req'[q].sid)
  <2>1. CASE q = r
    BY <1>3, <2>1 DEF Image
  <2>2. CASE q # r
    BY <1>0, <1>3, <2>2 DEF SudoInv, Only
  <2> QED
    BY <2>1, <2>2
<1>4. ASSUME NEW q \in Reqs, req'[q].c \in Conns, ~req'[q].lost,
             sess'[req'[q].c].sid \notin mixed'
      PROVE  /\ req'[q].pc = "sudo" => sess'[req'[q].c].admin # 0
             /\ req'[q].pc = "cancel" => sess'[req'[q].c].orig # 0
             /\ \A p \in Reqs : p # q /\ req'[p].c = req'[q].c /\ ~req'[p].lost =>
                  req'[q].pc \notin {"sudo", "cancel"} \/ req'[p].pc # req'[q].pc
  <2>1. CASE q = r
    BY <1>4, <2>1 DEF Only
  <2>2. CASE q # r
    <3>1. req'[q] = req[q]
      BY <2>2 DEF Only
    <3>2. CASE req[q].c = c
      <4>1. CASE req[q].pc \notin {"sudo", "cancel"}
        BY <3>1, <4>1
      <4>2. CASE req[q].pc \in {"sudo", "cancel"}
        <5>1. /\ req[q].pc # h.pc /\ x.sid = y.sid /\ x.orig = y.orig
              /\ req[q].pc = "sudo" => x.admin = y.admin
          BY <1>4, <2>2, <3>1, <3>2, <4>2
        <5>2. y.sid \notin mixed
          BY <1>4, <3>1, <3>2, <5>1
        <5>3. /\ req[q].pc = "sudo" => y.admin # 0
              /\ req[q].pc = "cancel" => y.orig # 0
              /\ \A p \in Reqs : Beside(p, q) /\ ~req[p].lost => req[p].pc # req[q].pc
          BY <1>4, <3>1, <3>2, <4>2, <5>2 DEF SudoInv, My
        <5>4. ASSUME NEW p \in Reqs, p # q, req'[p].c = c, ~req'[p].lost
              PROVE  req'[p].pc # req[q].pc
          <6>1. CASE p = r
            BY <5>1, <6>1
          <6>2. CASE p # r
            BY <3>2, <5>3, <5>4, <6>2 DEF Only, Beside
          <6> QED
            BY <6>1, <6>2
        <5> QED
          BY <3>1, <3>2, <5>1, <5>3, <5>4
      <4> QED
        BY <4>1, <4>2
    <3>3. CASE req[q].c # c
      <4>1. sess'[req[q].c] = sess[req[q].c] /\ req[q].c \in Conns
            /\ sess[req[q].c].sid \notin mixed
        BY <1>4, <3>1, <3>3 DEF Only
      <4>2. /\ req[q].pc = "sudo" => sess[req[q].c].admin # 0
            /\ req[q].pc = "cancel" => sess[req[q].c].orig # 0
            /\ \A p \in Reqs : Beside(p, q) /\ ~req[p].lost =>
                 req[q].pc \notin {"sudo", "cancel"} \/ req[p].pc # req[q].pc
        BY <1>4, <3>1, <4>1 DEF SudoInv, My
      <4> QED
        BY <3>1, <3>3, <4>1, <4>2 DEF Only, Beside
    <3> QED
      BY <3>2, <3>3
  <2> QED
    BY <2>1, <2>2
<1> QED
  BY <1>1, <1>2, <1>3, <1>4 DEF SudoInv, PowersOK, SavedSudo, Beside, My

LEMMA CodeBegin ==
  ASSUME ConstantsAssumption, TypeInv, CodeInv, NEW r \in Reqs, NEW c \in Conns,
         Only(r, c), req'[r].c = c, rows' = rows, unsent' = unsent, crossed \subseteq crossed',
         NEW x, NEW y, NEW h, x = sess'[c], y = sess[c], h = req'[r],
         req[r].pc = "idle",
         \A w \in h.out : h.sid = x.sid /\ Image(w, x) /\ Matches(x),
         Matches(x) \/ Excused(x.sid) \/ x = y,
         h.pc \notin {"send", "find", "add", "merchant", "admin"},
         x.sid \notin unsent \cup crossed' => (h.pc = "verify" => h.code = x.tel),
         \A q \in Reqs \ {r} : req[q].c = c =>
           x.sid = y.sid /\ (NumberOK(req[q], x) \/ x.sid \in crossed'),
         x.sid \notin crossed' => \A q \in Reqs \ {r} : req[q].c = c =>
           ~Clash(req[q], h) /\ ~Clash(h, req[q])
  PROVE  CodeInv'
<1> DEFINE Excused2(s) == s \in unsent' \cup crossed'
           NumberOK2(k, z) ==
             ~k.lost /\ ~Excused2(z.sid) =>
               /\ k.pc = "send" => z.tel = k.tel
               /\ k.pc = "verify" => k.code = z.tel
               /\ k.op = "login" /\ k.pc \in {"find", "add", "merchant", "admin"} =>
                    k.code = k.tel
               /\ k.op = "login" /\ k.pc = "find" => k.tel = z.tel
<1>a. \A s : Excused(s) => Excused2(s)
  BY DEF Excused
<1>b. \A k, z : NumberOK(k, z) => NumberOK2(k, z)
  BY <1>a DEF NumberOK
<1>1. ASSUME NEW d \in Conns
      PROVE  \/ Matches(sess'[d]) \/ Excused2(sess'[d].sid)
             \/ \E q \in Reqs : req'[q].c = d /\ Midway(req'[q])
  <2>1. CASE sess'[d] = sess[d]
    <3>1. \A q \in Reqs : Midway(req[q]) => req'[q] = req[q]
      BY DEF Midway, Only
    <3>2. \/ Matches(sess[d]) \/ Excused(sess[d].sid)
          \/ \E q \in Reqs : req[q].c = d /\ Midway(req[q])
      BY DEF CodeInv
    <3> QED
      BY <1>a, <2>1, <3>1, <3>2
  <2>2. CASE sess'[d] # sess[d]
    BY <1>a, <2>2 DEF Only
  <2> QED
    BY <2>1, <2>2
<1>2. \A s \in Sids : \A w \in rows'[s] : Matches(w) \/ Excused2(s)
  BY <1>a DEF CodeInv, SavedCode
<1>3. ASSUME NEW q \in Reqs, NEW w \in req'[q].out PROVE Matches(w) \/ Excused2(req'[q].sid)
  <2>1. CASE q = r
    BY <1>3, <2>1 DEF Image, Matches
  <2>2. CASE q # r
    BY <1>3, <1>a, <2>2 DEF CodeInv, SavedCode, Only
  <2> QED
    BY <2>1, <2>2
<1>4. ASSUME NEW q \in Reqs, req'[q].c \in Conns PROVE NumberOK2(req'[q], sess'[req'[q].c])
  <2>1. CASE q = r
    BY <2>1
  <2>2. CASE q # r
    <3>1. req'[q] = req[q]
      BY <2>2 DEF Only
    <3>2. CASE req[q].c = c
      BY <1>b, <2>2, <3>1, <3>2
    <3>3. CASE req[q].c # c
      BY <1>4, <1>b, <3>1, <3>3 DEF Only, CodeInv, My
    <3> QED
      BY <3>2, <3>3
  <2> QED
    BY <2>1, <2>2
<1>5. ASSUME NEW q \in Reqs, NEW p \in Reqs, q # p, req'[q].c = req'[p].c, req'[p].c \in Conns,
             sess'[req'[p].c].sid \notin crossed'
      PROVE  ~Clash(req'[q], req'[p])
  <2>1. CASE q = r
    BY <1>5, <2>1 DEF Only
  <2>2. CASE p = r
    BY <1>5, <2>2 DEF Only
  <2>3. CASE q # r /\ p # r
    <3>1. req'[q] = req[q] /\ req'[p] = req[p] /\ req[p].c \in Conns
      BY <1>5, <2>3 DEF Only
    <3>2. sess[req[p].c].sid \notin crossed
      BY <1>5, <2>3, <3>1 DEF Only
    <3> QED
      BY <1>5, <3>1, <3>2 DEF CodeInv, Beside, My
  <2> QED
    BY <2>1, <2>2, <2>3
<1> QED
  BY <1>1, <1>2, <1>3, <1>4, <1>5 DEF CodeInv, SavedCode, Matches, Excused, NumberOK, Beside,
     My, Clash, Midway

\* A call of one of the kinds that Record looks at
LEMMA ArriveKeeps ==
  ASSUME ConstantsAssumption, TypeInv, NEW r \in Reqs, NEW c \in Conns, NEW h \in Request,
         HandlerIds(h, Len(users), Len(admins)), HandlerKind(h), Arrive(r, c, h), h.c = c,
         h.lost = FALSE, h.out = {}, h.pc \in {"banned", "verify", "fast", "sudo", "cancel"},
         h.pc = "verify" => h.code = sess[c].cookie /\ h.code # NoTel,
         h.pc = "sudo" => sess[c].isAdmin, h.pc = "cancel" => sess[c].sudo
  PROVE  Keeps
<1> DEFINE x == sess[c]
<1>0. /\ UNCHANGED <<users, shop, admins, once, candidate, rows, conn, sess, active, late,
                     unsent, overtaken>>
      /\ req' = [req EXCEPT ![r] = h] /\ req[r].pc = "idle" /\ conn[c] = "open"
      /\ crossed' = IF Crosses(c, h.op) THEN crossed \cup {x.sid} ELSE crossed
      /\ mixed' = IF Mixes(c, h.op) THEN mixed \cup {x.sid} ELSE mixed
  BY DEF Arrive, Record, db, boot
<1>1. x \in Session /\ SessionIds(x, Len(users), Len(admins)) /\ x.sid \in Sids
  BY DEF TypeInv, Session
<1>2. TypeInv'
  <2>1. DbOK' /\ HistoriesOK' /\ Len(users) <= Len(users') /\ Len(admins) <= Len(admins')
        /\ sess' = [sess EXCEPT ![c] = x] /\ MaxUsers \in Nat
    BY <1>0, <1>1 DEF TypeInv, DbOK, HistoriesOK, ConstantsAssumption
  <2>2. /\ rows' \in [Sids -> SUBSET Saved] /\ conn' \in [Conns -> {"closed", "opening", "open"}]
        /\ \A s \in Sids : \A w \in rows'[s] : SavedIds(w, Len(users'), Len(admins'))
        /\ SessionIds(x, Len(users'), Len(admins')) /\ HandlerIds(h, Len(users'), Len(admins'))
    BY <1>0, <1>1 DEF TypeInv
  <2> QED
    BY <1>0, <1>1, <2>1, <2>2, TouchType
<1>3. Only(r, c) /\ req'[r] = h /\ crossed \subseteq crossed' /\ mixed \subseteq mixed'
      /\ \A q \in Reqs : HandlerKind(req[q])
  BY <1>0 DEF Only, TypeInv
<1>4. ASSUME ActiveInv PROVE ActiveInv'
  <2>1. ~Enters(h)
    BY DEF Enters
  <2> QED
    BY <1>0, <1>2, <1>3, <1>4, <2>1, ActiveBegin
<1>5. ASSUME SudoInv PROVE SudoInv'
  <2>1. x.sid \notin mixed' => (x.sudo => x.orig # 0) /\ (x.isAdmin => x.admin # 0)
    BY <1>3, <1>5 DEF SudoInv, PowersOK
  <2>2. ASSUME x.sid \notin mixed', NEW q \in Reqs \ {r}, req[q].c = c,
               req[q].pc \in {"sudo", "cancel"}
        PROVE  req[q].pc # h.pc
    <3>1. ~Mixes(c, h.op)
      BY <1>0, <2>2
    <3>2. req[q].pc = req[q].op /\ (h.pc \in {"sudo", "cancel"} => h.pc = h.op)
      BY <1>3, <2>2 DEF HandlerKind
    <3> QED
      BY <2>2, <3>1, <3>2 DEF Mixes, InFlight
  <2> QED
    BY <1>0, <1>3, <1>5, <2>1, <2>2, SudoBegin
<1>6. ASSUME CodeInv PROVE CodeInv'
  <2>1. ASSUME NEW q \in Reqs, req[q].c = c, Midway(req[q]), h.op \in Changing
        PROVE  x.sid \in crossed'
    <3>1. req[q].op \in Numbering /\ req[q].pc # "save"
      BY <1>3, <2>1 DEF Midway, HandlerKind, Numbering
    <3>2. Crosses(c, h.op)
      BY <2>1, <3>1 DEF Crosses, InFlight, Numbering, Changing
    <3> QED
      BY <1>0, <3>2
  <2>2. x.sid \notin unsent \cup crossed' => (h.pc = "verify" => h.code = x.tel)
    <3>1. SUFFICES ASSUME x.sid \notin unsent \cup crossed', h.pc = "verify"
                   PROVE  h.code = x.tel
      OBVIOUS
    <3>2. h.op \in Changing
      BY <3>1 DEF HandlerKind, Changing
    <3>3. Matches(x) \/ \E q \in Reqs : req[q].c = c /\ Midway(req[q])
      BY <1>3, <1>6, <3>1 DEF CodeInv, Excused
    <3>4. Matches(x)
      BY <2>1, <3>1, <3>2, <3>3
    <3> QED
      BY <3>1, <3>4 DEF Matches
  <2>3. ASSUME x.sid \notin crossed', NEW q \in Reqs \ {r}, req[q].c = c
        PROVE  ~Clash(req[q], h) /\ ~Clash(h, req[q])
    <3>1. ~Crosses(c, h.op)
      BY <1>0, <2>3
    <3> QED
      BY <2>3, <3>1 DEF Crosses, InFlight, Clash, Numbering, Changing
  <2>4. \A q \in Reqs \ {r} : req[q].c = c => NumberOK(req[q], x)
    BY <1>6 DEF CodeInv, My
  <2>5. h.pc \notin {"send", "find", "add", "merchant", "admin"}
    OBVIOUS
  <2> QED
    BY <1>0, <1>3, <1>6, <2>2, <2>3, <2>4, <2>5, CodeBegin
<1> QED
  BY <1>2, <1>4, <1>5, <1>6 DEF Keeps

LEMMA CallKeeps ==
  ASSUME ConstantsAssumption, TypeInv, NEW r \in Reqs, NEW c \in Conns, Call(r, c)
  PROVE  Keeps
<1> DEFINE x == sess[c]
           z == CHOOSE s \in Sids : TRUE
<1>1. /\ x \in Session /\ SessionIds(x, Len(users), Len(admins)) /\ z \in Sids
      /\ Len(users) \in Nat /\ Len(admins) \in Nat /\ x.cookie \in Tels \cup {NoTel}
      /\ 0 \in Uids /\ 0..Len(users) \subseteq Uids /\ 0 \in 0..Len(users)
  BY IdsInBounds DEF TypeInv, DbOK, ConstantsAssumption, Session, Uids
<1> HIDE DEF z
<1>2. ASSUME NEW h \in Request, Arrive(r, c, h), h.c = c, h.lost = FALSE, h.out = {},
             h.pc \in {"banned", "verify", "fast", "sudo", "cancel"}, HandlerKind(h),
             h.uid \in 0..Len(users), h.pc = "verify" => h.code = x.cookie /\ h.code # NoTel,
             h.pc = "sudo" => x.isAdmin /\ h.uid # 0, h.pc = "cancel" => x.sudo /\ h.uid # 0
      PROVE  Keeps
  <2>1. HandlerIds(h, Len(users), Len(admins))
    BY <1>2 DEF HandlerIds, Loading
  <2> QED
    BY <1>2, <2>1, ArriveKeeps
<1>3. ASSUME NEW t \in Tels, Arrive(r, c, [Start("banned", "prelogin", c) EXCEPT !.tel = t])
      PROVE  Keeps
  <2> DEFINE h == [Start("banned", "prelogin", c) EXCEPT !.tel = t]
  <2>1. /\ h \in Request /\ h.pc = "banned" /\ h.op = "prelogin" /\ h.c = c
        /\ h.lost = FALSE /\ h.out = {} /\ h.uid = 0
    BY <1>1 DEF Start, Request, Pcs, Ops, z
  <2> HIDE DEF h
  <2> QED
    BY <1>1, <1>2, <1>3, <2>1 DEF HandlerKind, h
<1>4. CASE x.cookie # NoTel /\ Arrive(r, c, [Start("verify", "login", c) EXCEPT !.code = x.cookie])
  <2> DEFINE h == [Start("verify", "login", c) EXCEPT !.code = x.cookie]
  <2>1. /\ h \in Request /\ h.pc = "verify" /\ h.op = "login" /\ h.c = c
        /\ h.lost = FALSE /\ h.out = {} /\ h.uid = 0 /\ h.code = x.cookie
    BY <1>1 DEF Start, Request, Pcs, Ops, z
  <2>2. Arrive(r, c, h)
    BY <1>4
  <2> HIDE DEF h
  <2> QED
    BY <1>1, <1>2, <1>4, <2>1, <2>2 DEF HandlerKind
<1>5. CASE Arrive(r, c, Start("fast", "fast", c))
  <2> DEFINE h == Start("fast", "fast", c)
  <2>1. /\ h \in Request /\ h.pc = "fast" /\ h.op = "fast" /\ h.c = c
        /\ h.lost = FALSE /\ h.out = {} /\ h.uid = 0
    BY <1>1 DEF Start, Request, Pcs, Ops, z
  <2>2. Arrive(r, c, h)
    BY <1>5
  <2> HIDE DEF h
  <2> QED
    BY <1>1, <1>2, <2>1, <2>2 DEF HandlerKind
<1>6. ASSUME NEW u \in 1..Len(users), x.isAdmin,
             Arrive(r, c, [Start("sudo", "sudo", c) EXCEPT !.uid = u])
      PROVE  Keeps
  <2> DEFINE h == [Start("sudo", "sudo", c) EXCEPT !.uid = u]
  <2>0. u \in 0..Len(users) /\ u # 0 /\ u \in Uids
    BY <1>1
  <2>1. /\ h \in Request /\ h.pc = "sudo" /\ h.op = "sudo" /\ h.c = c
        /\ h.lost = FALSE /\ h.out = {} /\ h.uid = u
    BY <1>1, <2>0 DEF Start, Request, Pcs, Ops, z
  <2>2. Arrive(r, c, h)
    BY <1>6
  <2> HIDE DEF h
  <2> QED
    BY <1>2, <1>6, <2>0, <2>1, <2>2 DEF HandlerKind
<1>7. CASE /\ x.sudo /\ x.orig # 0
           /\ Arrive(r, c, [Start("cancel", "cancel", c) EXCEPT !.uid = admins[x.orig]])
  <2> DEFINE u == admins[x.orig]
             h == [Start("cancel", "cancel", c) EXCEPT !.uid = u]
  <2>0. u \in 0..Len(users) /\ u # 0 /\ u \in Uids
    <3>1. x.orig \in 1..Len(admins)
      BY <1>1, <1>7 DEF SessionIds
    <3> QED
      BY <1>1, <3>1 DEF TypeInv, DbOK
  <2>2. Arrive(r, c, h)
    BY <1>7
  <2> HIDE DEF u
  <2>1. /\ h \in Request /\ h.pc = "cancel" /\ h.op = "cancel" /\ h.c = c
        /\ h.lost = FALSE /\ h.out = {} /\ h.uid = u
    BY <1>1, <2>0 DEF Start, Request, Pcs, Ops, z
  <2> HIDE DEF h
  <2> QED
    BY <1>2, <1>7, <2>0, <2>1, <2>2 DEF HandlerKind
<1> QED
  BY <1>3, <1>4, <1>5, <1>6, <1>7 DEF Call

LEMMA LogoutKeeps ==
  ASSUME ConstantsAssumption, TypeInv, NEW r \in Reqs, NEW c \in Conns, Logout(r, c)
  PROVE  Keeps
<1> DEFINE y == sess[c]
           x == Cleared(y)
           h == [Start("save", "logout", c) EXCEPT !.sid = y.sid, !.out = {Serialize(x)}]
<1>1. /\ y \in Session /\ SessionIds(y, Len(users), Len(admins)) /\ y.sid \in Sids
      /\ MaxUsers \in Nat /\ DbOK /\ Len(users) \in Nat
  BY DEF TypeInv, DbOK, ConstantsAssumption, Session
<1>2. /\ x \in Session /\ SessionIds(x, Len(users), Len(admins)) /\ x.sid = y.sid
      /\ x.sudo = y.sudo /\ x.orig = y.orig /\ x.isAdmin = FALSE /\ x.cookie = NoTel
      /\ x.user = 0
  <2>1. NewSession(y.sid) \in Session /\ SessionIds(NewSession(y.sid), Len(users), Len(admins))
    BY <1>1, NewSessionType
  <2> QED
    BY <1>1, <2>1 DEF Cleared, NewSession, Session, SessionIds
<1>3. /\ UNCHANGED <<users, shop, admins, once, candidate, rows, conn, late, unsent>>
      /\ sess' = [sess EXCEPT ![c] = x] /\ req' = [req EXCEPT ![r] = h]
      /\ req[r].pc = "idle" /\ conn[c] = "open" /\ active' = active \ {c}
      /\ crossed' = IF Crosses(c, "logout") THEN crossed \cup {y.sid} ELSE crossed
      /\ mixed' = IF Mixes(c, "logout") THEN mixed \cup {y.sid} ELSE mixed
      /\ overtaken' = IF \E q \in Reqs : req[q].c = c /\ Enters(req[q])
                      THEN overtaken \cup {c} ELSE overtaken \ {c}
  BY DEF Logout, Record, db, boot
<1> HIDE DEF x
<1>4. /\ Serialize(x) \in Saved /\ SavedIds(Serialize(x), Len(users), Len(admins))
      /\ Image(Serialize(x), x)
  BY <1>2, SerializeType
<1>5. /\ h \in Request /\ HandlerIds(h, Len(users), Len(admins)) /\ HandlerKind(h)
      /\ h.pc = "save" /\ h.op = "logout" /\ h.c = c /\ h.sid = y.sid /\ h.out = {Serialize(x)}
      /\ h.lost = FALSE
  <2>1. (CHOOSE s \in Sids : TRUE) \in Sids /\ 0 \in Uids /\ 0 \in 0..Len(users)
    BY <1>1 DEF ConstantsAssumption, Uids
  <2>2. /\ h \in Request /\ h.pc = "save" /\ h.op = "logout" /\ h.c = c /\ h.sid = y.sid
        /\ h.out = {Serialize(x)} /\ h.lost = FALSE /\ h.uid = 0
    BY <1>1, <1>4, <2>1 DEF Start, Request, Pcs, Ops
  <2> HIDE DEF h
  <2> QED
    BY <1>4, <2>1, <2>2 DEF HandlerKind, HandlerIds, Loading
<1> HIDE DEF h
<1>6. TypeInv'
  <2>1. DbOK' /\ HistoriesOK' /\ Len(users) <= Len(users') /\ Len(admins) <= Len(admins')
    BY <1>1, <1>3 DEF TypeInv, DbOK, HistoriesOK
  <2>2. /\ rows' \in [Sids -> SUBSET Saved] /\ conn' \in [Conns -> {"closed", "opening", "open"}]
        /\ \A s \in Sids : \A w \in rows'[s] : SavedIds(w, Len(users'), Len(admins'))
        /\ SessionIds(x, Len(users'), Len(admins')) /\ HandlerIds(h, Len(users'), Len(admins'))
    BY <1>2, <1>3, <1>5 DEF TypeInv
  <2> QED
    BY <1>1, <1>2, <1>3, <1>5, <2>1, <2>2, TouchType
<1>7. /\ Only(r, c) /\ req'[r] = h /\ sess'[c] = x /\ crossed \subseteq crossed'
      /\ mixed \subseteq mixed' /\ \A q \in Reqs : HandlerKind(req[q])
  BY <1>3 DEF Only, TypeInv
<1>8. ASSUME ActiveInv PROVE ActiveInv'
  <2>1. ~Enters(h) /\ c \notin active' /\ active' \subseteq active
    BY <1>3, <1>5 DEF Enters
  <2>2. /\ \A d \in Conns \ {c} : d \in overtaken => d \in overtaken'
        /\ \A q \in Reqs : req[q].c = c /\ Enters(req[q]) => c \in overtaken'
    BY <1>3
  <2> QED
    BY <1>3, <1>5, <1>6, <1>7, <1>8, <2>1, <2>2, ActiveBegin
<1>9. ASSUME SudoInv PROVE SudoInv'
  <2>1. y.sid \notin mixed' => (x.sudo => x.orig # 0)
    BY <1>2, <1>7, <1>9 DEF SudoInv, PowersOK
  <2>2. ASSUME y.sid \notin mixed', NEW q \in Reqs, req[q].c = c PROVE req[q].pc # "sudo"
    <3>1. ~Mixes(c, "logout")
      BY <1>3, <2>2
    <3>2. req[q].pc = "sudo" => req[q].op = "sudo"
      BY <1>7 DEF HandlerKind
    <3> QED
      BY <2>2, <3>1, <3>2 DEF Mixes, InFlight
  <2>3. \A w \in h.out : h.sid = x.sid /\ Image(w, x)
    BY <1>2, <1>4, <1>5
  <2> QED
    BY <1>2, <1>3, <1>5, <1>7, <1>9, <2>1, <2>2, <2>3, SudoBegin
<1>10. ASSUME CodeInv PROVE CodeInv'
  <2>1. Matches(x) /\ \A w \in h.out : h.sid = x.sid /\ Image(w, x)
    BY <1>2, <1>4, <1>5 DEF Matches
  <2>2. ASSUME NEW q \in Reqs \ {r}, req[q].c = c
        PROVE  NumberOK(req[q], x) \/ x.sid \in crossed'
    <3>1. SUFFICES ASSUME ~Crosses(c, "logout") PROVE NumberOK(req[q], x)
      BY <1>2, <1>3
    <3>2. req[q].op \in {"prelogin", "login", "fast"} => req[q].pc = "save"
      BY <2>2, <3>1 DEF Crosses, InFlight
    <3>3. HandlerKind(req[q])
      BY <1>7
    <3> QED
      BY <3>2, <3>3 DEF HandlerKind, NumberOK
  <2>3. \A q \in Reqs : ~Clash(req[q], h) /\ ~Clash(h, req[q])
    BY <1>5 DEF Clash, Changing, Numbering
  <2>4. h.pc \notin {"send", "find", "add", "merchant", "admin", "verify"}
    BY <1>5
  <2> QED
    BY <1>2, <1>3, <1>5, <1>7, <1>10, <2>1, <2>2, <2>3, <2>4, CodeBegin
<1> QED
  BY <1>6, <1>8, <1>9, <1>10 DEF Keeps

\* A recovery begins, on an open connection or on one without a session.
LEMMA RecoveryKeeps ==
  ASSUME ConstantsAssumption, TypeInv, NEW r \in Reqs, NEW c \in Conns, req[r].pc = "idle",
         NEW x \in Session, SessionIds(x, Len(users), Len(admins)),
         NEW h \in Request, h.c = c, h.lost = FALSE, h.out = {}, h.uid \in 0..Len(users),
         h.pc \in {"info", "life", "token"}, h.op \in {"again", "token", "recover", "cookie"},
         h.pc \in {"info", "token"} => h.uid # 0, h.pc = "token" => h.op = "token",
         h.pc = "info" => x.user # 0,
         sess' = [sess EXCEPT ![c] = x], req' = [req EXCEPT ![r] = h],
         UNCHANGED <<users, shop, admins, once, candidate, rows, active, late, unsent,
                     crossed, mixed>>,
         \/ conn[c] = "open" /\ UNCHANGED <<conn, overtaken>> /\ x = sess[c]
         \/ New(c) /\ conn' = [conn EXCEPT ![c] = "opening"] /\ overtaken' = overtaken \ {c},
         \/ x = sess[c]
         \/ /\ x.isAdmin = FALSE
            /\ \E w \in rows[x.sid] : /\ x.sudo = w.sudo /\ (w.sudo => x.orig = w.orig)
                                      /\ x.tel = w.tel /\ x.cookie = w.cookie
  PROVE  Keeps
<1>0. MaxUsers \in Nat /\ x.sid \in Sids
  BY DEF ConstantsAssumption, Session
<1>1. HandlerIds(h, Len(users), Len(admins)) /\ HandlerKind(h)
  BY DEF HandlerIds, Loading, HandlerKind
<1>2. TypeInv'
  <2>1. DbOK' /\ HistoriesOK' /\ Len(users) <= Len(users') /\ Len(admins) <= Len(admins')
    BY DEF TypeInv, DbOK, HistoriesOK
  <2>2. /\ rows' \in [Sids -> SUBSET Saved] /\ conn' \in [Conns -> {"closed", "opening", "open"}]
        /\ \A s \in Sids : \A w \in rows'[s] : SavedIds(w, Len(users'), Len(admins'))
        /\ SessionIds(x, Len(users'), Len(admins')) /\ HandlerIds(h, Len(users'), Len(admins'))
    BY <1>1 DEF TypeInv
  <2> QED
    BY <1>0, <1>1, <2>1, <2>2, TouchType
<1>3. Only(r, c) /\ req'[r] = h /\ sess'[c] = x
  BY DEF Only, TypeInv
<1>4. x = sess[c] \/ \A q \in Reqs : req[q].c # c
  BY Working DEF New, Busy
<1>5. ASSUME ActiveInv PROVE ActiveInv'
  <2>1. Enters(h) => x.user # 0
    BY DEF Enters
  <2>2. CASE conn[c] = "open" /\ UNCHANGED <<conn, overtaken>> /\ x = sess[c]
    BY <1>2, <1>3, <1>5, <2>1, <2>2, ActiveBegin
  <2>3. CASE New(c) /\ conn' = [conn EXCEPT ![c] = "opening"] /\ overtaken' = overtaken \ {c}
    <3>1. /\ conn'[c] = "opening" /\ \A d \in Conns \ {c} : conn'[d] = conn[d]
          /\ ~Busy(c) /\ c \notin active' /\ \A q \in Reqs : req[q].c # c
      BY <2>3, Working DEF TypeInv, New, Busy
    <3> QED
      BY <1>2, <1>3, <1>5, <2>1, <2>3, <3>1, ActiveBegin
  <2> QED
    BY <2>2, <2>3
<1>6. ASSUME SudoInv PROVE SudoInv'
  <2>1. x.sid \notin mixed' => (x.sudo => x.orig # 0) /\ (x.isAdmin => x.admin # 0)
    BY <1>0, <1>6 DEF SudoInv, PowersOK, SavedSudo
  <2>2. \A q \in Reqs : req[q].c = c => x = sess[c]
    BY <1>4
  <2> QED
    BY <1>3, <1>6, <2>1, <2>2, SudoBegin
<1>7. ASSUME CodeInv PROVE CodeInv'
  <2>1. Matches(x) \/ Excused(x.sid) \/ x = sess[c]
    BY <1>0, <1>7 DEF CodeInv, SavedCode, Matches
  <2>2. \A q \in Reqs : req[q].c = c => x = sess[c] /\ NumberOK(req[q], x)
    BY <1>4, <1>7 DEF CodeInv, My
  <2>3. \A q \in Reqs : ~Clash(req[q], h) /\ ~Clash(h, req[q])
    BY DEF Clash, Changing, Numbering
  <2>4. h.pc \notin {"send", "find", "add", "merchant", "admin", "verify"}
    OBVIOUS
  <2> QED
    BY <1>3, <1>7, <2>1, <2>2, <2>3, <2>4, CodeBegin
<1> QED
  BY <1>2, <1>5, <1>6, <1>7 DEF Keeps

LEMMA RecoveriesKeep ==
  ASSUME ConstantsAssumption, TypeInv, NEW r \in Reqs, NEW c \in Conns,
         \/ RecoverAgain(r, c)
         \/ \E u \in Uids : RecoverToken(r, c, u)
         \/ \E s \in Sids, op \in {"recover", "cookie"} : Recover(r, c, s, op)
  PROVE  Keeps
<1> DEFINE y == sess[c]
           z == CHOOSE s \in Sids : TRUE
<1>1. /\ y \in Session /\ SessionIds(y, Len(users), Len(admins)) /\ z \in Sids
      /\ sess = [sess EXCEPT ![c] = y] /\ 0..Len(users) \subseteq Uids
      /\ 0 \in Uids /\ Len(users) \in Nat /\ MaxUsers \in Nat /\ DbOK
  BY IdsInBounds DEF TypeInv, DbOK, ConstantsAssumption, Uids
<1> HIDE DEF z
<1>2. CASE RecoverAgain(r, c)
  <2> DEFINE h == [Start("info", "again", c) EXCEPT !.uid = y.user]
  <2>1. y.user \in 0..Len(users) /\ y.user \in Uids /\ y.user # 0
    BY <1>1, <1>2 DEF SessionIds, RecoverAgain
  <2>2. /\ h \in Request /\ h.pc = "info" /\ h.op = "again" /\ h.c = c
        /\ h.lost = FALSE /\ h.out = {} /\ h.uid = y.user
    BY <1>1, <2>1 DEF Start, Request, Pcs, Ops, z
  <2>3. /\ UNCHANGED <<users, shop, admins, once, candidate, rows, active, late, unsent,
                       crossed, mixed, conn, overtaken>>
        /\ sess' = [sess EXCEPT ![c] = y] /\ req' = [req EXCEPT ![r] = h]
        /\ req[r].pc = "idle" /\ conn[c] = "open"
    BY <1>1, <1>2 DEF RecoverAgain, db, boot, races
  <2> HIDE DEF h
  <2> QED
    BY <1>1, <2>1, <2>2, <2>3, RecoveryKeeps
<1>3. ASSUME NEW u \in Uids, RecoverToken(r, c, u) PROVE Keeps
  <2> DEFINE h == [Start("token", "token", c) EXCEPT !.uid = u]
  <2>1. u \in 0..Len(users) /\ u # 0
    BY <1>1, <1>3 DEF RecoverToken
  <2>2. /\ h \in Request /\ h.pc = "token" /\ h.op = "token" /\ h.c = c
        /\ h.lost = FALSE /\ h.out = {} /\ h.uid = u
    BY <1>1 DEF Start, Request, Pcs, Ops, z
  <2>3. /\ UNCHANGED <<users, shop, admins, once, candidate, rows, active, late, unsent,
                       crossed, mixed>>
        /\ sess' = [sess EXCEPT ![c] = y] /\ req' = [req EXCEPT ![r] = h]
        /\ req[r].pc = "idle"
        /\ \/ conn[c] = "open" /\ UNCHANGED <<conn, overtaken>>
           \/ New(c) /\ conn' = [conn EXCEPT ![c] = "opening"] /\ overtaken' = overtaken \ {c}
    BY <1>1, <1>3 DEF RecoverToken, db, boot
  <2> HIDE DEF h
  <2> QED
    BY <1>1, <2>1, <2>2, <2>3, RecoveryKeeps
<1>4. ASSUME NEW s \in Sids, NEW op \in {"recover", "cookie"}, Recover(r, c, s, op) PROVE Keeps
  <2>1. PICK w \in rows[s] :
          /\ sess' = [sess EXCEPT ![c] = Deserialize(s, w)]
          /\ req' = [req EXCEPT ![r] =
               [Start(IF op = "cookie" /\ w.user # 0 THEN "info" ELSE "life", op, c)
                  EXCEPT !.uid = w.user, !.sid = s]]
    BY <1>4 DEF Recover
  <2> DEFINE x == Deserialize(s, w)
             pc == IF op = "cookie" /\ w.user # 0 THEN "info" ELSE "life"
             h == [Start(pc, op, c) EXCEPT !.uid = w.user, !.sid = s]
  <2>2. w \in Saved /\ SavedIds(w, Len(users), Len(admins)) /\ w.user \in 0..Len(users)
    BY DEF TypeInv, SavedIds
  <2>a. x = Deserialize(s, w)
    OBVIOUS
  <2> HIDE DEF x
  <2>3. x \in Session /\ SessionIds(x, Len(users), Len(admins)) /\ Loaded(x, w, s)
    BY <1>1, <2>2, <2>a, DeserializeType
  <2>4. /\ pc \in {"info", "life"} /\ (pc = "info" => w.user # 0) /\ pc \in Pcs /\ op \in Ops
        /\ op \in {"again", "token", "recover", "cookie"} /\ w.user \in Uids
    BY <1>1, <2>2 DEF Pcs, Ops
  <2>5. /\ sess' = [sess EXCEPT ![c] = x] /\ req' = [req EXCEPT ![r] = h]
        /\ UNCHANGED <<users, shop, admins, once, candidate, rows, active, late, unsent,
                       crossed, mixed>>
        /\ req[r].pc = "idle" /\ New(c)
        /\ conn' = [conn EXCEPT ![c] = "opening"] /\ overtaken' = overtaken \ {c}
    BY <1>4, <2>1, <2>a DEF Recover, db, boot
  <2> HIDE DEF pc
  <2>6. /\ h \in Request /\ h.pc = pc /\ h.op = op /\ h.c = c
        /\ h.lost = FALSE /\ h.out = {} /\ h.uid = w.user
    BY <1>1, <2>4 DEF Start, Request, z
  <2> HIDE DEF h
  <2>7. /\ h.pc \in {"info", "life", "token"} /\ h.op \in {"again", "token", "recover", "cookie"}
        /\ h.pc \in {"info", "token"} => h.uid # 0
        /\ h.pc = "token" => h.op = "token"
        /\ h.pc = "info" => x.user # 0
    BY <2>3, <2>4, <2>6 DEF Loaded
  <2>8. \E v \in rows[x.sid] : /\ x.sudo = v.sudo /\ (v.sudo => x.orig = v.orig)
                               /\ x.tel = v.tel /\ x.cookie = v.cookie
    BY <2>1, <2>3 DEF Loaded
  <2>9. x.isAdmin = FALSE
    BY <2>3 DEF Loaded
  <2> QED
    BY <2>2, <2>3, <2>5, <2>6, <2>7, <2>8, <2>9, RecoveryKeeps
<1> QED
  BY <1>2, <1>3, <1>4

\* A session begins or ends, and no handler has a part in it.
LEMMA ConnKeeps ==
  ASSUME ConstantsAssumption, TypeInv, NEW c \in Conns, NEW v \in {"open", "closed"},
         UNCHANGED <<users, shop, admins, once, candidate, req, unsent, crossed, mixed>>,
         sess' = sess \/ (~Busy(c) /\ \E s \in Sids : sess' = [sess EXCEPT ![c] = NewSession(s)]),
         \/ rows' = rows
         \/ \E s \in Sids : rows' = [rows EXCEPT ![s] = {Serialize(NewSession(s))}],
         conn' = [conn EXCEPT ![c] = v], active' = active \ {c},
         late \subseteq late', late' \subseteq late \cup {c},
         Busy(c) => c \in late' /\ v = "closed" /\ overtaken' = overtaken,
         overtaken' \in {overtaken, overtaken \ {c}}
  PROVE  Keeps
<1>0. MaxUsers \in Nat /\ \A s \in Sids :
        /\ NewSession(s) \in Session /\ SessionIds(NewSession(s), Len(users), Len(admins))
        /\ NewSession(s).sid = s /\ ~NewSession(s).sudo /\ ~NewSession(s).isAdmin
        /\ NewSession(s).cookie = NoTel
        /\ Serialize(NewSession(s)) \in Saved
        /\ SavedIds(Serialize(NewSession(s)), Len(users), Len(admins))
        /\ ~Serialize(NewSession(s)).sudo /\ Serialize(NewSession(s)).cookie = NoTel
  BY NewSessionType, SerializeType DEF TypeInv, ConstantsAssumption, NewSession, Serialize
<1>1. DbOK' /\ HistoriesOK'
  BY DEF TypeInv, DbOK, HistoriesOK
<1>2. /\ sess' \in [Conns -> Session]
      /\ \A d \in Conns : SessionIds(sess'[d], Len(users'), Len(admins'))
      /\ \A d \in Conns \ {c} : sess'[d] = sess[d]
      /\ \/ sess'[c] = sess[c]
         \/ ~Busy(c) /\ \E s \in Sids : sess'[c] = NewSession(s)
  BY <1>0 DEF TypeInv
<1>3. /\ rows' \in [Sids -> SUBSET Saved]
      /\ \A s \in Sids : \A w \in rows'[s] :
           w \in rows[s] \/ (~w.sudo /\ w.cookie = NoTel /\ SavedIds(w, Len(users), Len(admins)))
  BY <1>0 DEF TypeInv
<1>4. \A s \in Sids : \A w \in rows'[s] : SavedIds(w, Len(users'), Len(admins'))
  BY <1>3 DEF TypeInv
<1>5. /\ conn' \in [Conns -> {"closed", "opening", "open"}] /\ conn'[c] = v
      /\ \A d \in Conns \ {c} : conn'[d] = conn[d]
  BY DEF TypeInv
<1>6. TypeInv'
  BY <1>1, <1>2, <1>3, <1>4, <1>5 DEF TypeInv, SessionIds, SavedIds, HandlerIds, HandlerKind, Loading
<1>7. \A q \in Reqs : req[q].c = c => Busy(c) /\ sess'[c] = sess[c]
  BY <1>2, Working DEF Busy
<1>8. ASSUME ActiveInv PROVE ActiveInv'
  <2>1. ASSUME NEW d \in active'
        PROVE  /\ sess'[d].user = 0 => d \in overtaken'
               /\ conn'[d] = "closed" => d \in late'
    <3>1. d # c /\ d \in active /\ d \in Conns
      BY <2>1 DEF TypeInv, HistoriesOK
    <3> QED
      BY <1>2, <1>5, <1>8, <3>1 DEF ActiveInv, ActiveIsLoggedIn
  <2>2. ASSUME NEW q \in Reqs, NEW p \in Reqs, q # p, req[q].c = req[p].c, req[p].c \in Conns
        PROVE  conn'[req[p].c] # "opening"
    BY <1>5, <1>8, <2>2 DEF ActiveInv, Beside
  <2>3. ASSUME NEW q \in Reqs, req[q].c \in Conns
        PROVE  /\ Enters(req[q]) => sess'[req[q].c].user # 0 \/ req[q].c \in overtaken'
               /\ conn'[req[q].c] = "closed" => req[q].c \in late'
               /\ conn'[req[q].c] = "opening" /\ req[q].pc = "token" => req[q].c \notin active'
    <3>1. /\ Enters(req[q]) => sess[req[q].c].user # 0 \/ req[q].c \in overtaken
          /\ conn[req[q].c] = "closed" => req[q].c \in late
          /\ conn[req[q].c] = "opening" /\ req[q].pc = "token" => req[q].c \notin active
      BY <1>8, <2>3 DEF ActiveInv, My
    <3>2. CASE req[q].c = c
      BY <1>5, <1>7, <3>1, <3>2
    <3>3. CASE req[q].c # c
      BY <1>2, <1>5, <2>3, <3>1, <3>3
    <3> QED
      BY <3>2, <3>3
  <2> QED
    BY <2>1, <2>2, <2>3 DEF ActiveInv, ActiveIsLoggedIn, Beside, My, Enters
<1>9. \A q \in Reqs : req[q].c \in Conns => sess'[req[q].c] = sess[req[q].c]
  BY <1>2, <1>7
<1>10. ASSUME SudoInv PROVE SudoInv'
  <2>1. \A d \in Conns : PowersOK(sess'[d])
    BY <1>0, <1>2, <1>10 DEF SudoInv, PowersOK
  <2>2. \A s \in Sids : \A w \in rows'[s] : SavedSudo(w, s)
    BY <1>3, <1>10 DEF SudoInv, SavedSudo
  <2> QED
    BY <1>9, <1>10, <2>1, <2>2 DEF SudoInv, PowersOK, SavedSudo, Beside, My
<1>11. ASSUME CodeInv PROVE CodeInv'
  <2>1. \A d \in Conns : \/ Matches(sess'[d]) \/ Excused(sess'[d].sid)
                         \/ \E r \in Reqs : req[r].c = d /\ Midway(req[r])
    <3>1. \A s \in Sids : Matches(NewSession(s))
      BY <1>0 DEF Matches
    <3> QED
      BY <1>2, <1>11, <3>1 DEF CodeInv
  <2>2. \A s \in Sids : \A w \in rows'[s] : SavedCode(w, s)
    BY <1>3, <1>11 DEF CodeInv, SavedCode, Matches
  <2>3. \A r \in Reqs : req[r].c \in Conns => NumberOK(req[r], sess'[req[r].c])
    BY <1>9, <1>11 DEF CodeInv, My
  <2>4. \A q, r \in Reqs : Beside(q, r) /\ sess'[req[r].c].sid \notin crossed =>
          ~Clash(req[q], req[r])
    BY <1>9, <1>11 DEF CodeInv, My, Beside
  <2> QED
    BY <1>11, <2>1, <2>2, <2>3, <2>4 DEF CodeInv, Matches, SavedCode, Excused, NumberOK, Midway,
       Clash, Beside, My
<1> QED
  BY <1>6, <1>8, <1>10, <1>11 DEF Keeps

LEMMA OpenCloseKeeps ==
  ASSUME ConstantsAssumption, TypeInv, NEW c \in Conns,
         (\E s \in Sids : Allocate(c, s)) \/ Disconnect(c)
  PROVE  Keeps
<1>1. ASSUME NEW s \in Sids, Allocate(c, s) PROVE Keeps
  <2>1. /\ ~Busy(c) /\ active' = active \ {c} /\ "open" \in {"open", "closed"}
        /\ conn' = [conn EXCEPT ![c] = "open"] /\ overtaken' = overtaken \ {c}
        /\ late' = late /\ sess' = [sess EXCEPT ![c] = NewSession(s)]
        /\ rows' = [rows EXCEPT ![s] = {Serialize(NewSession(s))}]
        /\ UNCHANGED <<users, shop, admins, once, candidate, req, unsent, crossed, mixed>>
    BY <1>1 DEF Allocate, New, db, boot
  <2> QED
    BY <2>1, ConnKeeps
<1>2. CASE Disconnect(c)
  <2>1. /\ active' = active \ {c} /\ conn' = [conn EXCEPT ![c] = "closed"]
        /\ overtaken' = overtaken /\ rows' = rows /\ "closed" \in {"open", "closed"}
        /\ late \subseteq late' /\ late' \subseteq late \cup {c} /\ (Busy(c) => c \in late')
        /\ UNCHANGED <<users, shop, admins, once, candidate, req, unsent, crossed, mixed>>
    BY <1>2 DEF Disconnect, db, boot, races
  <2>2. sess[c].sid \in Sids
    BY DEF TypeInv, Session
  <2>3. sess' = sess \/ (~Busy(c) /\ \E s \in Sids : sess' = [sess EXCEPT ![c] = NewSession(s)])
    BY <1>2, <2>2 DEF Disconnect
  <2> QED
    BY <2>1, <2>3, ConnKeeps
<1> QED
  BY <1>1, <1>2

\* The api token is accepted, and the session of the connection replaced: the
\* other handlers of the connection are lost.
LEMMA TokenUserKeeps ==
  ASSUME ConstantsAssumption, TypeInv, NEW r \in Reqs, NEW s \in Sids, TokenUser(r, s)
  PROVE  Keeps
<1> DEFINE g == req[r]
           d == g.c
           x == [NewSession(s) EXCEPT !.user = g.uid]
<1>0. g.pc = "token" /\ MaxUsers \in Nat /\ DbOK
  BY DEF TokenUser, ConstantsAssumption, TypeInv
<1>1. /\ g \in Request /\ d \in Conns /\ HandlerIds(g, Len(users), Len(admins)) /\ g.op = "token"
      /\ g.uid \in 0..Len(users) /\ g.uid # 0 /\ g.uid \in Uids
  BY <1>0, AtWork, IdsInBounds DEF HandlerIds, HandlerKind
<1>2. /\ x \in Session /\ SessionIds(x, Len(users), Len(admins)) /\ x.user = g.uid /\ x.sid = s
      /\ x.sudo = FALSE /\ x.isAdmin = FALSE /\ x.cookie = NoTel
  <2>1. NewSession(s) \in Session /\ SessionIds(NewSession(s), Len(users), Len(admins))
    BY <1>0, NewSessionType
  <2> QED
    BY <1>1, <2>1 DEF NewSession, Session, SessionIds
<1>3. /\ UNCHANGED <<users, shop, admins, once, candidate, rows, conn, active, late, unsent,
                     crossed, mixed, overtaken>>
      /\ sess' = [sess EXCEPT ![d] = x]
      /\ req' = [q \in Reqs |->
                   IF q = r THEN [g EXCEPT !.pc = "tokenMerchant"]
                   ELSE [req[q] EXCEPT !.lost = req[q].lost \/ req[q].c = d]]
  BY DEF TokenUser, db, boot, races
<1> HIDE DEF x
<1>4. ASSUME NEW q \in Reqs
      PROVE  /\ req'[q] \in Request /\ req'[q].c = req[q].c /\ req'[q].op = req[q].op
             /\ req'[q].tel = req[q].tel /\ req'[q].code = req[q].code
             /\ req'[q].uid = req[q].uid /\ req'[q].sid = req[q].sid /\ req'[q].out = req[q].out
             /\ q = r => req'[q].pc = "tokenMerchant"
             /\ q # r => req'[q].pc = req[q].pc
             /\ q # r /\ req[q].c = d => req'[q].lost
             /\ req[q].c # d => req'[q].lost = req[q].lost
  <2>1. req[q] \in Request
    BY DEF TypeInv
  <2>2. CASE q = r
    <3>1. req'[q] = [g EXCEPT !.pc = "tokenMerchant"]
      BY <1>3, <2>2
    <3> QED
      BY <1>1, <2>2, <3>1 DEF Request, Pcs
  <2>3. CASE q # r
    <3> DEFINE b == req[q].lost \/ req[q].c = d
    <3>1. req'[q] = [req[q] EXCEPT !.lost = b]
      BY <1>3, <2>3
    <3>2. b \in BOOLEAN /\ (req[q].c = d => b) /\ (req[q].c # d => b = req[q].lost)
      BY <2>1 DEF Request
    <3> HIDE DEF b
    <3> QED
      BY <2>1, <2>3, <3>1, <3>2 DEF Request
  <2> QED
    BY <2>2, <2>3
<1>5. /\ sess' \in [Conns -> Session] /\ sess'[d] = x
      /\ \A c \in Conns \ {d} : sess'[c] = sess[c]
      /\ \A c \in Conns : SessionIds(sess'[c], Len(users'), Len(admins'))
  BY <1>1, <1>2, <1>3 DEF TypeInv
<1>6. TypeInv'
  <2>1. req' \in [Reqs -> Request]
    BY <1>3, <1>4
  <2>2. ASSUME NEW q \in Reqs
        PROVE  HandlerIds(req'[q], Len(users'), Len(admins')) /\ HandlerKind(req'[q])
    <3>1. HandlerIds(req[q], Len(users), Len(admins)) /\ HandlerKind(req[q])
      BY DEF TypeInv
    <3>2. CASE q = r
      BY <1>1, <1>3, <1>4, <3>1, <3>2 DEF HandlerIds, HandlerKind, Loading
    <3>3. CASE q # r
      <4> DEFINE k == req'[q]
      <4>1. /\ k.c = req[q].c /\ k.op = req[q].op /\ k.uid = req[q].uid /\ k.out = req[q].out
            /\ k.pc = req[q].pc /\ Len(users') = Len(users) /\ Len(admins') = Len(admins)
        BY <1>3, <1>4, <3>3
      <4> HIDE DEF k
      <4>2. HandlerIds(k, Len(users), Len(admins))
        BY <3>1, <4>1 DEF HandlerIds
      <4>3. HandlerKind(k)
        BY <3>1, <4>1 DEF HandlerKind
      <4> QED
        BY <4>1, <4>2, <4>3 DEF k
    <3> QED
      BY <3>2, <3>3
  <2>3. /\ DbOK' /\ HistoriesOK' /\ rows' \in [Sids -> SUBSET Saved]
        /\ conn' \in [Conns -> {"closed", "opening", "open"}]
        /\ \A t \in Sids : \A w \in rows'[t] : SavedIds(w, Len(users'), Len(admins'))
    BY <1>3 DEF TypeInv, DbOK, HistoriesOK
  <2> QED
    BY <1>5, <2>1, <2>2, <2>3 DEF TypeInv, SessionIds, SavedIds, HandlerIds, HandlerKind, Loading
<1>7. ASSUME ActiveInv PROVE ActiveInv'
  <2>1. \A c \in active' : /\ sess'[c].user = 0 => c \in overtaken'
                           /\ conn'[c] = "closed" => c \in late'
    BY <1>1, <1>2, <1>3, <1>5, <1>7 DEF ActiveInv, ActiveIsLoggedIn, TypeInv, HistoriesOK
  <2>2. ASSUME NEW q \in Reqs, NEW p \in Reqs, q # p, req'[q].c = req'[p].c, req'[p].c \in Conns
        PROVE  conn'[req'[p].c] # "opening"
    BY <1>3, <1>4, <1>7, <2>2 DEF ActiveInv, Beside
  <2>3. ASSUME NEW q \in Reqs, req'[q].c \in Conns
        PROVE  /\ Enters(req'[q]) => sess'[req'[q].c].user # 0 \/ req'[q].c \in overtaken'
               /\ conn'[req'[q].c] = "closed" => req'[q].c \in late'
               /\ conn'[req'[q].c] = "opening" /\ req'[q].pc = "token" => req'[q].c \notin active'
    <3>1. /\ Enters(req[q]) => sess[req[q].c].user # 0 \/ req[q].c \in overtaken
          /\ conn[req[q].c] = "closed" => req[q].c \in late
          /\ conn[req[q].c] = "opening" /\ req[q].pc = "token" => req[q].c \notin active
      BY <1>4, <1>7, <2>3 DEF ActiveInv, My
    <3>2. req'[q].pc = "token" => req[q].pc = "token"
      BY <1>4
    <3>3. CASE req[q].c = d
      BY <1>1, <1>2, <1>3, <1>4, <1>5, <3>1, <3>2, <3>3
    <3>4. CASE req[q].c # d
      <4>1. q # r /\ sess'[req[q].c] = sess[req[q].c]
        BY <1>4, <1>5, <2>3, <3>4
      <4>2. Enters(req'[q]) => Enters(req[q])
        BY <1>4, <3>4, <4>1 DEF Enters
      <4>3. req'[q].c = req[q].c /\ UNCHANGED <<conn, active, late, overtaken>>
        BY <1>3, <1>4
      <4> DEFINE k == req'[q]
      <4> HIDE DEF k
      <4>4. /\ k.c = req[q].c /\ (Enters(k) => Enters(req[q]))
            /\ k.pc = "token" => req[q].pc = "token"
        BY <3>2, <4>2, <4>3 DEF k
      <4>5. /\ Enters(k) => sess'[k.c].user # 0 \/ k.c \in overtaken'
            /\ conn'[k.c] = "closed" => k.c \in late'
            /\ conn'[k.c] = "opening" /\ k.pc = "token" => k.c \notin active'
        BY <3>1, <4>1, <4>3, <4>4
      <4> QED
        BY <4>5 DEF k
    <3> QED
      BY <3>3, <3>4
  <2> QED
    BY <2>1, <2>2, <2>3 DEF ActiveInv, ActiveIsLoggedIn, Beside, My, Enters
<1>8. ASSUME NEW q \in Reqs, req'[q].c \in Conns, ~req'[q].lost, q # r
      PROVE  /\ req[q].c # d /\ req[q].c \in Conns /\ req'[q].pc = req[q].pc /\ ~req[q].lost
             /\ sess'[req'[q].c] = sess[req[q].c]
  BY <1>4, <1>5, <1>8
<1>9. ASSUME SudoInv PROVE SudoInv'
  <2>1. \A c \in Conns : PowersOK(sess'[c])
    BY <1>1, <1>2, <1>5, <1>9 DEF SudoInv, PowersOK
  <2>2. \A q \in Reqs : \A w \in req'[q].out : SavedSudo(w, req'[q].sid)
    BY <1>4, <1>9 DEF SudoInv
  <2>3. ASSUME NEW q \in Reqs, req'[q].c \in Conns, ~req'[q].lost,
               sess'[req'[q].c].sid \notin mixed
        PROVE  /\ req'[q].pc = "sudo" => sess'[req'[q].c].admin # 0
               /\ req'[q].pc = "cancel" => sess'[req'[q].c].orig # 0
               /\ \A p \in Reqs : p # q /\ req'[p].c = req'[q].c /\ ~req'[p].lost =>
                    req'[q].pc \notin {"sudo", "cancel"} \/ req'[p].pc # req'[q].pc
    <3>1. CASE q = r
      BY <1>4, <3>1
    <3>2. CASE q # r
      <4>1. /\ req[q].c # d /\ req[q].c \in Conns /\ req'[q].pc = req[q].pc /\ ~req[q].lost
            /\ sess'[req'[q].c] = sess[req[q].c]
        BY <1>8, <2>3, <3>2
      <4>2. /\ req[q].pc = "sudo" => sess[req[q].c].admin # 0
            /\ req[q].pc = "cancel" => sess[req[q].c].orig # 0
            /\ \A p \in Reqs : Beside(p, q) /\ ~req[p].lost =>
                 req[q].pc \notin {"sudo", "cancel"} \/ req[p].pc # req[q].pc
        BY <1>9, <2>3, <4>1 DEF SudoInv, My
      <4>3. ASSUME NEW p \in Reqs, p # q, req'[p].c = req'[q].c, ~req'[p].lost
            PROVE  req[q].pc \notin {"sudo", "cancel"} \/ req'[p].pc # req[q].pc
        <5>1. p # r /\ req'[p].c \in Conns
          BY <1>4, <4>1, <4>3
        <5>2. req'[p].pc = req[p].pc /\ ~req[p].lost /\ req[p].c = req[q].c
          BY <1>4, <1>8, <4>3, <5>1
        <5> QED
          BY <4>1, <4>2, <4>3, <5>2 DEF Beside
      <4> QED
        BY <4>1, <4>2, <4>3
    <3> QED
      BY <3>1, <3>2
  <2> QED
    BY <1>3, <1>9, <2>1, <2>2, <2>3 DEF SudoInv, PowersOK, SavedSudo, Beside, My
<1>10. ASSUME CodeInv PROVE CodeInv'
  <2>1. ASSUME NEW c \in Conns
        PROVE  \/ Matches(sess'[c]) \/ Excused(sess'[c].sid)
               \/ \E q \in Reqs : req'[q].c = c /\ Midway(req'[q])
    <3>1. CASE c = d
      BY <1>2, <1>5, <3>1 DEF Matches
    <3>2. CASE c # d
      <4>1. \/ Matches(sess[c]) \/ Excused(sess[c].sid)
            \/ \E q \in Reqs : req[q].c = c /\ Midway(req[q])
        BY <1>10 DEF CodeInv
      <4>2. \A q \in Reqs : req[q].c = c /\ Midway(req[q]) => req'[q].c = c /\ Midway(req'[q])
        BY <1>4, <3>2 DEF Midway
      <4> QED
        BY <1>5, <3>2, <4>1, <4>2
    <3> QED
      BY <3>1, <3>2
  <2>2. \A q \in Reqs : \A w \in req'[q].out : SavedCode(w, req'[q].sid)
    BY <1>4, <1>10 DEF CodeInv
  <2>3. ASSUME NEW q \in Reqs, req'[q].c \in Conns PROVE NumberOK(req'[q], sess'[req'[q].c])
    <3>1. CASE q = r
      BY <1>4, <3>1 DEF NumberOK
    <3>2. CASE q # r /\ req'[q].lost
      BY <3>2 DEF NumberOK
    <3>3. CASE q # r /\ ~req'[q].lost
      <4>1. NumberOK(req[q], sess[req[q].c])
        BY <1>8, <1>10, <2>3, <3>3 DEF CodeInv, My
      <4> QED
        BY <1>4, <1>8, <2>3, <3>3, <4>1 DEF NumberOK
    <3> QED
      BY <3>1, <3>2, <3>3
  <2>4. ASSUME NEW q \in Reqs, NEW p \in Reqs, q # p, req'[q].c = req'[p].c, req'[p].c \in Conns,
               sess'[req'[p].c].sid \notin crossed
        PROVE  ~Clash(req'[q], req'[p])
    <3>1. CASE q = r \/ p = r
      BY <1>1, <1>4, <3>1 DEF Clash, Changing, Numbering
    <3>2. CASE q # r /\ p # r /\ req[p].c = d
      BY <1>4, <2>4, <3>2 DEF Clash
    <3>3. CASE q # r /\ p # r /\ req[p].c # d
      <4>1. ~Clash(req[q], req[p])
        BY <1>4, <1>5, <1>10, <2>4, <3>3 DEF CodeInv, Beside, My
      <4>2. req'[q].lost = req[q].lost /\ req'[p].lost = req[p].lost
        BY <1>4, <2>4, <3>3
      <4> QED
        BY <1>4, <3>3, <4>1, <4>2 DEF Clash
    <3> QED
      BY <3>1, <3>2, <3>3
  <2> QED
    BY <1>3, <1>10, <2>1, <2>2, <2>3, <2>4 DEF CodeInv, Matches, SavedCode, Excused, NumberOK,
       Midway, Clash, Beside, My
<1> QED
  BY <1>6, <1>7, <1>9, <1>10 DEF Keeps

\* The tables change besides, or the process is started again.
LEMMA TablesKeep ==
  ASSUME ConstantsAssumption, TypeInv,
         CheckAdmin \/ \E u \in Uids, st \in MerchantStates : SetMerchant(u, st)
  PROVE  Keeps
<1>0. /\ UNCHANGED <<users, rows, conn, sess, active, req, late, unsent, crossed, mixed, overtaken>>
      /\ MaxUsers \in Nat /\ Len(users) \in Nat /\ Len(admins) \in Nat
  BY DEF CheckAdmin, SetMerchant, races, ConstantsAssumption, TypeInv, DbOK
<1>1. DbOK' /\ Len(admins) <= Len(admins') /\ Len(admins') \in Nat
  <2>1. CASE CheckAdmin
    <3>1. candidate \in 1..Len(users) /\ UNCHANGED <<shop, once>> /\ candidate' = 0
      BY <1>0, <2>1 DEF CheckAdmin, TypeInv, DbOK
    <3>2. CASE admins = <<>>
      <4>1. admins' = <<candidate>>
        BY <2>1, <3>2 DEF CheckAdmin
      <4>2. Len(admins') = 1 /\ admins' \in Seq(1..Len(users')) /\ Len(admins) = 0
        BY <1>0, <3>1, <3>2, <4>1
      <4> QED
        BY <1>0, <3>1, <4>2 DEF TypeInv, DbOK
    <3>3. CASE admins # <<>>
      BY <1>0, <2>1, <3>1, <3>3 DEF CheckAdmin, TypeInv, DbOK
    <3> QED
      BY <3>2, <3>3
  <2>2. ASSUME NEW u \in Uids, NEW st \in MerchantStates, SetMerchant(u, st)
        PROVE  DbOK' /\ Len(admins) <= Len(admins') /\ Len(admins') \in Nat
    BY <1>0, <2>2 DEF SetMerchant, TypeInv, DbOK
  <2> QED
    BY <2>1, <2>2
<1>2. TypeInv'
  <2>1. /\ \A s \in Sids : \A w \in rows'[s] : SavedIds(w, Len(users'), Len(admins'))
        /\ \A c \in Conns : SessionIds(sess'[c], Len(users'), Len(admins'))
        /\ \A q \in Reqs : HandlerIds(req'[q], Len(users'), Len(admins')) /\ HandlerKind(req'[q])
    <3>1. Len(users') \in Nat /\ Len(users) <= Len(users')
      BY <1>0
    <3> QED
      BY <1>0, <1>1, <3>1, IdsStay DEF TypeInv
  <2>2. HistoriesOK'
    BY <1>0 DEF TypeInv, HistoriesOK
  <2> QED
    BY <1>0, <1>1, <2>1, <2>2 DEF TypeInv, SessionIds, SavedIds, HandlerIds, HandlerKind, Loading
<1> QED
  BY <1>0, <1>2, Quiet

\* Without handlers and connections the invariants say nothing but what the
\* rows have to be.
Stopped ==
  /\ DbOK /\ HistoriesOK /\ rows \in [Sids -> SUBSET Saved]
  /\ \A s \in Sids : \A w \in rows[s] : SavedIds(w, Len(users), Len(admins))
  /\ conn = [c \in Conns |-> "closed"] /\ active = {} /\ req = [r \in Reqs |-> Idle]
  /\ \E f \in [Conns -> Sids] : sess = [c \in Conns |-> NewSession(f[c])]

StoppedIsFine ==
  Stopped =>
    /\ TypeInv /\ ActiveInv
    /\ (\A s \in Sids : \A w \in rows[s] : SavedSudo(w, s)) => SudoInv
    /\ (\A s \in Sids : \A w \in rows[s] : SavedCode(w, s)) => CodeInv

LEMMA Alone == StoppedIsFine
<1> SUFFICES ASSUME Stopped PROVE StoppedIsFine
  BY DEF StoppedIsFine
<1> USE UsersAssumption
<1>0. MaxUsers \in Nat /\ Len(users) \in Nat /\ Len(admins) \in Nat /\ NoConn \notin Conns
  BY DEF ConstantsAssumption, Stopped, DbOK
<1>1. ASSUME NEW c \in Conns
      PROVE  /\ sess[c] \in Session /\ SessionIds(sess[c], Len(users), Len(admins))
             /\ ~sess[c].sudo /\ ~sess[c].isAdmin /\ sess[c].cookie = NoTel
  <2> PICK f \in [Conns -> Sids] : sess = [d \in Conns |-> NewSession(f[d])]
    BY DEF Stopped
  <2>1. f[c] \in Sids /\ sess[c] = NewSession(f[c])
    OBVIOUS
  <2>2. sess[c] \in Session /\ SessionIds(sess[c], Len(users), Len(admins))
    BY <1>0, <2>1, NewSessionType DEF Stopped
  <2> QED
    BY <2>1, <2>2 DEF NewSession
<1>2. ASSUME NEW r \in Reqs
      PROVE  /\ req[r] \in Request /\ HandlerIds(req[r], Len(users), Len(admins))
             /\ HandlerKind(req[r]) /\ req[r].c \notin Conns /\ req[r].out = {}
  <2>1. req[r] = Idle
    BY DEF Stopped
  <2> QED
    BY <1>0, <2>1, IdleType
<1>3. TypeInv
  <2>1. sess \in [Conns -> Session] /\ req \in [Reqs -> Request]
    BY <1>1, <1>2 DEF Stopped
  <2> QED
    BY <1>1, <1>2, <2>1 DEF TypeInv, Stopped
<1>4. ActiveInv
  BY <1>2 DEF ActiveInv, ActiveIsLoggedIn, Beside, Stopped
<1>5. (\A s \in Sids : \A w \in rows[s] : SavedSudo(w, s)) => SudoInv
  BY <1>1, <1>2 DEF SudoInv, PowersOK
<1>6. (\A s \in Sids : \A w \in rows[s] : SavedCode(w, s)) => CodeInv
  BY <1>1, <1>2 DEF CodeInv, Matches, Beside
<1> QED
  BY <1>3, <1>4, <1>5, <1>6 DEF StoppedIsFine

LEMMA RestartKeeps ==
  ASSUME TypeInv, Restart
  PROVE  Keeps
<1>1. StoppedIsFine'
  BY Alone, PTL
<1>2. /\ UNCHANGED <<users, shop, admins, rows, unsent, crossed, mixed>>
      /\ once' = FALSE /\ candidate' = 0 /\ late' = {} /\ overtaken' = {} /\ active' = {}
      /\ conn' = [c \in Conns |-> "closed"] /\ req' = [r \in Reqs |-> Idle]
      /\ sess' = [c \in Conns |-> NewSession(sess[c].sid)]
  BY DEF Restart, db
<1>3. Stopped'
  <2>1. DbOK' /\ HistoriesOK'
    <3>1. 0 \in 0..Len(users)
      BY DEF TypeInv, DbOK
    <3> QED
      BY <1>2, <3>1 DEF TypeInv, DbOK, HistoriesOK
  <2>2. \E f \in [Conns -> Sids] : sess' = [c \in Conns |-> NewSession(f[c])]
    <3> DEFINE f == [c \in Conns |-> sess[c].sid]
    <3>1. f \in [Conns -> Sids]
      BY DEF TypeInv, Session
    <3>2. sess' = [c \in Conns |-> NewSession(f[c])]
      BY <1>2
    <3> QED
      BY <3>1, <3>2
  <2>3. /\ rows' \in [Sids -> SUBSET Saved]
        /\ \A s \in Sids : \A w \in rows'[s] : SavedIds(w, Len(users'), Len(admins'))
    BY <1>2 DEF TypeInv
  <2> QED
    BY <1>2, <2>1, <2>2, <2>3 DEF Stopped, NewSession, Idle, Start, SavedIds
<1>4. TypeInv' /\ ActiveInv'
  BY <1>1, <1>3 DEF StoppedIsFine
<1>5. ASSUME SudoInv PROVE SudoInv'
  <2>1. \A s \in Sids : \A w \in rows'[s] : SavedSudo(w, s)'
    BY <1>2, <1>5 DEF SudoInv, SavedSudo
  <2> QED
    BY <1>1, <1>3, <2>1 DEF StoppedIsFine
<1>6. ASSUME CodeInv PROVE CodeInv'
  <2>1. \A s \in Sids : \A w \in rows'[s] : SavedCode(w, s)'
    BY <1>2, <1>6 DEF CodeInv, SavedCode, Matches, Excused
  <2> QED
    BY <1>1, <1>3, <2>1 DEF StoppedIsFine
<1> QED
  BY <1>4, <1>5, <1>6 DEF Keeps

-----------------------------------------------------------------------------
(* The theorems *)

LEMMA SessionInit ==
  ASSUME Init
  PROVE  TypeInv /\ ActiveInv /\ SudoInv /\ CodeInv
<1> USE UsersAssumption
<1>1. PICK s \in Sids : sess = [c \in Conns |-> NewSession(s)]
  BY DEF Init
<1>2. DbOK /\ HistoriesOK
  <2>0. Len(Registered) \in Nat /\ ConstantsAssumption
    BY DEF ConstantsAssumption
  <2>1. once \in BOOLEAN
    BY DEF Init
  <2>2. candidate \in 0..Len(users) /\ shop \in [Uids -> MerchantStates]
    BY <2>0 DEF Init, MerchantStates
  <2>3. DbOK
    BY <2>0, <2>1, <2>2 DEF ConstantsAssumption, Init, DbOK
  <2> QED
    BY <2>3 DEF Init, HistoriesOK
<1>3. ASSUME NEW t \in Sids, NEW w \in rows[t]
      PROVE  /\ SavedIds(w, Len(users), Len(admins)) /\ SavedSudo(w, t) /\ SavedCode(w, t)
  BY DEF Init, ConstantsAssumption, SavedIds, SavedSudo, SavedCode, Matches
<1>4. \E f \in [Conns -> Sids] : sess = [c \in Conns |-> NewSession(f[c])]
  <2> DEFINE f == [c \in Conns |-> s]
  <2>1. f \in [Conns -> Sids] /\ sess = [c \in Conns |-> NewSession(f[c])]
    BY <1>1
  <2> QED
    BY <2>1
<1>5. Stopped
  BY <1>2, <1>3, <1>4 DEF Stopped, Init, ConstantsAssumption
<1> QED
  BY <1>3, <1>5, Alone DEF StoppedIsFine

LEMMA SessionStep ==
  ASSUME TypeInv, [Next]_vars
  PROVE  Keeps
<1> USE UsersAssumption
<1>1. ASSUME NEW r \in Reqs, Step(r) PROVE Keeps
  BY <1>1, StepKeeps, TokenUserKeeps
<1>2. ASSUME NEW r \in Reqs, NEW c \in Conns,
             \/ Call(r, c) \/ Logout(r, c) \/ RecoverAgain(r, c)
             \/ \E u \in Uids : RecoverToken(r, c, u)
             \/ \E s \in Sids, op \in {"recover", "cookie"} : Recover(r, c, s, op)
      PROVE  Keeps
  BY <1>2, CallKeeps, LogoutKeeps, RecoveriesKeep
<1>3. ASSUME NEW c \in Conns, (\E s \in Sids : Allocate(c, s)) \/ Disconnect(c)
      PROVE  Keeps
  BY <1>3, OpenCloseKeeps
<1>4. CASE UNCHANGED vars
  <2>1. TypeInv'
    BY <1>4 DEF vars, TypeInv, DbOK, HistoriesOK, SessionIds, SavedIds, HandlerIds, HandlerKind
  <2> QED
    BY <1>4, <2>1, Quiet DEF vars
<1> QED
  BY <1>1, <1>2, <1>3, <1>4, TablesKeep, RestartKeeps DEF Next

\* Each invariant is inductive beside the type invariant.
LEMMA SessionInvariants ==
  Spec => [](TypeInv /\ ActiveInv /\ SudoInv /\ CodeInv)
<1> DEFINE All == TypeInv /\ ActiveInv /\ SudoInv /\ CodeInv
<1>1. Init => All
  BY SessionInit
<1>2. All /\ [Next]_vars => All'
  BY SessionStep DEF Keeps
<1> QED
  BY <1>1, <1>2, PTL DEF Spec

\* Every id that a session, a handler or a row of cmall_session keeps is the id
\* of a row that exists, also when load_user_info goes on after a logout.
THEOREM SessionTypes == Spec => []TypeOK
<1>1. TypeInv => TypeOK
  <2> SUFFICES ASSUME TypeInv PROVE TypeOK
    OBVIOUS
  <2>1. \A r \in Reqs : req[r].pc # "idle" => req[r].c \in Conns
    BY DEF TypeInv, HandlerIds
  <2> QED
    BY <2>1 DEF TypeInv, DbOK, HistoriesOK, SessionIds, SavedIds, TypeOK
<1> QED
  BY <1>1, SessionInvariants, PTL

\* active_users holds connections that are logged in and open, however the
\* calls of a connection overlap, but for a handler that was in flight when its
\* connection closed and for a login or a recovery that a logout overtook.
THEOREM ActiveUsersAreLoggedIn == Spec => []ActiveIsLoggedIn
<1>1. ActiveInv => ActiveIsLoggedIn
  BY DEF ActiveInv
<1> QED
  BY <1>1, SessionInvariants, PTL

\* A session in sudo mode knows the administrator to go back to, in memory and
\* in its row, although update_lifetime writes older rows back, unless calls of
\* admin_sudo or admin_sudo_cancel met on one connection, or a logout came
\* between the steps of admin_sudo.
THEOREM SudoCanGoBack == Spec => []SudoHasOrigin
<1>1. SudoInv => SudoHasOrigin
  BY DEF SudoInv, PowersOK, SavedSudo, SudoHasOrigin
<1> QED
  BY <1>1, SessionInvariants, PTL

\* verify_telephone and verify_session_cookie of a session belong together, in
\* memory, in a login under way and in the row, unless a call failed between
\* the two, is between them, or overlapped one that depends on them.
THEOREM CodesBelongToNumbers == Spec => []CodeBelongsToNumber
<1>1. TypeInv /\ CodeInv => CodeBelongsToNumber
  <2> SUFFICES ASSUME TypeInv, CodeInv PROVE CodeBelongsToNumber
    OBVIOUS
  <2> USE UsersAssumption
  <2>1. ASSUME NEW r \in Reqs, Midway(req[r])
        PROVE  req[r].op \in {"prelogin", "fast"} /\ req[r].pc # "save"
    BY <2>1 DEF Midway, TypeInv, HandlerKind
  <2>2. ASSUME NEW c \in Conns, sess[c].cookie \notin {NoTel, sess[c].tel}
        PROVE  Excused(sess[c].sid) \/ InFlight(c, {"prelogin", "fast"})
    BY <2>1, <2>2 DEF CodeInv, Matches, InFlight
  <2>3. ASSUME NEW r \in Reqs, req[r].op = "login",
               req[r].pc \in {"find", "add", "merchant", "admin"}
        PROVE  req[r].code = req[r].tel \/ req[r].lost \/ Excused(My(r).sid)
    <3>1. req[r].c \in Conns
      BY <2>3, Working
    <3> QED
      BY <2>3, <3>1 DEF CodeInv, NumberOK, My
  <2> QED
    BY <2>2, <2>3 DEF CodeInv, SavedCode, Matches, CodeBelongsToNumber
<1> QED
  BY <1>1, SessionInvariants, PTL

-----------------------------------------------------------------------------
(* Verify codes *)

\* The inductive invariant of the map: pruge_thread wakes before an entry is
\* older than the lifetime and one sleep.
WakesInTime ==
  /\ VC!TypeOK
  /\ \A e \in stor : wake < e.at + Lifetime + PurgeEvery

\* Entries have a time.
LEMMA EntryTimes ==
  ASSUME VC!TypeOK
  PROVE  /\ \A e \in issued : e.at \in Nat
         /\ \A e \in stor : e.at \in Nat
  BY DEF VC!TypeOK, VC!Entries

\* A new entry has a cookie that no entry had, and the time of now.
LEMMA NewEntry ==
  ASSUME VC!TypeOK, NEW s \in Senders, NEW k \in Cookies, NEW v \in Codes,
         VC!Put(s, k, v)
  PROVE  LET e == [key |-> k, value |-> v, at |-> now]
         IN  /\ e \in VC!Entries /\ e.key = k /\ e.at = now
             /\ stor' = stor \cup {e} /\ issued' = issued \cup {e}
             /\ \A d \in issued : d.key # k
<1> DEFINE e == [key |-> k, value |-> v, at |-> now]
<1>1. now \in Nat
  BY DEF VC!TypeOK
<1>2. e \in VC!Entries /\ e.key = k /\ e.at = now
  BY <1>1 DEF VC!Entries
<1> QED
  BY <1>2 DEF VC!Put

\* Every step keeps the invariant.
LEMMA CodesStep ==
  ASSUME VC!ConstantsAssumption, WakesInTime, [VC!Next]_(VC!vars)
  PROVE  WakesInTime'
<1> USE DEF VC!ConstantsAssumption
<1>1. VC!TypeOK /\ now \in Nat /\ wake \in Nat /\ oldest \in Nat
  BY DEF WakesInTime, VC!TypeOK
<1>2. CASE UNCHANGED VC!vars
  BY <1>2 DEF VC!vars, WakesInTime, VC!TypeOK
<1>3. ASSUME NEW s \in Senders, NEW t \in Tels \cup {NoTel},
             sending' = [sending EXCEPT ![s] = t],
             UNCHANGED <<now, stor, wake, issued, oldest>>
      PROVE  WakesInTime'
  BY <1>3 DEF WakesInTime, VC!TypeOK
<1>4. ASSUME NEW s \in Senders, NEW k \in Cookies, NEW v \in Codes, VC!Put(s, k, v)
      PROVE  WakesInTime'
  <2> DEFINE e == [key |-> k, value |-> v, at |-> now]
  <2>1. /\ e \in VC!Entries /\ e.key = k /\ e.at = now
        /\ stor' = stor \cup {e} /\ issued' = issued \cup {e}
        /\ \A d \in issued : d.key # k
    BY <1>1, <1>4, NewEntry
  <2> HIDE DEF e
  <2>2. \A c, d \in issued' : c.key = d.key => c = d
    BY <1>1, <2>1 DEF VC!TypeOK
  <2>3. /\ UNCHANGED <<now, wake, oldest>>
        /\ sending' \in [Senders -> Tels \cup {NoTel}]
    BY <1>1, <1>4 DEF VC!Put, VC!TypeOK
  <2>4. VC!TypeOK'
    BY <1>1, <2>1, <2>2, <2>3 DEF VC!TypeOK
  <2>5. wake < e.at + Lifetime + PurgeEvery
    BY <1>1, <2>1 DEF VC!TypeOK
  <2> QED
    BY <2>1, <2>3, <2>4, <2>5 DEF WakesInTime
<1>5. ASSUME NEW k \in Cookies, NEW v \in Codes, VC!Verify(k, v) PROVE WakesInTime'
  <2>1. UNCHANGED <<now, stor, wake, sending, issued>>
    BY <1>5 DEF VC!Verify
  <2>2. PICK e \in stor : oldest' = IF now - e.at > oldest THEN now - e.at ELSE oldest
    BY <1>5 DEF VC!Verify
  <2>3. oldest' \in Nat
    BY <1>1, <2>2, EntryTimes
  <2> QED
    BY <2>1, <2>3 DEF WakesInTime, VC!TypeOK
<1>6. CASE VC!Purge
  <2> DEFINE old == {e \in stor : e.at <= now - Lifetime}
  <2>1. /\ stor' = stor \ old /\ wake' = IF old = {} THEN now + PurgeEvery ELSE now
        /\ UNCHANGED <<now, sending, issued, oldest>>
    BY <1>6 DEF VC!Purge
  <2>2. \A e \in stor' : e \in stor /\ e.at > now - Lifetime
    BY <1>1, <2>1, EntryTimes
  <2> HIDE DEF old
  <2>3. wake' \in Nat /\ wake' <= now + PurgeEvery
    BY <1>1, <2>1
  <2>4. ASSUME NEW e \in stor' PROVE wake' < e.at + Lifetime + PurgeEvery
    <3>1. e.at \in Nat /\ e.at > now - Lifetime
      BY <1>1, <2>2, EntryTimes
    <3> QED
      BY <1>1, <2>3, <3>1
  <2> QED
    BY <1>1, <2>1, <2>3, <2>4 DEF WakesInTime, VC!TypeOK
<1>7. CASE VC!Tick
  <2>1. now' = now + 1 /\ UNCHANGED <<stor, wake, sending, issued, oldest>>
    BY <1>7 DEF VC!Tick
  <2> QED
    BY <1>1, <2>1 DEF WakesInTime, VC!TypeOK
<1> QED
  BY <1>2, <1>3, <1>4, <1>5, <1>6, <1>7 DEF VC!Next, VC!SendSms, VC!SendFails

\* Every step of the map is a step of ExpiringStore, or none.
LEMMA CodesRefine ==
  ASSUME VC!ConstantsAssumption, WakesInTime, [VC!Next]_(VC!vars)
  PROVE  [VC!Store!Next]_(VC!Store!vars)
<1> USE DEF VC!ConstantsAssumption
<1>1. VC!TypeOK /\ now \in Nat /\ wake \in Nat
  BY DEF WakesInTime, VC!TypeOK
<1>2. CASE UNCHANGED <<now, stor, oldest>>
  BY <1>2 DEF VC!Store!vars
<1>3. ASSUME NEW s \in Senders, NEW k \in Cookies, NEW v \in Codes, VC!Put(s, k, v)
      PROVE  VC!Store!Next
  <2>1. /\ stor' = stor \cup {[key |-> k, value |-> v, at |-> now]}
        /\ \A d \in issued : d.key # k
    BY <1>1, <1>3, NewEntry
  <2>2. ~\E e \in stor : e.key = k
    BY <1>1, <2>1 DEF VC!TypeOK
  <2>3. VC!Store!Put(k, v)
    BY <1>3, <2>1, <2>2 DEF VC!Put, VC!Store!Put
  <2> QED
    BY <2>3 DEF VC!Store!Next
<1>4. ASSUME NEW k \in Cookies, NEW v \in Codes, VC!Verify(k, v)
      PROVE  VC!Store!Next
  BY <1>4 DEF VC!Verify, VC!Store!Next, VC!Store!Read, VC!Store!Age
<1>5. CASE VC!Purge
  <2> DEFINE old == {e \in stor : e.at <= now - Lifetime}
  <2>1. stor' = stor \ old /\ UNCHANGED <<now, oldest>>
    BY <1>5 DEF VC!Purge
  <2>2. \A e \in old : now - e.at >= Lifetime
    BY <1>1, EntryTimes
  <2>3. old \in SUBSET stor
    OBVIOUS
  <2> HIDE DEF old
  <2> QED
    BY <2>1, <2>2, <2>3 DEF VC!Store!Next, VC!Store!Expire, VC!Store!Age
<1>6. CASE VC!Tick
  <2>1. now < wake /\ now' = now + 1 /\ UNCHANGED <<stor, oldest>>
    BY <1>6 DEF VC!Tick
  <2>2. ASSUME NEW e \in stor PROVE now - e.at + 1 < Lifetime + PurgeEvery
    <3>1. e.at \in Nat /\ wake < e.at + Lifetime + PurgeEvery
      BY <1>1, EntryTimes DEF WakesInTime
    <3> QED
      BY <1>1, <2>1, <3>1
  <2> QED
    BY <2>1, <2>2 DEF VC!Store!Next, VC!Store!Tick, VC!Store!Age
<1> QED
  BY <1>2, <1>3, <1>4, <1>5, <1>6
     DEF VC!Next, VC!vars, VC!SendSms, VC!SendFails

\* The invariant of the map of codes holds in every reachable state.
LEMMA CodesInvariant == VC!ConstantsAssumption /\ VC!Spec => []WakesInTime
<1> SUFFICES ASSUME VC!ConstantsAssumption PROVE VC!Spec => []WakesInTime
  OBVIOUS
<1>1. VC!Init => WakesInTime
  BY DEF VC!ConstantsAssumption, VC!Init, WakesInTime, VC!TypeOK
<1>2. WakesInTime /\ [VC!Next]_(VC!vars) => WakesInTime'
  BY CodesStep
<1> QED
  BY <1>1, <1>2, PTL DEF VC!Spec

\* utility::timedmap implements ExpiringStore: a code can be used for its
\* whole lifetime and never longer than one sleep of pruge_thread after it,
\* however puts, reads, rounds of the coroutine and ticks follow each other.
THEOREM CodesAreAnExpiringStore == VC!Spec => StoreSpec
<1> USE UsersAssumption
<1>1. VC!Init => VC!Store!Init
  BY DEF VC!Init, VC!Store!Init
<1>2. WakesInTime /\ [VC!Next]_(VC!vars) => [VC!Store!Next]_(VC!Store!vars)
  BY CodesRefine
<1>3. VC!Spec => []WakesInTime
  BY CodesInvariant
<1> QED
  BY <1>1, <1>2, <1>3, PTL DEF VC!Spec, StoreSpec, VC!StoreSpec, VC!Store!Spec
=============================================================================
