------------------------------- MODULE Session -------------------------------
(***************************************************************************)
(* Who a connection speaks for: client_session in memory, its row in       *)
(* cmall_session, and the calls that change them: recovery by session id   *)
(* or api token, user_prelogin, user_login, user_fastlogin, user_logout,   *)
(* admin_sudo and admin_sudo_cancel, with the table active_users.          *)
(*                                                                         *)
(* Every connection has a copy of its own of the session, also when two    *)
(* connections use one session id; the row is written by save, whose       *)
(* content is taken before the write is queued, and by update_lifetime,    *)
(* which writes what it has read. A call waits for the database or for the *)
(* sms gateway between its steps, and the others go on meanwhile, those of *)
(* its own connection too: do_ws_read starts a coroutine for every call.   *)
(***************************************************************************)
EXTENDS Naturals, Sequences

CONSTANTS
  Conns,      \* connections
  Sids,       \* session ids
  Tels,       \* telephone numbers
  NoTel,      \* the empty number
  MaxUsers,   \* bound: rows of cmall_user
  Enabled,    \* the calls clients make
  MaxCalls,   \* bound: calls made
  Registered, \* cmall_user when the server is started
  Appointed,  \* administrators when the server is started
  Traders,    \* the merchants in cmall_merchant when the server is started
  Kept,       \* cmall_session when the server is started
  Reqs,       \* slots: how many handlers run at the same time
  NoConn      \* the connection of a slot that is not in use

Uids == 0..MaxUsers   \* 0 is the empty optional

\* merchant_state_t, disabled and banned in one, and "none" without a row
MerchantStates == {"none", "normal", "disabled"}

VARIABLES
  users,     \* cmall_user: active_phone by uid_
  shop,      \* cmall_merchant: state_ by uid_
  admins,    \* administrators: the user by uid_, which is an auto id
  rows,      \* cmall_session: the one saved session, or none, by session id
  conn,      \* "closed", "opening" (session_info is loaded) or "open"
  sess,      \* session_info of a connection
  active,    \* active_users: its connections
  req,       \* the handlers in flight
  calls,     \* how many calls were made
  once,      \* check_admin_flag
  candidate, \* the user the detached check for administrators was spawned for
  late,      \* history: connections that closed while a handler was in flight
  unsent,    \* history: sessions in which a call failed that had changed
             \* verify_telephone
  crossed,   \* history: sessions in which the number or the code was changed
             \* beside a call that depends on it
  mixed,     \* history: sessions in which admin_sudo or admin_sudo_cancel met
             \* itself or a logout
  overtaken  \* history: connections with a logout that a login or a recovery
             \* did not notice

db == <<users, shop, admins>>
boot == <<once, candidate>>
races == <<crossed, mixed, overtaken>>
vars == <<users, shop, admins, rows, conn, sess, active, req, calls,
          once, candidate, late, unsent, crossed, mixed, overtaken>>

Session ==
  [user: Uids, merchant: Uids, admin: Uids, isAdmin: BOOLEAN,
   tel: Tels \cup {NoTel}, cookie: Tels \cup {NoTel},
   sudo: BOOLEAN, orig: Uids, sid: Sids]

\* client_session(): all optionals are empty
NewSession(s) ==
  [user |-> 0, merchant |-> 0, admin |-> 0, isAdmin |-> FALSE,
   tel |-> NoTel, cookie |-> NoTel, sudo |-> FALSE, orig |-> 0, sid |-> s]

\* The columns save writes. A cookie stands for the number its code went to.
Saved == [user: Uids, tel: Tels \cup {NoTel}, cookie: Tels \cup {NoTel},
          sudo: BOOLEAN, orig: Uids]

Serialize(x) == [user |-> x.user, tel |-> x.tel, cookie |-> x.cookie,
                 sudo |-> x.sudo, orig |-> x.orig]

\* persist_session::load: original_user only comes back in sudo mode.
Deserialize(s, w) ==
  [NewSession(s) EXCEPT !.user = w.user, !.tel = w.tel, !.cookie = w.cookie,
                        !.sudo = w.sudo, !.orig = IF w.sudo THEN w.orig ELSE 0]

ConstantsAssumption ==
  /\ Sids # {} /\ MaxUsers \in Nat /\ NoTel \notin Tels /\ NoConn \notin Conns
  /\ MaxCalls \in Nat
  /\ Registered \in Seq(Tels) /\ Len(Registered) <= MaxUsers
  /\ Appointed \in Seq(1..Len(Registered)) /\ Len(Appointed) <= 1
  /\ Traders \subseteq 1..Len(Registered)
  /\ Kept \in [Sids -> SUBSET Saved]
  /\ \A s \in Sids : \A w \in Kept[s] :
       /\ w.user \in 0..Len(Registered) /\ w.orig \in 0..Len(Appointed)
       /\ w.sudo => w.orig # 0
       /\ w.cookie \in {NoTel, w.tel}

Ops == {"none", "recover", "cookie", "again", "token", "prelogin", "login",
        "fast", "logout", "sudo", "cancel"}
Pcs == {"idle", "life", "lifeWrite", "info", "infoMerchant", "infoAdmin",
        "infoOrig", "token", "tokenMerchant", "tokenAdmin", "banned", "send",
        "verify", "fast", "find", "add", "merchant", "admin", "sudo", "cancel",
        "save"}

\* code: the cookie that user_login verifies; sid: the row of save and of
\* update_lifetime; lost: the session that session_info refers to is not that
\* of the connection any more
Request == [pc: Pcs, op: Ops, c: Conns \cup {NoConn}, tel: Tels \cup {NoTel},
            code: Tels \cup {NoTel}, uid: Uids, sid: Sids, lost: BOOLEAN,
            out: SUBSET Saved]

Busy(c) == \E r \in Reqs : req[r].pc # "idle" /\ req[r].c = c

Start(pc, op, c) ==
  [pc |-> pc, op |-> op, c |-> c, tel |-> NoTel, code |-> NoTel, uid |-> 0,
   sid |-> CHOOSE s \in Sids : TRUE, lost |-> FALSE, out |-> {}]

Idle == Start("idle", "none", NoConn)

Finish(r) == req' = [req EXCEPT ![r] = Idle]
Goto(r, pc) == req' = [req EXCEPT ![r].pc = pc]

My(r) == sess[req[r].c]

\* async_load<administrators> by the id of a user has found a row or not.
AsAdmin(x, u) ==
  IF u <= Len(admins) THEN [x EXCEPT !.admin = u, !.isAdmin = TRUE] ELSE x

\* What r's assignments to session_info make of the session of its connection
Assigned(r, x) == IF req[r].lost THEN My(r) ELSE x

\* The session of r's connection becomes x and its save is queued.
QueueSave(r, x) ==
  /\ sess' = [sess EXCEPT ![req[r].c] = x]
  /\ req' = [req EXCEPT ![r].pc = "save", ![r].out = {Serialize(x)},
                        ![r].sid = x.sid]

-----------------------------------------------------------------------------
(* Histories: a call of kind op begins beside others of its connection. *)

\* A call of one of these kinds will still change or save the session.
InFlight(c, ops) ==
  \E r \in Reqs : req[r].c = c /\ req[r].op \in ops /\ req[r].pc # "save"

Crosses(c, op) ==
  \/ /\ op \in {"prelogin", "fast", "logout"}
     /\ InFlight(c, {"prelogin", "login", "fast"})
  \/ op = "login" /\ InFlight(c, {"prelogin", "fast"})
  \/ op \in {"prelogin", "fast"} /\ InFlight(c, {"sudo", "cancel"})
  \/ op \in {"sudo", "cancel"} /\ InFlight(c, {"prelogin", "fast"})

Mixes(c, op) ==
  \/ op \in {"sudo", "logout"} /\ InFlight(c, {"sudo"})
  \/ op = "cancel" /\ InFlight(c, {"cancel"})

Record(c, op) ==
  /\ crossed' = IF Crosses(c, op) THEN crossed \cup {sess[c].sid} ELSE crossed
  /\ mixed' = IF Mixes(c, op) THEN mixed \cup {sess[c].sid} ELSE mixed

\* A handler will enter its connection into active_users, and does not set
\* user_info before.
Enters(h) ==
  \/ h.pc \in {"info", "infoMerchant", "infoAdmin", "infoOrig"}
  \/ h.op \in {"login", "fast"} /\ (h.lost \/ h.pc \in {"merchant", "admin", "save"})

-----------------------------------------------------------------------------
(* Connections *)

\* gen_uuid: an id nobody uses
Fresh(s) ==
  /\ rows[s] = {}
  /\ \A d \in Conns : sess[d].sid = s => conn[d] = "closed" /\ ~Busy(d)
  /\ \A r \in Reqs : req[r].pc = "save" => req[r].sid # s

\* A connection that has no session yet
New(c) == conn[c] = "closed" /\ c \notin active /\ ~Busy(c)

\* alloca_sessionid: a first visit, or an id that is not in the table.
Allocate(c, s) ==
  /\ New(c) /\ Fresh(s)
  /\ conn' = [conn EXCEPT ![c] = "open"]
  /\ sess' = [sess EXCEPT ![c] = NewSession(s)]
  /\ rows' = [rows EXCEPT ![s] = {Serialize(NewSession(s))}]
  /\ overtaken' = overtaken \ {c}
  /\ UNCHANGED <<calls, db, active, req, boot, late, unsent, crossed, mixed>>

\* The session of recover_session's sessionid or of a cookie is loaded. The
\* former goes on with update_lifetime, the latter with load_user_info. No
\* other call is read before it is done.
Recover(r, c, s, op) ==
  /\ calls < MaxCalls /\ calls' = calls + 1
  /\ req[r].pc = "idle" /\ New(c)
  /\ \E w \in rows[s] :
       /\ sess' = [sess EXCEPT ![c] = Deserialize(s, w)]
       /\ req' = [req EXCEPT ![r] =
            [Start(IF op = "cookie" /\ w.user # 0 THEN "info" ELSE "life",
                   op, c) EXCEPT !.uid = w.user, !.sid = s]]
  /\ conn' = [conn EXCEPT ![c] = "opening"]
  /\ overtaken' = overtaken \ {c}
  /\ UNCHANGED <<db, rows, active, boot, late, unsent, crossed, mixed>>

\* The handler ends, and its connection has a session.
Done(r) ==
  /\ Finish(r)
  /\ conn' = [conn EXCEPT ![req[r].c] = IF @ = "opening" THEN "open" ELSE @]

\* update_lifetime: a query without a lock, and the row with its content is
\* written back.
LifeRead(r) ==
  /\ req[r].pc = "life"
  /\ req' = [req EXCEPT ![r].pc = "lifeWrite", ![r].out = rows[req[r].sid]]
  /\ UNCHANGED <<calls, db, rows, conn, sess, active, boot, late, unsent, races>>

LifeWrite(r) ==
  /\ req[r].pc = "lifeWrite"
  /\ rows' = [rows EXCEPT ![req[r].sid] = req[r].out]
  /\ IF req[r].op = "recover" /\ My(r).user # 0
     THEN req' = [req EXCEPT ![r].pc = "info", ![r].uid = My(r).user]
          /\ UNCHANGED conn
     ELSE Done(r)
  /\ UNCHANGED <<calls, db, sess, active, boot, late, unsent, races>>

\* recover_session on a connection that has a session already: load_user_info
\* once more, beside other calls.
RecoverAgain(r, c) ==
  /\ calls < MaxCalls /\ calls' = calls + 1
  /\ req[r].pc = "idle" /\ conn[c] = "open" /\ sess[c].user # 0
  /\ req' = [req EXCEPT ![r] = [Start("info", "again", c)
                                  EXCEPT !.uid = sess[c].user]]
  /\ UNCHANGED <<db, rows, conn, sess, active, boot, late, unsent, races>>

\* recover_session with the api token of a merchant, on a connection with or
\* without a session.
RecoverToken(r, c, u) ==
  /\ "token" \in Enabled /\ calls < MaxCalls /\ calls' = calls + 1
  /\ req[r].pc = "idle" /\ u \in 1..Len(users) /\ shop[u] # "none"
  /\ \/ /\ New(c) /\ conn' = [conn EXCEPT ![c] = "opening"]
        /\ overtaken' = overtaken \ {c}
     \/ conn[c] = "open" /\ UNCHANGED <<conn, overtaken>>
  /\ req' = [req EXCEPT ![r] = [Start("token", "token", c)
                                  EXCEPT !.uid = u]]
  /\ UNCHANGED <<db, rows, sess, active, boot, late, unsent, crossed, mixed>>

\* The user is loaded and a new session, which has no row, replaces the one
\* there was: the handlers that refer to that change it in vain. active_users
\* is left alone.
TokenUser(r, s) ==
  /\ req[r].pc = "token" /\ Fresh(s)
  /\ sess' = [sess EXCEPT ![req[r].c] = [NewSession(s) EXCEPT !.user = req[r].uid]]
  /\ req' = [q \in Reqs |->
               IF q = r THEN [req[r] EXCEPT !.pc = "tokenMerchant"]
               ELSE [req[q] EXCEPT !.lost = req[q].lost \/ req[q].c = req[r].c]]
  /\ UNCHANGED <<calls, db, rows, conn, active, boot, late, unsent, races>>

TokenMerchant(r) ==
  /\ req[r].pc = "tokenMerchant" /\ Goto(r, "tokenAdmin")
  /\ sess' = [sess EXCEPT ![req[r].c].merchant =
                IF shop[req[r].uid] # "none" THEN req[r].uid ELSE @]
  /\ UNCHANGED <<calls, db, rows, conn, active, boot, late, unsent, races>>

TokenAdmin(r) ==
  /\ req[r].pc = "tokenAdmin" /\ Done(r)
  /\ sess' = [sess EXCEPT ![req[r].c] = AsAdmin(@, req[r].uid)]
  /\ UNCHANGED <<calls, db, rows, active, boot, late, unsent, races>>

\* user_info->uid_, or what is left there when a logout has emptied user_info
UidOf(x) == IF x.user # 0 THEN {x.user} ELSE 1..Len(users)

\* async_load<cmall_user> of load_user_info finds the row, for users are never
\* removed, and writes it over user_info as that is now.
LoadUser(r) ==
  /\ req[r].pc = "info"
  /\ LET x == IF My(r).user # 0
              THEN Assigned(r, [My(r) EXCEPT !.user = req[r].uid]) ELSE My(r)
     IN  /\ sess' = [sess EXCEPT ![req[r].c] = x]
         /\ \E u \in UidOf(x) :
              req' = [req EXCEPT ![r].pc = "infoMerchant", ![r].uid = u]
  /\ UNCHANGED <<calls, db, rows, conn, active, boot, late, unsent, races>>

\* async_load<cmall_merchant>: its state_ is not looked at.
LoadMerchantInfo(r) ==
  /\ req[r].pc = "infoMerchant"
  /\ sess' = [sess EXCEPT ![req[r].c].merchant =
                IF shop[req[r].uid] # "none" THEN req[r].uid ELSE @]
  /\ \E u \in UidOf(My(r)) :
       req' = [req EXCEPT ![r].pc = "infoAdmin", ![r].uid = u]
  /\ UNCHANGED <<calls, db, rows, conn, active, boot, late, unsent, races>>

\* The end of load_user_info, which a cookie's recovery goes on after
EnterActive(r) ==
  /\ active' = active \cup {req[r].c}
  /\ IF req[r].op = "cookie" THEN Goto(r, "life") /\ UNCHANGED conn ELSE Done(r)

\* async_load<administrators>; in sudo mode original_user is next, of which an
\* administrator is left when it is empty.
LoadAdminInfo(r) ==
  /\ req[r].pc = "infoAdmin"
  /\ sess' = [sess EXCEPT ![req[r].c] = AsAdmin(@, req[r].uid)]
  /\ IF My(r).sudo
     THEN /\ \E o \in 1..Len(admins) :
               /\ My(r).orig \in {0, o}
               /\ req' = [req EXCEPT ![r].pc = "infoOrig", ![r].uid = o]
          /\ UNCHANGED <<active, conn>>
     ELSE EnterActive(r)
  /\ UNCHANGED <<calls, db, rows, boot, late, unsent, races>>

LoadOriginal(r) ==
  /\ req[r].pc = "infoOrig" /\ EnterActive(r)
  /\ sess' = [sess EXCEPT ![req[r].c].orig = req[r].uid]
  /\ UNCHANGED <<calls, db, rows, boot, late, unsent, races>>

\* client_connected ends and client_disconnected erases the connection from
\* active_users. The handlers in flight hold the connection and go on; a
\* cookie is recovered by client_connected itself.
Disconnect(c) ==
  /\ conn[c] # "closed"
  /\ \A r \in Reqs : req[r].op = "cookie" => req[r].c # c
  /\ conn' = [conn EXCEPT ![c] = "closed"]
  /\ active' = active \ {c}
  /\ late' = IF Busy(c) THEN late \cup {c} ELSE late
  /\ sess' = IF Busy(c) THEN sess
             ELSE [sess EXCEPT ![c] = NewSession(sess[c].sid)]
  /\ UNCHANGED <<calls, db, rows, req, boot, unsent, races>>

-----------------------------------------------------------------------------
(* Calls: ensure_login and the tests of handle_jsonrpc_call *)

Arrive(r, c, x) ==
  /\ calls < MaxCalls /\ calls' = calls + 1
  /\ req[r].pc = "idle" /\ conn[c] = "open"
  /\ req' = [req EXCEPT ![r] = x]
  /\ Record(c, x.op)
  /\ UNCHANGED <<db, rows, conn, sess, active, boot, late, unsent, overtaken>>

Call(r, c) ==
  \/ \E t \in Tels :
       /\ "prelogin" \in Enabled
       /\ Arrive(r, c, [Start("banned", "prelogin", c) EXCEPT !.tel = t])
  \/ /\ sess[c].cookie # NoTel
     /\ Arrive(r, c, [Start("verify", "login", c) EXCEPT !.code = sess[c].cookie])
  \/ "fast" \in Enabled /\ Arrive(r, c, Start("fast", "fast", c))
  \/ \E u \in 1..Len(users) :
       /\ "sudo" \in Enabled
       /\ sess[c].user # 0 /\ sess[c].isAdmin /\ u # sess[c].user
       /\ Arrive(r, c, [Start("sudo", "sudo", c) EXCEPT !.uid = u])
  \/ /\ sess[c].sudo /\ sess[c].orig # 0
     /\ Arrive(r, c, [Start("cancel", "cancel", c) EXCEPT
                        !.uid = admins[sess[c].orig]])

\* user_prelogin: the user of the number may be banned, which throws;
\* otherwise verify_telephone is set before the code is sent.
CheckBanned(r) ==
  /\ req[r].pc = "banned"
  /\ \/ Finish(r) /\ UNCHANGED sess
     \/ /\ sess' = [sess EXCEPT ![req[r].c] =
                       Assigned(r, [@ EXCEPT !.tel = req[r].tel])]
        /\ Goto(r, "send")
  /\ UNCHANGED <<calls, db, rows, conn, active, boot, late, unsent, races>>

\* send_verify_code returns the cookie of a code sent to the number, or
\* throws and leaves the cookie of an earlier number in the session.
SendCode(r) ==
  /\ req[r].pc = "send"
  /\ \/ /\ QueueSave(r, Assigned(r, [My(r) EXCEPT !.cookie = req[r].tel]))
        /\ UNCHANGED unsent
     \/ /\ Finish(r) /\ unsent' = unsent \cup {My(r).sid}
        /\ UNCHANGED sess
  /\ UNCHANGED <<calls, db, rows, conn, active, boot, late, races>>

\* verify_verify_code: invalid_verify_code, or the number that
\* verify_telephone holds now is logged in. A session that was replaced may
\* hold anything.
VerifyCode(r) ==
  /\ req[r].pc = "verify"
  /\ \/ Finish(r)
     \/ \E t \in Tels \cup {NoTel} :
          /\ req[r].lost \/ t = My(r).tel
          /\ req' = [req EXCEPT ![r].pc = "find", ![r].tel = t]
  /\ UNCHANGED <<calls, db, rows, conn, sess, active, boot, late, unsent, races>>

\* user_fastlogin: the gateway names a number, or none: internal_server_error.
FastLogin(r) ==
  /\ req[r].pc = "fast"
  /\ \/ Finish(r) /\ UNCHANGED sess
     \/ \E t \in Tels :
          /\ sess' = [sess EXCEPT ![req[r].c] = Assigned(r, [@ EXCEPT !.tel = t])]
          /\ req' = [req EXCEPT ![r].pc = "find", ![r].tel = t]
  /\ UNCHANGED <<calls, db, rows, conn, active, boot, late, unsent, races>>

\* handle_user_login: the query for active_phone, whose index is not unique. A
\* new user gets the number verify_telephone of the connection holds now.
FindUser(r) ==
  /\ req[r].pc = "find"
  /\ \/ \E u \in 1..Len(users) :
          /\ users[u] = req[r].tel
          /\ sess' = [sess EXCEPT ![req[r].c] = Assigned(r, [@ EXCEPT !.user = u])]
          /\ req' = [req EXCEPT ![r].pc = "merchant", ![r].uid = u]
     \/ /\ \A u \in 1..Len(users) : users[u] # req[r].tel
        /\ req' = [req EXCEPT ![r].pc = "add", ![r].tel = My(r).tel]
        /\ UNCHANGED sess
  /\ UNCHANGED <<calls, db, rows, conn, active, boot, late, unsent, races>>

\* A merchant that is not normal is not loaded here.
LoginMerchant(r) ==
  /\ req[r].pc = "merchant"
  /\ sess' = [sess EXCEPT ![req[r].c] = IF shop[req[r].uid] = "normal"
                THEN Assigned(r, [@ EXCEPT !.merchant = req[r].uid]) ELSE @]
  /\ Goto(r, "admin")
  /\ UNCHANGED <<calls, db, rows, conn, active, boot, late, unsent, races>>

\* Mutant of LoginAdmin: verify_session_cookie is not reset.
LoginAdmin_KeepsCookie(r) ==
  /\ req[r].pc = "admin"
  /\ QueueSave(r, Assigned(r, AsAdmin(My(r), req[r].uid)))
  /\ UNCHANGED <<calls, db, rows, conn, active, boot, late, unsent, races>>

\* async_load<administrators> by the uid of the user; the code is used up.
LoginAdmin(r) ==
  /\ req[r].pc = "admin"
  /\ QueueSave(r, Assigned(r, [AsAdmin(My(r), req[r].uid) EXCEPT !.cookie = NoTel]))
  /\ UNCHANGED <<calls, db, rows, conn, active, boot, late, unsent, races>>

\* The new user is logged in through the connection, and the code used up.
NewUser(r) == [Assigned(r, [My(r) EXCEPT !.cookie = NoTel])
                 EXCEPT !.user = Len(users) + 1]

\* Mutant of AddUser: a lost insert is taken for done.
AddUser_NotStored(r) ==
  /\ req[r].pc = "add" /\ Len(users) < MaxUsers
  /\ QueueSave(r, NewUser(r))
  /\ UNCHANGED <<calls, db, rows, conn, active, boot, late, unsent, races>>

\* async_add of a new user. A connection lost after the commit has the row
\* inserted again.
AddUser(r) ==
  /\ req[r].pc = "add" /\ Len(users) < MaxUsers
  /\ users' = Append(users, req[r].tel)
  /\ \/ /\ QueueSave(r, NewUser(r))
        /\ candidate' = IF once THEN candidate ELSE Len(users) + 1
        /\ once' = TRUE
     \/ UNCHANGED <<sess, req, boot>>
  /\ UNCHANGED <<calls, shop, admins, rows, conn, active, late, unsent, races>>

\* The detached check: without administrators, the user becomes the first.
\* The id of the new row is the next of its own sequence.
CheckAdmin ==
  /\ candidate # 0
  /\ candidate' = 0
  /\ admins' = IF admins = <<>> THEN <<candidate>> ELSE admins
  /\ UNCHANGED <<calls, users, shop, rows, conn, sess, active, req, once, late,
                 unsent, races>>

\* client_session::clear, which leaves sudo_mode and original_user
Cleared(x) == [NewSession(x.sid) EXCEPT !.sudo = x.sudo, !.orig = x.orig]

\* Mutant of Logout: the entry in active_users stays.
Logout_StaysActive(r, c) ==
  /\ calls < MaxCalls /\ calls' = calls + 1
  /\ req[r].pc = "idle" /\ conn[c] = "open"
  /\ sess' = [sess EXCEPT ![c] = Cleared(@)]
  /\ req' = [req EXCEPT ![r] = [Start("save", "logout", c) EXCEPT
                   !.sid = sess[c].sid, !.out = {Serialize(Cleared(sess[c]))}]]
  /\ Record(c, "logout")
  /\ overtaken' = IF \E q \in Reqs : req[q].c = c /\ Enters(req[q])
                  THEN overtaken \cup {c} ELSE overtaken \ {c}
  /\ UNCHANGED <<db, rows, conn, active, boot, late, unsent>>

\* user_logout: out of active_users, then the session is cleared.
Logout(r, c) ==
  /\ calls < MaxCalls /\ calls' = calls + 1
  /\ req[r].pc = "idle" /\ conn[c] = "open"
  /\ active' = active \ {c}
  /\ sess' = [sess EXCEPT ![c] = Cleared(@)]
  /\ req' = [req EXCEPT ![r] = [Start("save", "logout", c) EXCEPT
                   !.sid = sess[c].sid, !.out = {Serialize(Cleared(sess[c]))}]]
  /\ Record(c, "logout")
  /\ overtaken' = IF \E q \in Reqs : req[q].c = c /\ Enters(req[q])
                  THEN overtaken \cup {c} ELSE overtaken \ {c}
  /\ UNCHANGED <<db, rows, conn, boot, late, unsent>>

\* Mutant of Sudo: admin_info is reset before it is copied.
Sudo_ResetsFirst(r) ==
  /\ req[r].pc = "sudo"
  /\ LET u == req[r].uid
     IN  QueueSave(r, Assigned(r, [My(r) EXCEPT
           !.orig = 0, !.admin = 0, !.isAdmin = FALSE,
           !.merchant = IF shop[u] # "none" THEN u ELSE 0,
           !.sudo = TRUE, !.user = u]))
  /\ UNCHANGED <<calls, db, rows, conn, active, boot, late, unsent, races>>

\* admin_sudo: the target and its merchant are loaded, then the session
\* changes to them and admin_info moves to original_user.
Sudo(r) ==
  /\ req[r].pc = "sudo"
  /\ LET u == req[r].uid
     IN  QueueSave(r, Assigned(r, [My(r) EXCEPT
           !.orig = My(r).admin, !.admin = 0, !.isAdmin = FALSE,
           !.merchant = IF shop[u] # "none" THEN u ELSE 0,
           !.sudo = TRUE, !.user = u]))
  /\ UNCHANGED <<calls, db, rows, conn, active, boot, late, unsent, races>>

\* admin_sudo_cancel, after the load of the administrator's merchant. When a
\* second cancel has emptied original_user meanwhile, its user is read from
\* what is left of it, and admin_info becomes empty.
SudoCancel(r) ==
  /\ req[r].pc = "cancel"
  /\ LET u == req[r].uid
     IN  QueueSave(r, Assigned(r, [My(r) EXCEPT
           !.isAdmin = TRUE, !.admin = My(r).orig, !.user = u, !.sudo = FALSE,
           !.merchant = IF shop[u] # "none" THEN u ELSE 0, !.orig = 0]))
  /\ UNCHANGED <<calls, db, rows, conn, active, boot, late, unsent, races>>

\* persist_session::save commits, or throws. After user_login the connection
\* is entered into active_users.
Save(r) ==
  /\ req[r].pc = "save"
  /\ \/ /\ rows' = [rows EXCEPT ![req[r].sid] = req[r].out]
        /\ active' = IF req[r].op \in {"login", "fast"}
                     THEN active \cup {req[r].c} ELSE active
     \/ UNCHANGED <<rows, active>>
  /\ Finish(r)
  /\ UNCHANGED <<calls, db, conn, sess, boot, late, unsent, races>>

\* A database call throws and the handler ends where it is. A session that
\* was being recovered is kept by a websocket and closed with an http client;
\* a token that was not accepted leaves a connection without a session.
Throws(r) ==
  /\ req[r].pc \notin {"idle", "send", "verify", "fast", "save"}
  /\ conn' = [conn EXCEPT ![req[r].c] =
                IF @ # "opening" THEN @
                ELSE IF req[r].op = "cookie" \/ req[r].pc = "token"
                THEN "closed" ELSE "open"]
  /\ active' = IF req[r].op = "cookie" THEN active \ {req[r].c} ELSE active
  /\ unsent' = IF req[r].op = "fast" THEN unsent \cup {My(r).sid} ELSE unsent
  /\ Finish(r)
  /\ UNCHANGED <<calls, db, rows, sess, boot, late, races>>

-----------------------------------------------------------------------------
\* The applications and the administrators of MerchantApply change the
\* merchants meanwhile.
SetMerchant(u, st) ==
  /\ "merchant" \in Enabled
  /\ u \in 1..Len(users) /\ st \in MerchantStates \ {"none"}
  /\ shop' = [shop EXCEPT ![u] = st]
  /\ UNCHANGED <<calls, users, admins, rows, conn, sess, active, req, once,
                 candidate, late, unsent, races>>

\* The process is started again: only the tables are left.
Restart ==
  /\ conn' = [c \in Conns |-> "closed"] /\ active' = {}
  /\ req' = [r \in Reqs |-> Idle]
  /\ sess' = [c \in Conns |-> NewSession(sess[c].sid)]
  /\ once' = FALSE /\ candidate' = 0 /\ late' = {} /\ overtaken' = {}
  /\ UNCHANGED <<calls, db, rows, unsent, crossed, mixed>>

Init ==
  /\ users = Registered /\ admins = Appointed /\ calls = 0
  /\ shop = [u \in Uids |-> IF u \in Traders THEN "normal" ELSE "none"]
  /\ rows = Kept
  /\ conn = [c \in Conns |-> "closed"]
  /\ active = {} /\ late = {} /\ unsent = {}
  /\ crossed = {} /\ mixed = {} /\ overtaken = {}
  /\ once = FALSE /\ candidate = 0
  /\ \E s \in Sids : sess = [c \in Conns |-> NewSession(s)]
  /\ req = [r \in Reqs |-> Idle]

Step(r) ==
  \/ LifeRead(r) \/ LifeWrite(r)
  \/ LoadUser(r) \/ LoadMerchantInfo(r) \/ LoadAdminInfo(r) \/ LoadOriginal(r)
  \/ (\E s \in Sids : TokenUser(r, s)) \/ TokenMerchant(r) \/ TokenAdmin(r)
  \/ CheckBanned(r) \/ SendCode(r) \/ VerifyCode(r) \/ FastLogin(r)
  \/ FindUser(r) \/ LoginMerchant(r) \/ LoginAdmin(r) \/ AddUser(r)
  \/ Sudo(r) \/ SudoCancel(r) \/ Save(r)
  \/ Throws(r)

Next ==
  \/ \E r \in Reqs : Step(r)
  \/ \E r \in Reqs, c \in Conns :
       \/ Call(r, c) \/ Logout(r, c) \/ RecoverAgain(r, c)
       \/ \E u \in Uids : RecoverToken(r, c, u)
       \/ \E s \in Sids, op \in {"recover", "cookie"} : Recover(r, c, s, op)
  \/ \E c \in Conns, s \in Sids : Allocate(c, s)
  \/ \E c \in Conns : Disconnect(c)
  \/ \E u \in Uids, st \in MerchantStates : SetMerchant(u, st)
  \/ CheckAdmin \/ Restart

Spec == Init /\ [][Next]_vars

-----------------------------------------------------------------------------
(* Properties *)

\* Type correctness, and every id kept in a session, in a handler or in a
\* row is the id of a row that exists.
TypeOK ==
  /\ users \in Seq(Tels \cup {NoTel}) /\ Len(users) <= MaxUsers
  /\ admins \in Seq(1..Len(users)) /\ Len(admins) <= 1
  /\ shop \in [Uids -> MerchantStates]
  /\ rows \in [Sids -> SUBSET Saved]
  /\ conn \in [Conns -> {"closed", "opening", "open"}]
  /\ sess \in [Conns -> Session]
  /\ active \subseteq Conns /\ late \subseteq Conns /\ overtaken \subseteq Conns
  /\ req \in [Reqs -> Request]
  /\ once \in BOOLEAN /\ candidate \in 0..Len(users)
  /\ unsent \subseteq Sids /\ crossed \subseteq Sids /\ mixed \subseteq Sids
  /\ \A r \in Reqs : req[r].pc # "idle" => req[r].c \in Conns
  /\ \A c \in Conns :
       /\ {sess[c].user, sess[c].merchant} \subseteq 0..Len(users)
       /\ {sess[c].admin, sess[c].orig} \subseteq 0..Len(admins)
  /\ \A s \in Sids : \A w \in rows[s] :
       w.user \in 0..Len(users) /\ w.orig \in 0..Len(admins)

\* active_users holds connections that are open and logged in, for its index
\* reads user_info of all of them. The exceptions: a login or a recovery that
\* was in flight when its connection closed enters it after
\* client_disconnected has erased it, and it stays; and one that had set or
\* found user_info already when a logout came does not notice.
ActiveIsLoggedIn ==
  \A c \in active : /\ sess[c].user = 0 => c \in overtaken
                    /\ conn[c] = "closed" => c \in late

\* A session in sudo mode knows the administrator to go back to, in memory
\* and in its row: load_user_info reads original_user when sudo_mode is set.
\* The exceptions: admin_sudo beside another one or beside a logout, and
\* admin_sudo_cancel beside another one, of one connection.
SudoHasOrigin ==
  /\ \A c \in Conns : sess[c].sudo => sess[c].orig # 0 \/ sess[c].sid \in mixed
  /\ \A s \in Sids : \A w \in rows[s] : w.sudo => w.orig # 0 \/ s \in mixed

\* The session may have the code of one number beside another number: a call
\* failed between changing the one and the other, or overlapped another one.
Excused(s) == s \in unsent \cup crossed

\* The number that user_login logs in, or registers, is the number its code was
\* sent to: verify_telephone and verify_session_cookie of a session belong
\* together, in memory, while a login is under way and in the row, unless the
\* session is excused. A prelogin or a fast login changes the number first.
CodeBelongsToNumber ==
  /\ \A c \in Conns :
       sess[c].cookie \notin {NoTel, sess[c].tel} =>
         Excused(sess[c].sid) \/ InFlight(c, {"prelogin", "fast"})
  /\ \A r \in Reqs :
       req[r].op = "login" /\ req[r].pc \in {"find", "add", "merchant", "admin"} =>
         req[r].code = req[r].tel \/ req[r].lost \/ Excused(My(r).sid)
  /\ \A s \in Sids : \A w \in rows[s] :
       w.cookie \in {NoTel, w.tel} \/ Excused(s)
=============================================================================
