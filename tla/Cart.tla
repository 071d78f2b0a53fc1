-------------------------------- MODULE Cart --------------------------------
(***************************************************************************)
(* The cart and the favourites of a user, two tables with the same         *)
(* handlers: an item is looked for and then counted up or inserted, an     *)
(* item is loaded by its id and then changed or removed, a list removes    *)
(* what belongs to merchants that do not exist. Each database call is a    *)
(* transaction of its own and the handlers of all connections overlap.     *)
(*                                                                         *)
(* After a change of the cart every connection of the user is sent         *)
(* cart_changed, unless the connection's queue is full, and a client that  *)
(* receives it lists the cart again.                                       *)
(***************************************************************************)
EXTENDS Naturals, FiniteSets

CONSTANTS
  Users,       \* user ids
  Conns,       \* connections, all of them logged in and open
  Owner,       \* the user of a connection
  Merchants,   \* merchant ids
  Items,       \* what can be put into a cart: goods with their selection
  MerchantOf,  \* the merchant of an item; for favourites, of itself
  Counts,      \* bound: the counts cart_mod is called with
  MaxCount,    \* bound: the greatest count
  MaxId,       \* bound: rows ever inserted
  MaxCalls,    \* bound: calls made
  Enabled,     \* the calls clients make
  Reqs         \* slots: how many handlers run at the same time

ConstantsAssumption ==
  /\ Conns # {} /\ Owner \in [Conns -> Users]
  /\ Items # {} /\ MerchantOf \in [Items -> Merchants]
  /\ MaxCount \in Nat /\ MaxId \in Nat /\ MaxCalls \in Nat
  /\ Counts \subseteq 0..MaxCount

Tables == {"cart", "fav"}

VARIABLES
  rows,      \* cmall_cart and cmall_user_fav
  lastId,    \* the last id that was given
  merchants, \* cmall_merchant: the ids in it
  req,       \* the handlers in flight
  view,      \* the cart a client shows
  dirty,     \* clients that have to list the cart again
  missed,    \* history: clients that were not sent a cart_changed, since
             \* their last list
  calls,     \* how many calls were made
  raced,     \* history: user, table and item of inserts that overlapped
             \* another one, or that were repeated
  gone,      \* history: ids of rows that were removed
  wiped,     \* history: ids of rows that a list has removed
  unsure     \* history: users with a write that was committed by a handler
             \* that ended with an error

vars == <<rows, lastId, merchants, req, view, dirty, missed, calls, raced, gone,
          wiped, unsure>>

Row == [id: Nat, tab: Tables, uid: Users, item: Items, count: Nat]

Pcs == {"idle", "find", "insert", "update", "load", "mod", "del", "erase",
        "list", "check", "notify"}

\* A handler: the call and its connection, the row it has loaded or means to
\* write, the rows a list has loaded, and the merchants it still looks up and
\* the ones it has not found. stale: somebody has inserted this item since
\* the query for it; tried: its write was committed and is repeated.
Request == [pc: Pcs, op: {"add", "mod", "del", "list"}, c: Conns, row: Row,
            loaded: SUBSET Row, todo: SUBSET Merchants,
            vanished: SUBSET Merchants, stale: BOOLEAN, tried: BOOLEAN]

SameItem(x, y) == x.tab = y.tab /\ x.uid = y.uid /\ x.item = y.item

Key(x) == <<x.tab, x.uid, x.item>>

CartOf(u) == {x \in rows : x.tab = "cart" /\ x.uid = u}

\* The row a new item is inserted with.
NewRow(c, tab, i) ==
  [id |-> 0, tab |-> tab, uid |-> Owner[c], item |-> i, count |-> 1]

\* Any item, where a call has none.
NoItem == CHOOSE i \in Items : TRUE

Start(c, op, pc, x) ==
  [pc |-> pc, op |-> op, c |-> c, row |-> x, loaded |-> {}, todo |-> {},
   vanished |-> {}, stale |-> FALSE, tried |-> FALSE]

Idle ==
  LET c == CHOOSE c \in Conns : TRUE
  IN  Start(c, "list", "idle", NewRow(c, "cart", NoItem))

Goto(r, pc) == req' = [req EXCEPT ![r].pc = pc]
Finish(r) == req' = [req EXCEPT ![r] = Idle]

\* retry_database_op repeats what was committed when the connection is lost
\* before the answer.
Repeats(r) == req' = [req EXCEPT ![r].tried = TRUE]

\* A handler ends with an error, after its write was committed or not.
Fails(r, committed) ==
  /\ Finish(r)
  /\ unsure' = IF committed THEN unsure \cup {Owner[req[r].c]} ELSE unsure

history == <<raced, gone, wiped, unsure>>

-----------------------------------------------------------------------------
(* Calls *)

Arrive(r, c, op, pc, x) ==
  /\ calls < MaxCalls /\ calls' = calls + 1
  /\ req[r].pc = "idle"
  /\ req' = [req EXCEPT ![r] = Start(c, op, pc, x)]
  /\ UNCHANGED <<rows, lastId, merchants, view, missed, history>>

\* cart_add and fav_add: neither looks at the merchant.
CartAdd(r, c, i) ==
  /\ Arrive(r, c, "add", "find", NewRow(c, "cart", i)) /\ UNCHANGED dirty

FavAdd(r, c, i) ==
  /\ "fav" \in Enabled
  /\ Arrive(r, c, "add", "find", NewRow(c, "fav", i)) /\ UNCHANGED dirty

\* Mutant of CartMod: a count of nothing is not refused.
CartMod_AnyCount(r, c, k, n) ==
  /\ Arrive(r, c, "mod", "load",
            [id |-> k, tab |-> "cart", uid |-> Owner[c],
             item |-> NoItem, count |-> n])
  /\ UNCHANGED dirty

\* cart_mod and cart_del take the id of any row, also of somebody else's.
CartMod(r, c, k, n) ==
  /\ n > 0
  /\ Arrive(r, c, "mod", "load",
            [id |-> k, tab |-> "cart", uid |-> Owner[c],
             item |-> NoItem, count |-> n])
  /\ UNCHANGED dirty

CartDel(r, c, k) ==
  /\ Arrive(r, c, "del", "load",
            [id |-> k, tab |-> "cart", uid |-> Owner[c],
             item |-> NoItem, count |-> 0])
  /\ UNCHANGED dirty

\* fav_del goes by the merchant.
FavDel(r, c, i) ==
  /\ "fav" \in Enabled
  /\ Arrive(r, c, "del", "erase", NewRow(c, "fav", i)) /\ UNCHANGED dirty

\* A client lists its cart when it has to, one list at a time.
CartList(r, c) ==
  /\ c \in dirty
  /\ \A q \in Reqs : ~(req[q].pc # "idle" /\ req[q].op = "list" /\ req[q].c = c)
  /\ dirty' = dirty \ {c} /\ missed' = missed \ {c}
  /\ req[r].pc = "idle"
  /\ req' = [req EXCEPT ![r] =
               Start(c, "list", "list", NewRow(c, "cart", NoItem))]
  /\ UNCHANGED <<rows, lastId, merchants, view, calls, history>>

FavList(r, c) ==
  /\ "fav" \in Enabled
  /\ Arrive(r, c, "list", "list", NewRow(c, "fav", NoItem))
  /\ UNCHANGED dirty

-----------------------------------------------------------------------------
(* cart_add, fav_add *)

\* Mutant of Find: a row is inserted whether there is one or not.
Find_Blind(r) ==
  /\ req[r].pc = "find" /\ Goto(r, "insert")
  /\ UNCHANGED <<rows, lastId, merchants, view, dirty, missed, calls, history>>

\* The query for the item. Of several rows query_one takes the first; its
\* assertion that there is one is not in a release build.
Find(r) ==
  LET x == req[r].row
  IN  /\ req[r].pc = "find"
      /\ \/ \E y \in rows :
              /\ SameItem(x, y)
              /\ IF x.tab = "fav" THEN Finish(r)
                 ELSE /\ y.count < MaxCount
                      /\ req' = [req EXCEPT ![r].pc = "update",
                                   ![r].row = [y EXCEPT !.count = @ + 1]]
         \/ /\ \A y \in rows : ~SameItem(x, y)
            /\ Goto(r, "insert")
      /\ UNCHANGED <<rows, lastId, merchants, view, dirty, missed, calls, history>>

\* The insert. There is no unique index: a connection that is lost after the
\* commit has the row inserted again.
Insert(r) ==
  LET x == [req[r].row EXCEPT !.id = lastId + 1]
      over(q) == req[q].pc = "insert" /\ SameItem(req[q].row, x)
      after(again) ==
        IF again THEN [req[r] EXCEPT !.stale = TRUE, !.tried = TRUE]
        ELSE IF x.tab = "cart" THEN [req[r] EXCEPT !.pc = "notify"]
        ELSE Idle
  IN  /\ req[r].pc = "insert" /\ lastId < MaxId
      /\ rows' = rows \cup {x} /\ lastId' = lastId + 1
      /\ \E again \in BOOLEAN :
           req' = [q \in Reqs |-> IF q = r THEN after(again)
                                ELSE [req[q] EXCEPT !.stale = @ \/ over(q)]]
      /\ raced' = IF req[r].stale THEN raced \cup {Key(x)} ELSE raced
      /\ UNCHANGED <<merchants, view, dirty, missed, calls, gone, wiped, unsure>>

\* The whole row that was loaded before is written, with the count it had
\* then plus one. Without the row this is an error.
Update(r) ==
  LET x == req[r].row
  IN  /\ req[r].pc = "update"
      /\ IF \E y \in rows : y.id = x.id
         THEN /\ rows' = {y \in rows : y.id # x.id} \cup {x}
              /\ Goto(r, "notify") \/ Repeats(r)
              /\ UNCHANGED unsure
         ELSE Fails(r, req[r].tried) /\ UNCHANGED rows
      /\ UNCHANGED <<lastId, merchants, view, dirty, missed, calls, raced, gone, wiped>>

-----------------------------------------------------------------------------
(* cart_mod, cart_del, fav_del *)

\* Mutant of Load: the owner is not compared.
Load_AnyOwner(r) ==
  /\ req[r].pc = "load"
  /\ IF \E y \in rows : y.tab = "cart" /\ y.id = req[r].row.id
     THEN Goto(r, IF req[r].op = "mod" THEN "mod" ELSE "del")
     ELSE Finish(r)
  /\ UNCHANGED <<rows, lastId, merchants, view, dirty, missed, calls, history>>

\* The row is loaded for its owner to be compared, and thrown away.
Load(r) ==
  /\ req[r].pc = "load"
  /\ IF \E y \in rows : /\ y.tab = "cart" /\ y.id = req[r].row.id
                        /\ y.uid = Owner[req[r].c]
     THEN Goto(r, IF req[r].op = "mod" THEN "mod" ELSE "del")
     ELSE Finish(r)
  /\ UNCHANGED <<rows, lastId, merchants, view, dirty, missed, calls, history>>

\* update(id, updater) loads the row once more, and writes it in the same
\* transaction. When the row is gone it returns false, which nobody looks at.
Mod(r) ==
  LET x == req[r].row
  IN  /\ req[r].pc = "mod"
      /\ rows' = {IF y.id = x.id THEN [y EXCEPT !.count = x.count] ELSE y
                    : y \in rows}
      /\ Goto(r, "notify") \/ Repeats(r)
      /\ UNCHANGED <<lastId, merchants, view, dirty, missed, calls, history>>

\* hard_remove: an error when the row is gone. A connection that is lost
\* after the commit has the removal repeated, which finds no row.
Del(r) ==
  LET old == {y \in rows : y.id = req[r].row.id}
  IN  /\ req[r].pc = "del"
      /\ rows' = rows \ old /\ gone' = gone \cup {y.id : y \in old}
      /\ \/ old # {} /\ Goto(r, "notify") /\ UNCHANGED unsure
         \/ Fails(r, old # {})
      /\ UNCHANGED <<lastId, merchants, view, dirty, missed, calls, raced, wiped>>

\* fav_del removes all rows of the query, and repeating it does no harm.
Erase(r) ==
  LET old == {y \in rows : SameItem(req[r].row, y)}
  IN  /\ req[r].pc = "erase"
      /\ rows' = rows \ old /\ gone' = gone \cup {y.id : y \in old}
      /\ Finish(r) \/ Repeats(r)
      /\ UNCHANGED <<lastId, merchants, view, dirty, missed, calls, raced, wiped, unsure>>

\* Mutant of Notify: the connection of the call only.
Notify_OwnOnly(r) ==
  /\ req[r].pc = "notify"
  /\ dirty' = dirty \cup {req[r].c}
  /\ Finish(r)
  /\ UNCHANGED <<rows, lastId, merchants, view, missed, calls, history>>

\* send_notify_message goes to all connections of the user, for its argument
\* exclude_connection_id is not used. Where the queue of messages is full,
\* try_send drops it.
Notify(r) ==
  LET to == {c \in Conns : Owner[c] = Owner[req[r].c]}
  IN  /\ req[r].pc = "notify"
      /\ \E full \in SUBSET to :
           /\ dirty' = dirty \cup (to \ full)
           /\ missed' = missed \cup full
      /\ Finish(r)
      /\ UNCHANGED <<rows, lastId, merchants, view, calls, history>>

-----------------------------------------------------------------------------
(* cart_list, fav_list *)

\* The rows of the user are loaded; each merchant is looked up once. A page
\* has room for the whole cart. When the connection is lost the load is
\* repeated, and the vector keeps what the first one has put there: of such a
\* list the set says which rows are shown, not that some are shown twice.
ListLoad(r) ==
  LET x == req[r].row
      mine == req[r].loaded \cup {y \in rows : y.tab = x.tab /\ y.uid = x.uid}
  IN  /\ req[r].pc = "list"
      /\ \/ req' = [req EXCEPT ![r].pc = "check", ![r].loaded = mine,
                               ![r].todo = {MerchantOf[y.item] : y \in mine}]
         \/ req' = [req EXCEPT ![r].tried = TRUE, ![r].loaded = mine]
      /\ UNCHANGED <<rows, lastId, merchants, view, dirty, missed, calls, history>>

ListCheck(r, m) ==
  /\ req[r].pc = "check" /\ m \in req[r].todo
  /\ req' = [req EXCEPT ![r].todo = @ \ {m},
                        ![r].vanished = IF m \in merchants THEN @
                                        ELSE @ \cup {m}]
  /\ UNCHANGED <<rows, lastId, merchants, view, dirty, missed, calls, history>>

\* What belongs to a merchant that was not found is erased, for all users.
ListWipe(r, m) ==
  LET old == {y \in rows : y.tab = req[r].row.tab /\ MerchantOf[y.item] = m}
  IN  /\ req[r].pc = "check" /\ req[r].todo = {} /\ m \in req[r].vanished
      /\ rows' = rows \ old
      /\ gone' = gone \cup {y.id : y \in old}
      /\ wiped' = wiped \cup {y.id : y \in old}
      /\ req' = [req EXCEPT ![r].vanished = @ \ {m}] \/ Repeats(r)
      /\ UNCHANGED <<lastId, merchants, view, dirty, missed, calls, raced, unsure>>

\* The reply has all rows that were loaded.
ListReply(r) ==
  /\ req[r].pc = "check" /\ req[r].todo = {} /\ req[r].vanished = {}
  /\ view' = IF req[r].row.tab = "cart"
             THEN [view EXCEPT ![req[r].c] = req[r].loaded] ELSE view
  /\ Finish(r)
  /\ UNCHANGED <<rows, lastId, merchants, dirty, missed, calls, history>>

-----------------------------------------------------------------------------
\* A database call fails before it has done anything. A client repeats a
\* list that failed.
Throws(r) ==
  /\ req[r].pc \notin {"idle", "notify"}
  /\ dirty' = IF req[r].op = "list" /\ req[r].row.tab = "cart"
              THEN dirty \cup {req[r].c} ELSE dirty
  /\ Fails(r, req[r].tried /\ req[r].op # "list")
  /\ UNCHANGED <<rows, lastId, merchants, view, missed, calls, raced, gone, wiped>>

\* An application is approved. Merchants are never removed from the table.
NewMerchant(m) ==
  /\ merchants' = merchants \cup {m}
  /\ UNCHANGED <<rows, lastId, req, view, dirty, missed, calls, history>>

Init ==
  /\ rows = {} /\ lastId = 0 /\ merchants \in SUBSET Merchants
  /\ req = [r \in Reqs |-> Idle]
  /\ view = [c \in Conns |-> {}] /\ dirty = {} /\ missed = {} /\ calls = 0
  /\ raced = {} /\ gone = {} /\ wiped = {} /\ unsure = {}

Call(r, c) ==
  \/ \E i \in Items : CartAdd(r, c, i) \/ FavAdd(r, c, i) \/ FavDel(r, c, i)
  \/ \E k \in 1..lastId : (\E n \in Counts : CartMod(r, c, k, n))
                          \/ CartDel(r, c, k)
  \/ CartList(r, c) \/ FavList(r, c)

Step(r) ==
  \/ Find(r) \/ Insert(r) \/ Update(r) \/ Load(r) \/ Mod(r) \/ Del(r)
  \/ Erase(r) \/ Notify(r) \/ ListLoad(r) \/ ListReply(r) \/ Throws(r)
  \/ \E m \in Merchants : ListCheck(r, m) \/ ListWipe(r, m)

Next ==
  \/ \E r \in Reqs : Step(r)
  \/ \E r \in Reqs, c \in Conns : Call(r, c)
  \/ \E m \in Merchants : NewMerchant(m)

Spec == Init /\ [][Next]_vars

-----------------------------------------------------------------------------
(* Properties *)

\* Type correctness; an id names one row, as the key of the table has it, and
\* of no item nothing is in a cart, whatever cart_mod is called with.
TypeOK ==
  /\ rows \subseteq Row /\ lastId \in Nat
  /\ \A x \in rows : x.id \in 1..lastId /\ x.count > 0
  /\ \A x, y \in rows : x.id = y.id => x = y
  /\ merchants \subseteq Merchants
  /\ req \in [Reqs -> Request]
  /\ view \in [Conns -> SUBSET Row] /\ dirty \subseteq Conns /\ missed \subseteq Conns
  /\ raced \subseteq Tables \X Users \X Items
  /\ gone \subseteq 1..lastId /\ wiped \subseteq gone /\ unsure \subseteq Users

\* What was removed from a cart or from the favourites stays removed, although
\* cart_add writes back rows that it loaded before the removal.
GoneStaysGone == \A x \in rows : x.id \notin gone

\* An item is in a table twice only if two calls that added it overlapped or
\* an insert was repeated after its commit.
TwiceOnlyIfRaced ==
  \A x, y \in rows : SameItem(x, y) /\ x # y => Key(x) \in raced

\* What was removed stays removed, and what is there twice has raced.
RowsAsAsked == GoneStaysGone /\ TwiceOnlyIfRaced

\* When nothing is under way, every client shows the cart of its user:
\* cart_changed is sent after the commit, to all connections, also to those
\* with a list in flight. The exceptions are rows that a list has removed,
\* users with a write that was committed by a handler that failed, and
\* clients whose queue was full when a cart_changed was sent since their last
\* list.
ViewsCurrent ==
  \A c \in Conns \ (dirty \cup missed) :
    /\ \A r \in Reqs : req[r].pc = "idle"
    /\ Owner[c] \notin unsure
    => {x \in view[c] : x.id \notin wiped} = CartOf(Owner[c])

\* A row that a step changes is changed by a call of its owner.
RowsChange ==
  \A x \in rows, y \in rows' : x.id = y.id /\ x # y =>
    /\ SameItem(x, y)
    /\ \E r \in Reqs : /\ req[r].pc \in {"update", "mod"}
                       /\ Owner[req[r].c] = x.uid

\* A row belongs to one user for ever, and only a call of that user changes
\* its count.
OwnersChangeRows == [][RowsChange]_vars
=============================================================================
