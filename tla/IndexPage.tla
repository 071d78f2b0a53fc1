------------------------------ MODULE IndexPage ------------------------------
(***************************************************************************)
(* The goods of the index page, cmall_index_page_goods, which              *)
(* administrators set, add to and remove from.                             *)
(*                                                                         *)
(* PostgreSQL runs the transactions with READ COMMITTED: a DELETE sees the *)
(* rows that are committed when it starts, waits for a transaction that    *)
(* has deleted one of them, and then deletes the ones that are left.       *)
(***************************************************************************)
EXTENDS Integers, Sequences, FiniteSets, FiniteSetsExt, SequencesExt

CONSTANTS
  Goods,     \* merchant and goods id
  Lists,     \* what admin_set_index_goods is called with
  Reqs,      \* handlers in flight
  MaxCalls,  \* bound: calls
  MaxRows    \* bound: rows that are inserted

ConstantsAssumption ==
  /\ Lists \subseteq Seq(Goods) /\ MaxCalls \in Nat /\ MaxRows \in Nat

VARIABLES
  rows,    \* the rows that are committed
  lastId,  \* the last id that was given
  offered, \* goods that the repositories have
  req,     \* the handlers in flight
  calls,   \* how many calls were made
  crowded  \* history: ids of rows that an add has inserted twice, or while
           \* others were inserted or the page was set

vars == <<rows, lastId, offered, req, calls, crowded>>

Row == [id: Nat, goods: Goods, order: Nat]

\* A handler: the goods it is for, the rows its DELETE has seen, the place it
\* adds at, and the rows that were inserted since it began.
Handler == [pc: {"idle", "delete", "insert", "max", "add"}, op: {"set", "add", "remove"},
            list: Seq(Goods), seen: SUBSET Row, order: Nat, since: SUBSET Nat,
            tried: BOOLEAN]

Idle == [pc |-> "idle", op |-> "add", list |-> <<>>, seen |-> {}, order |-> 0,
         since |-> {}, tried |-> FALSE]

Finish(r) == req' = [req EXCEPT ![r] = Idle]

\* Rows that a transaction has deleted and not committed
Locked(r) == UNION {req[q].seen : q \in {q \in Reqs \ {r} : req[q].pc = "insert"}}

\* Rows are inserted: the others in flight take notice of it for the history.
Noticed(r, ids, new) ==
  req' = [q \in Reqs |-> IF q = r THEN new ELSE IF req[q].pc = "idle" THEN Idle
                         ELSE [req[q] EXCEPT !.since = @ \cup ids]]

-----------------------------------------------------------------------------
(* Calls *)

Arrive(r, op, pc, list, seen) ==
  /\ calls < MaxCalls /\ calls' = calls + 1 /\ req[r].pc = "idle"
  /\ req' = [req EXCEPT ![r] = [Idle EXCEPT !.pc = pc, !.op = op, !.list = list,
                                            !.seen = seen]]
  /\ UNCHANGED <<rows, lastId, offered, crowded>>

\* admin_set_index_goods: the transaction begins with a DELETE of all rows.
SetIndexGoods(r, l) == Arrive(r, "set", "delete", l, rows)

\* admin_remove_index_goods deletes the rows of one good.
RemoveIndexGoods(r, g) ==
  Arrive(r, "remove", "delete", <<g>>, {x \in rows : x.goods = g})

\* admin_add_index_goods refuses a good that the repository does not have.
AddIndexGoods(r, g) == g \in offered /\ Arrive(r, "add", "max", <<g>>, {})

-----------------------------------------------------------------------------
(* Steps *)

\* Mutant of DeleteAll: the rows are deleted when the new ones are there.
DeleteAll_Late(r) ==
  LET h == req[r] IN
  /\ h.pc = "delete" /\ h.op = "set" /\ h.seen \cap Locked(r) = {}
  /\ req' = [req EXCEPT ![r] = [h EXCEPT !.pc = "insert", !.seen = {}]]
  /\ UNCHANGED <<rows, lastId, offered, calls, crowded>>

\* The DELETE of a set ends. One that has deleted nothing, from an empty page
\* or from one that somebody else has set meanwhile, gives up.
DeleteAll(r) ==
  LET h == req[r] IN
  /\ h.pc = "delete" /\ h.op = "set" /\ h.seen \cap Locked(r) = {}
  /\ req' = [req EXCEPT ![r] =
       IF h.seen \cap rows # {} THEN [h EXCEPT !.pc = "insert", !.seen = @ \cap rows]
       ELSE Idle]
  /\ UNCHANGED <<rows, lastId, offered, calls, crowded>>

\* The DELETE of a remove ends and is committed.
DeleteOne(r) ==
  LET h == req[r] IN
  /\ h.pc = "delete" /\ h.op = "remove" /\ h.seen \cap Locked(r) = {}
  /\ rows' = rows \ h.seen /\ Finish(r)
  /\ UNCHANGED <<lastId, offered, calls, crowded>>

\* The rows of a list, at the places they have in it.
RowsOf(list, id) ==
  {[id |-> id + i, goods |-> list[i], order |-> i - 1] : i \in DOMAIN list}

\* The new rows are inserted and the set is committed.
CommitSet(r) ==
  LET h == req[r]
      new == RowsOf(h.list, lastId)
  IN
  /\ h.pc = "insert" /\ lastId + Len(h.list) <= MaxRows
  /\ rows' = (rows \ h.seen) \cup new /\ lastId' = lastId + Len(h.list)
  /\ Noticed(r, {x.id : x \in new}, Idle)
  /\ crowded' = crowded \cup {x.id : x \in rows \ h.seen}
  /\ UNCHANGED <<offered, calls>>

\* The highest position is read; of no rows it is read as 0.
LoadMaxOrder(r) ==
  /\ req[r].pc = "max"
  /\ req' = [req EXCEPT ![r].pc = "add", ![r].since = {},
                        ![r].order = Max({x.order : x \in rows} \cup {0}) + 1]
  /\ UNCHANGED <<rows, lastId, offered, calls, crowded>>

\* Mutant of InsertOne: the new row takes the highest position.
InsertOne_Same(r) ==
  LET h == req[r]
      x == [id |-> lastId + 1, goods |-> h.list[1], order |-> h.order - 1]
  IN
  /\ h.pc = "add" /\ lastId < MaxRows /\ lastId' = lastId + 1
  /\ rows' = rows \cup {x} /\ Noticed(r, {x.id}, Idle)
  /\ crowded' = IF h.since = {} THEN crowded ELSE crowded \cup {x.id}
  /\ UNCHANGED <<offered, calls>>

\* The row is inserted, and inserted once more if the connection was lost
\* after the commit.
InsertOne(r) ==
  LET h == req[r]
      x == [id |-> lastId + 1, goods |-> h.list[1], order |-> h.order]
  IN
  /\ h.pc = "add" /\ lastId < MaxRows /\ lastId' = lastId + 1
  /\ rows' = rows \cup {x}
  /\ \/ Noticed(r, {x.id}, Idle)
     \/ ~h.tried /\ Noticed(r, {x.id}, [h EXCEPT !.tried = TRUE])
  /\ crowded' = IF h.since = {} /\ ~h.tried THEN crowded
                ELSE crowded \cup {x.id}
  /\ UNCHANGED <<offered, calls>>

\* A statement fails: the transaction is rolled back.
Throws(r) ==
  /\ req[r].pc # "idle" /\ Finish(r)
  /\ UNCHANGED <<rows, lastId, offered, calls, crowded>>

\* Merchants push: a good comes or goes.
Push(g) ==
  /\ offered' = IF g \in offered THEN offered \ {g} ELSE offered \cup {g}
  /\ UNCHANGED <<rows, lastId, req, calls, crowded>>

Init ==
  /\ rows = {} /\ lastId = 0 /\ offered = {} /\ calls = 0 /\ crowded = {}
  /\ req = [r \in Reqs |-> Idle]

Next ==
  \/ \E r \in Reqs :
       \/ \E l \in Lists : SetIndexGoods(r, l)
       \/ \E g \in Goods : RemoveIndexGoods(r, g) \/ AddIndexGoods(r, g)
       \/ DeleteAll(r) \/ DeleteOne(r) \/ CommitSet(r) \/ LoadMaxOrder(r)
       \/ InsertOne(r) \/ Throws(r)
  \/ \E g \in Goods : Push(g)

Spec == Init /\ [][Next]_vars

-----------------------------------------------------------------------------
(* Properties *)

\* Type correctness; ids are unique
TypeOK ==
  /\ rows \subseteq Row /\ lastId \in 0..MaxRows /\ offered \subseteq Goods
  /\ req \in [Reqs -> Handler] /\ calls \in Nat /\ crowded \subseteq Nat
  /\ \A x, y \in rows : x.id = y.id => x = y

\* Two goods share a position only if one of them was added while others came
\* or the page was set, or is there twice.
PositionsDistinct ==
  \A x, y \in rows : x.order = y.order /\ x # y =>
                       x.id \in crowded \/ y.id \in crowded

\* A set that is committed removes everything that was on the page when it
\* was called: besides its own list only rows stay that were inserted while
\* it was under way. Those may be another set's: of two overlapping sets the
\* second one gives up when the first has deleted all rows that it saw, but
\* when a row was added between their DELETEs both lists stay.
SetReplaces ==
  [][\A r \in Reqs :
       req[r].pc = "insert" /\ rows' # rows /\ req'[r].pc = "idle" =>
         \A x \in rows' : x.id <= lastId => x.id \in req[r].since]_vars
=============================================================================
