# cmall in TLA+

A verification of the core of cmall, a web shop server: a single C++20 process
of Boost.Asio coroutines on a pool of io_contexts, with PostgreSQL behind it
(through odb), WeChat payment and gitea beside it, and JavaScript of the
merchants run in child processes. Clients speak JSON-RPC over websockets.

## 1. Inventory

### How the parts interact

`do_ws_read` reads one JSON-RPC request after the other and spawns a coroutine
for each of them, so a client has any number of handlers in flight. A handler
awaits database operations (`cmall_database`: each is one transaction, run on
a thread pool, repeated by `retry_database_op` when the connection is lost),
scripts, HTTP requests and timers. Between two such awaits every other handler
may run, also on another thread. There is no lock on an order, a user or a
merchant: what keeps handlers apart is a unique index, a query's `where`, or
nothing. That is what makes this code hard to test, and it is what the modules
keep: **a handler is a sequence of steps, one per await, and works on the copy
it loaded.**

| part | state | operations | what is hard | what makes it correct |
|---|---|---|---|---|
| orders | table `cmall_order` | create, detail, list, close, check, mark payed, reprice, add waybill, delete | a handler writes back the whole row it loaded, after other handlers wrote it; repeated writes; a script between load and write; goods are read one by one while merchants push | payed only if somebody entitled said so; nothing is lost but to a stale write; the order is what was called for, at prices that were offered |
| WeChat payments | trades at WeChat; `payed_at_`; rows of `cmall_config`, `wxpay_service` objects | prepay, notification, set and load the configuration | notifications are lost, repeated and meet failing loads and restarts; the price changes meanwhile; two configurations at a time | SUCCESS is answered only for a stored payment; every payment is stored in the end; the charged amount is one total of the order; a configuration is one call's |
| merchant applications | tables `cmall_apply_for_mechant`, `cmall_merchant`; gitea accounts | apply, approve, deny | four transactions per application; approve and deny at the same time | one open application per user; approval and merchant appear together; one account |
| payment urls | `payment_impl::awaiting_orders` | `order_get_pay_url` | polling callers on several threads, cancelled by `stop()` | one script at a time per order; no entry left behind; every call ends |
| user scripts | child process, two pipes, supervisor, timer | `run_script` | exit, output, openat and timer race; a supervisor that keeps the thread | the result is whole or empty; no process is left running; the call returns |
| database access | connections, retry counter | load, get, add, update, upset, soft_remove, hard_remove, erase, erase_and_insert | a lost connection says nothing about the commit; READ COMMITTED | an operation has its effect at most once, as far as its result can tell |
| sessions and login | `client_session` per connection, `cmall_session`, `active_users` | allocate, recover, prelogin, login, fast login, logout, sudo | copies of one session; calls of one connection that overlap, or are overtaken by its end; rows written back by update_lifetime | a code logs in the number it was sent to; sudo ends where it began; `active_users` is logged in |
| verify codes | timed map of cookies | send, verify, purge | the purging coroutine sleeps while codes age | a code lives as long as promised and hardly longer |
| websocket connections | reader, writer, `message_channel` | read, reply, notify, close | a channel of one message and `try_send` | messages arrive in order; calls are answered |
| repositories, search | `merchant_repos`, background coroutines, index | load, index, push check | a push between reading HEAD and reading the goods; two coroutines of one merchant; an exception ends one | the index catches up; an index labelled with HEAD holds HEAD |
| carts, favourites, key-value | tables | add, modify, remove, list, put | read, then write; notifications overtake lists or are dropped | a row is its owner's; no double entry without a race; clients see the cart; a store is a map |
| administration | `cmall_user`, `cmall_merchant`, index page | ban, disable, reenable, names, addresses, passwords, index goods | whole rows are written back; gitea and the table change one after the other | bans and addresses stay; passwords agree; a new page replaces the one before |
| acceptors, shutdown | acceptors, connections, io_contexts | accept, `stop` | callers that run while groups are closed one after the other | nothing is left running |
| goods, markdown, sms, static files, logging | none shared between requests | | | |

`PROJECT.json` lists the same parts with their files, and the hazards of the
code with their lines.

## 2. Modules

| module | what it is |
|---|---|
| `Orders` | orders, their database operations, WeChat payment |
| `OrderCreate` | how an order is put together, good by good |
| `MerchantApply` | merchant applications and their approval |
| `PayUrl` | the turns of `get_payurl` |
| `UserScript` | one call of `run_script` |
| `Session` | who a connection speaks for |
| `VerifyCode`, `ExpiringStore` | the codes of logins; what a timed map promises |
| `WsChannel`, `LossyFifo` | one connection; what it promises about messages |
| `Repos` | repositories, background coroutines, search index |
| `Cart` | carts and favourites with their notifications |
| `KvStore`, `KvRegister` | the key-value stores; the map they implement |
| `Accounts` | the rows of users and merchants |
| `IndexPage` | the goods of the index page |
| `WxConfig` | the configuration of WeChat payment |
| `MCOrders`, `MCMerchantApply`, `MCPayUrl`, `MCUserScript` | constants and symmetry for TLC |
| `Users`, `Shop`, `Services` | components side by side, with the properties that are checked and proved of each |
| `MCUsers`, `MCShop`, `MCServices`, `MCOrderRows` | small instances of them, and of `Orders`, for TLC |
| `Orders_proofs`, `MerchantApply_proofs`, `PayUrl_proofs`, `UserScript_proofs` | theorems about these modules |
| `Session_proofs`, `Accounts_proofs` | theorems about the parts of `Users` |
| `Shop_proofs`, `Services_proofs` | theorems about the parts of `Shop` and `Services` |

Operators named `X_Y` next to an operator `X` are mutants: `X` with a
plausible bug. They are not used by the specifications; each one shows that
some property notices the bug when it replaces `X`.

In all modules `req` has the handlers in flight, in slots that are used again;
a handler has its place (`pc`) and what it knows. Variables marked *history*
are read by no guard; they say what has happened, so that a property can name
the exact condition under which something goes wrong: `stale`, `unsure`,
`crowded`, `raced`, `missed`, `returned`, `late`, `unsent`, `crossed`, `mixed`,
`overtaken`.

### Orders

State: `table` is the table `cmall_order`, a function from the oids in it to
rows; `req[r]` is the handler in slot `r`: its operation, the user, the oid,
the place (`pc`) where it awaits, the row it loaded (`copy`), how often its
write was repeated (`tries`), and whether another handler has written that row
since (`stale`, history). `prepaid` and `charged` are WeChat's. `said` is what
was told to the outside: `payed` to a client, `status` by starting
orderstatus.js, `ack` to WeChat, `closed` as the reply of order_close.
`issued`, `confirmed`, `recorded` and `totals` are history.

A handler goes from `load` (one action per operation: its query, its tests and
what it does to its copy) to `script` (checkpay.js is running), `prepay`
(WeChat is asked) or `write`, and after the write of `order_mark_payed` to
`status`. `Visible` has the query of each operation: prepay and the WeChat
callback do not test `deleted_at`, all others do. A write is `WriteCommits`,
`WriteRecoverable` (the connection is lost before or after the commit; the
same copy is written again, up to `MaxTries` times) or `WriteFails`. A load
that does not come back is `LoadFails`; its retries have no effect. `Crash`
is a restart: the table stays and all handlers are gone.

`confirmed` is what entitlement means here: the order's own seller has called
mark_payed (noted when the request arrives, if that merchant is the seller),
the seller's checkpay.js has printed "payed", or the buyer has payed in WeChat.
It is set by these three events, never by a write, so that
`PayedIsConfirmed` is about where a `payed_at_` in the table came from:
`merchant_delete_sold_orders` sets `payed_at_` as well, and rows are written
back by handlers that loaded them long before.

Abstracted: the goods of an order to the seller they share (`None` when no
good was accepted) and two sums; times to Booleans; delivery addresses, `ext`,
snapshots and all texts are left out. `gen_uuid` returns an oid that nobody
else has. The amounts are integers (the decimal places are left out, and a
seller may enter a negative price: the code does not refuse it).

### OrderCreate

The loop of order_create_cart and order_create_direct over the chosen goods:
the merchant of a good is loaded once per order, the good is read from HEAD of
his repository at that moment, a good that is missing and a second seller end
the call with an error, and a good of a merchant who is disabled or unknown is
left out. Meanwhile merchants push,
administrators disable and enable them, and the buyer erases addresses; the
call names its address by a position in the list that was shown. What a handler
has seen of HEADs is one set for all merchants, so `PricesWereOffered` accepts
the price of a commit of any of them, for the good that was called for.

### MerchantApply

State: `app[u][s]` is the state of the application with that applicant and
`seq`, `merchants` the primary keys of `cmall_merchant`, `req` the handlers in
flight, `gitea` and `inits` the calls of `gitea_service.init_user`, `overruled`
history. `user_apply_merchant` is four steps: is the user a merchant, what is
`max(seq) + 1`, is an application waiting, insert. The inserts rely on the
unique index on (applicant, seq). approve and deny are transactions of two
steps, because under READ COMMITTED, the default of PostgreSQL, what they read
may change before they write. `Drop` ends a handler anywhere: a database
error, or a restart.

### PayUrl

State: `awaiting_orders`, and for each caller its place, its order and the
number of its calls. Each look at the set under `exclude_run` is one step. The
`scoped_exit` that erases the order is set up before the caller has entered
it, so `Leave` erases it for a caller that only waited as well. `closed` is how
far `close_all_ws` has come: it closes the connections of one kind of acceptor
after the other, and cancels the calls of each.

### UserScript

One call of `run_script` with its parallel parts: the coroutine that feeds the
request body into a pipe, the one that reads the output to its end, the
supervisor that answers the openat calls of the sandboxed process, the timer,
and the wait for the process. The script is free: it may read or not, write,
close its output and run on, block in an openat, or end. Data are counted in
pipe buffers, so a full pipe blocks.

The parts run in two places. The call, its timer and the supervisor share an
executor of one thread; once an openat has come the supervisor answers it and
polls for the next one without awaiting (sandbox.cpp:291), so every step of the
call needs `ThreadFree`. Reader and feeder run on another io_context: `||`
sends them a cancellation (`told`) and the call returns on a timeout before they
have ended, which they do in steps of their own (`ReadAborted`, `FeedEnds`). A
read that had already completed still takes its data.

### Session

State: the rows of `cmall_user` (`users`, a sequence since uid_ is an auto id),
of administrators and of `cmall_session`; per connection its own
`client_session`; `active_users`; handlers. `do_ws_read` starts a coroutine for
every call, so **handlers of one connection overlap**: they work on one
session, and each step is what runs between two awaits. `save` serializes at
once and writes later, so two saves of one session may land in either order.
`update_lifetime` (`LifeRead`, `LifeWrite`) reads the row of a session and
writes it back whole, over whatever was saved in between. Actions follow
`client_connected`, `recover_session`, `load_user_info`, the login calls and
sudo from await to await; every step may end with an exception, which leaves
what was changed in memory. `Restart` keeps the tables only. The state of a
merchant and the ban of a user change under it at any time.

`recover_session` with an api token puts a new session in place of the one the
connection had, after several awaits (`TokenUser`). Handlers in flight hold a
C++ reference to the old one, which nobody else owns. The code then writes to
an object that is gone. It is modelled by what a build can do at best and at
worst: their assignments do not reach the new session (`Assigned`), and what
they read there is any number. Handlers that go through `this_client` find the
new session. In the same way `load_user_info` reads the uid of an optional
that a logout has emptied: any user's (`UidOf`).

Four histories name the races. `crossed`: sessions in which a call changed the
number or the code beside a call that depends on it. `mixed`: sessions in which
admin_sudo met another one or a logout, or admin_sudo_cancel another one.
`overtaken`: connections with a logout that came after a login or a recovery
had set or found `user_info` and before it entered `active_users`. `unsent`:
sessions in which a call failed after it had changed the number. They are set when
the second call *begins*, so they say nothing of what it will do.

### VerifyCode and ExpiringStore

`timedmap` with a clock in ticks: `Put` enters a code under a new cookie when
the sending process has printed its line, `Verify` compares, `Purge` is one
round of `pruge_thread`, which sleeps `PurgeEvery` when it erased nothing.
`ExpiringStore` promises that what was put can be read for `Lifetime` and no
longer than `Slack` after it; `StoreSpec` shows the refinement with the sleep
as the slack.

### WsChannel and LossyFifo

The reader makes calls itself until there is a session and then posts a handler
for each; handlers and notifications use `try_send` on a channel of capacity 1;
the writer takes from it. `LossyFifo` is a queue that accepts every message
once, in order, and refuses one only while it holds two (the one being written
and the one in the channel). `window` is how many unanswered calls the client
leaves: with at most two and without notifications nothing is dropped.

### Repos

`known` merchants and what gitea holds (`head`), `merchant_repos`, and per
repository its background coroutines (`bg`), the label of the index (`snap`) and
the goods in it (`index`, a sequence, since `indexdb` is not unique).
`ReloadMerchant` is split where the code reads: HEAD first, the goods later,
while `Push` moves HEAD, to a new commit or back to an old one. `GitFails` is
the exception that ends a coroutine for good, until `Restart`.

`load_repos` repeats its query into a vector that it does not empty
(cmall.cpp:317, database.hpp:122), so `Restart` may start up to `MaxLoads`
coroutines for a merchant. Both add its goods: they are in the index twice, or
goods of two commits are, if a push came between them. The next reload removes
them all. `HasHead` therefore promises the goods of HEAD, and promises *only*
those when one coroutine follows the repository (`Single`). `returned` is the
other exception: HEAD was forced back to the label after other goods were read,
and `check_repo_changed`, which compares commits, sees no change.

### Cart, KvStore, Accounts, IndexPage, WxConfig

Five tables, or pairs of tables, each with the database calls of its handlers
as steps. `Cart` has what each client shows (`view`) and whether a
cart_changed has reached it (`dirty`); `try_send` drops the notification when
the channel of the connection is full, and the client is then `missed` until
its next list. A list is a set of rows without pages: the rows that a repeated
load shows twice are the same rows. `KvStore` is `upset`: reload, then update
or insert, in a transaction that may be repeated after its commit; `KvRegister`
is the map it implements. `Accounts` is `update(id, updater)`, a load and a
write of a whole row without a lock, with gitea's copy of a password beside it.
At the start the two passwords agree; `init_user`, whose result nobody reads
(handle_jsonrpc_admin_api.cpp:119), may have left a merchant without an account,
about which `PasswordAgrees` says nothing.
`IndexPage` and `WxConfig` are `erase_and_insert` under READ COMMITTED: a
DELETE sees the rows that were committed when it began, so two replacements may
both leave their rows; `load_configs` then counts fourteen where it expects
seven. On the index page an add between the DELETEs of two sets is enough: the
second set deletes that row, does not see the first one's list, and both lists
stay. `SetReplaces` says what is left to promise: whatever was on the page when a
set was called is gone.

### Users, Shop, Services

Each of these modules holds components that share no state, as its header
argues: `Users` is `Session` with `VerifyCode` (`VC`) and `Accounts` (`Ac`),
`Shop` is `KvStore` with `Cart` (`Ct`), `IndexPage` (`Pg`) and `OrderCreate`
(`Oc`), `Services` is `Repos` with `WsChannel` (`Ws`) and `WxConfig` (`Wx`).
They name the properties of their parts; the runs check these definitions and
the theorems are about the same ones. `MCUsers`, `MCShop` and `MCServices` give
the constants and add a variable `focus`: in a behaviour the part in focus moves
and the others stay. That is no restriction, because the parts have no state in
common and every property speaks of one of them. `MCOrderRows` does the same
with two instances of `Orders`.

Where one small instance of a component would be too large, two foci look at
the same constants from two sides. Of sessions: two connections of one session on
a server without users; one connection with five calls of an administrator, in
and out of sudo mode; and one connection with three calls of every kind, api
tokens among them, on a server with two users, one an administrator and one a
merchant. In all of them two handlers run at a time, of one connection or of
two. Of accounts: all calls
but erasures with one address; and only the calls on addresses, with two. Of
carts: two connections of one user without favourites; and a connection of
each of two users with them.

## 3. Runs

| run | question | instance |
|---|---|---|
| `orders_payment` | Does anything say payed without a confirmation? Is WeChat answered SUCCESS too early? Is anything lost but to the write of a stale copy? | one order, a buyer, two merchants, two handlers, one repetition, all writing operations |
| `order_rows` | Is the amount charged a total that the order had, while the seller changes price and kuaidifei? Do repeated writes enter a waybill twice? | two prices, two fees, three handlers; three waybills, two handlers, two repetitions, a restart |
| `orders_live` | Is a WeChat payment stored in the end? | two handlers, a restart, concurrent repricing and deletion |
| `merchant_apply` | Do handlers of one user give two open applications, an approval without a merchant, a merchant without an approval, or two accounts? | four handlers, three applications |
| `pay_url` | One script at a time? No entry left behind? Does every call end? | three callers with two calls each, two orders, the server stopped at any moment |
| `user_script` | Is the result whole or empty, is anything left behind, does the call return? | four buffers in, five out, pipes of two |
| `users` | Sessions: is `active_users` logged in, does a code log in its own number, does sudo know its way back? Codes: does the timed map implement `ExpiringStore`? Rows: do bans, addresses and passwords survive overlapping, repeated and failing calls? | two connections of one session and two numbers; an administrator in sudo mode; api tokens; two cookies and nine ticks; a merchant and a user; two addresses |
| `shop` | Do the stores implement a map, do carts and the index page keep what they were told, is an order what was called for? | two keys; two connections of one user and one of another; lists of none, one and two goods; three goods of two sellers in two commits |
| `services` | Does the index catch up, does a connection implement a queue and answer every call, is a configuration one call's? | two merchants, three commits, a restart with one or two coroutines per merchant; three calls and a notification; three configurations, two starts |
| `orders_close` (violated) | Does order_close close, as doc/api.md has it? | |
| `orders_pay_amount` (violated) | Does `pay_amount_` hold the amount payed, as db.hpp has it? | |
| `pay_url_cancel` (violated) | Is the script exclusive also when a waiting caller is cancelled? | |

`UsersTypeOK`, `ShopTypeOK` and `ServicesTypeOK` are the types of the parts,
checked and proved; the types of `Orders`, `MerchantApply`, `PayUrl` and
`UserScript` are proved.

Why the bounds are enough. Handlers touch one order, one user's applications,
one cart, one key or one row each and share nothing else, so one or two of them
show all interference; the buyer may be a merchant, and there is a merchant
that is not the seller. Two handlers are enough for one to load, the other to
load and write, and the first to write; where three roles meet (two repricings
and a prepay) there are three, and four for applications (two that apply, one
that approves, one that denies). Slots are reused, so any number of handlers
follow each other up to the number of calls (`MaxCalls`, `MaxPuts`), which is
three or four: one call that sets the stage, two that race, and where a fourth
is needed one that looks (on the index page: two sets and the add between them
on a page that a first call has filled). Repetitions of 1 to 3 have writes that are repeated
after a commit and writes that are given up (the code has 25). A lifetime of
two sleeps has every order of puts and purges. Pipes of two buffers fill up and
run empty within a body of four. The theorems below have none of these bounds.

The runs of `Orders` enable only the operations (`Ops`) that bear on their
question; `orders_payment` has all that write, `orders_live` has `detail` and
`close`. Symmetry is used for handlers and connections, in safety runs only.
Deadlock is not checked where calls are bounded, since then a run ends.

Fairness.

* `Orders`: a handler that has arrived goes on (the io_context and the thread
  pool run what is ready; weak fairness on its steps). WeChat repeats its
  notification until it has received SUCCESS, and a database that fails does not
  fail for ever: strong fairness on a notification not yet acknowledged, on the
  load of such a callback and on its commit. Without the last two the code
  cannot promise anything, as every attempt may fail. Nothing is assumed about
  merchants, buyers and scripts.
* `PayUrl`: weak fairness on the steps of a caller: its timer fires, and its
  script ends or is killed after five seconds, unless it is one of those that
  `CallEnds` excepts. `CallsEnd` also rests on the
  bounded number of calls: callers poll without a queue, and an endless stream
  of new ones could overtake a caller for ever.
* `UserScript`: weak fairness on the reader and the timer. The call's steps
  need the thread that the supervisor may hold, so they get strong fairness:
  handlers of an executor are queued in order, and one that is ready each time
  the thread becomes free has its turn. The supervisor answers an openat, and
  leaves its loop when none has come for a millisecond. Nothing is asked of the
  script. So a script that calls openat for ever without such a pause starves
  timer and call; `CallEnds` names it as the exception.
* `WsChannel`: weak fairness on reader, writer and handlers, coroutines of one
  io_context; every handler returns since the database and scripts have time
  limits (but for the script that `CallEnds` excepts). None on the client, whose silence is the end of the connection.
* `Repos`: weak fairness on a merchant's background coroutine, whose timer
  fires every 30 seconds, and on the two steps of an approval under way.
  `IndexCatchesUp` is about repositories of which a coroutine has not been ended
  by an exception, and about a HEAD that rests and has not come back to the
  label.

### What the runs found

* `order_close` is answered without an error and does nothing.
* `pay_amount_` is never assigned.
* A caller of `get_payurl` that is cancelled in its 50ms wait erases the entry
  of the caller whose script is running; the next caller starts getpayurl.js
  for the same order a second time. `ExclusiveUnlessAbandoned` states, and
  proves, that this is the only way.

Losing a payment, a deletion or a waybill to a stale write is possible in this
code: two handlers load the order, both write it. No document promises
otherwise, so there is no finding; `LostOnlyToStaleWrite` states exactly when
it happens and excludes every other cause.

Other places where a document or a comment says more than the code does came up
while the models were written. The models follow the code, and the properties
name the exception:

* Every connection has a copy of its own of a session (cmall.cpp:699), where
  doc/api.md:17 says that being logged in belongs to the session and not to a
  connection.
* A second login on a connection loads what the new user is (the comment at
  handle_jsonrpc_user_api.cpp:38) and never takes away that the one before was a
  merchant or an administrator (line 47).
* Administrators are loaded by their uid, and uid_ is the auto id of that table
  (cmall.cpp:610, db.hpp:138).
* Two first logins with one number create two users: the query at
  handle_jsonrpc_user_api.cpp:30 and the insert are two transactions, and the
  index on `active_phone` is not unique (db.hpp:117).
* A code is valid for five minutes (verifycode.cpp:46), the comment at
  handle_jsonrpc_user_api.cpp:100 says two, and nothing keeps a client from
  asking for several in a minute (verifycode.cpp:50), which line 101 says.
* A reply that finds the channel full is dropped
  (cmall_do_websocket.cpp:146), where line 102 promises an answer for each id.
* A new merchant is given a blank repository, clones it and works on it
  (doc/repos.md:10); a repository that is blank when the merchant is approved is
  not indexed until the next start (cmall.cpp:74).
* A ban (`admin_user_ban`, doc/api.md:121) is undone by the write of an older
  copy of the row (database.hpp:277).
* update_lifetime writes back the row it has read (persist_session.cpp:112), so
  it may undo a save that was committed in between.
* Two calls of one connection may leave a session in sudo mode without an
  administrator to go back to (handle_jsonrpc_admin_api.cpp:268), a number
  beside the code of another one (handle_jsonrpc_user_api.cpp:115), or a
  connection in `active_users` whose `user_info` is empty, which its index reads
  (handle_jsonrpc_user_api.cpp:90).
* The goods of one order may be of two commits under one `snap_git_version`
  (handle_jsonrpc_order_api.cpp:95, db.hpp:245).

### Refinements

`VerifyCode` implements `ExpiringStore` (`StoreSpec`), `WsChannel` implements
`LossyFifo` (`FifoSpec`), `KvStore` implements `KvRegister` (`MapSpec`): each by
TLC on a small instance and by proof for all.

## 4. Theorems

All for any values of the constants (orders, users, merchants, handlers,
repetitions, restarts, keys, commits, lengths), under the assumptions named
`ConstantsAssumption` in each module: the bounds are naturals, the markers for
"none" are not members of the sets, the amounts are integers; sets from which an
unused slot takes a member that means nothing (sessions, connections, items,
configurations) are not empty; the rows of one call of admin_set_wxpay_detail,
and the addresses of a user, are finitely many. `UsersAssumption`,
`ShopAssumption` and `ServicesAssumption` collect them for the parts, and TLC
evaluates them on the small instances.

**Orders_proofs.** `TypeCorrect`, `PayedOrdersAreConfirmed`,
`ToldPaymentsAreConfirmed` and `AcksAreRecorded`, `ChargesWereStored`,
`WaybillsAreDistinct` and `LossesAreStaleWrites`. The
first three properties speak of the table and of what was said; they are not
inductive, because a handler may be about to write. `PayInv` adds what handlers
know: a copy that says payed and not deleted is of a confirmed order; a WeChat
callback is about a confirmed order (`ChargesConfirm` gives that when it
arrives) and its copy is payed when it is written; the order of a check or mark
past its load is confirmed; a merchant that called mark_payed and owns the
order has confirmed it. The last one needs that the seller of an order never
changes, hence that every copy has the seller of the row, hence that two
creates never share an oid (`OidsAreFresh`). The actions fall into a few kinds
(a slot changes, a row is loaded, a row is written), and there is one lemma for
each. `AmountInv`, behind `ChargesWereStored`, follows an amount from the table
to the copy of prepay, to what WeChat was asked for, to what the buyer was
charged: each is a total the order was stored with. `RowsInv`, behind the last
two, speaks of every row and of every copy a handler holds: no waybill is in it
twice and each was brought by some call, so the number of a new waybill is in
none of them; and a copy that is not stale forgets nothing of the row it will
replace. A repeated write puts in place what is there already.

**MerchantApply_proofs.** `TypeCorrect`; `OneWaiting` with `WaitingInv`: the
numbers of a user's applications have no gaps (`Numbered`), a handler that has
read `max(seq) + 1` holds a number below which all are taken (`SeqRead`), and a
handler about to insert either finds its number taken or no application of the
user waiting (`AddIsSafe`). The argument depends on the order of the calls in
`user_apply_merchant`: the number is read *before* the query for a waiting
application, so whoever applied after that query took the number.
`ApprovalsHaveMerchants` and `MerchantsHaveApprovals` with `ApprovalInv`, and
`InitOnce` with `InitInv`: a handler on its way to `init_user` owns the merchant
it created.

**PayUrl_proofs.** `TypeCorrect`, `PayUrlExclusive` and `PayUrlNoOrphan` with
`TurnInv`, which adds that a running script's order is in the set unless a
caller was cancelled waiting for it (`RunIsListed`). For an abandoned order two
scripts may run and one of them erases the entry of the other, so the set can
only be too small, never too large: that is why `NoOrphanEntry` holds in spite of
the bug.

**Session_proofs.** `SessionTypes`, `ActiveUsersAreLoggedIn`, `SudoCanGoBack` and
`CodesBelongToNumbers`, for any number of overlapping handlers of any number of
connections. `TypeInv` gives the types: ids only grow, so an id that was read
once stays the id of a row. Each property has an invariant of its own, inductive
beside `TypeInv`. `ActiveInv`: a handler that will enter `active_users` without
setting `user_info` (`Enters`) finds it set or was overtaken, and the recovery of a
connection without a session is alone with it. `SudoInv`: as long as the
session is not `mixed`, a sudo under way finds `admin_info`, a cancel finds
`original_user`, no two of a kind run beside each other, and what is about to
be written, by save or by update_lifetime, is as consistent as what is in
memory. `CodeInv`: number and cookie match, unless the session is excused or a
handler is midway between the two; and no two calls that could come between
each other's number and code (`Clash`) run in a session that is not `crossed`.

A step of a handler is summed up first (`StepFacts`: what it does to the user,
the powers, the number and the code of its session, to what is saved and to its
connection), one lemma for each kind of step, and each invariant is proved once
from the summary. The arrivals, logouts, recoveries, the replacement of a
session, connections and the restart are proved from lemmas on the beginning of
a call. `Keeps` is what each of them shows.

`CodesAreAnExpiringStore`: `VerifyCode` implements `ExpiringStore`. The
invariant `WakesInTime` says that the purging coroutine wakes before any entry
is older than the lifetime and one sleep; from it follows that what `Verify`
accepts is not older than that. `Purge` erases only what is older than
the lifetime, hence nothing that the abstract store would have to keep.

**Accounts_proofs.** `PasswordsAgree` with `RowsInv`: a copy that is not stale is
the row (`Current`), and unless something failed or overlapped there is one
reset of a merchant, which has gitea's password in its argument from the moment
that gitea has answered (`PasswordOK`). `BansAreKept` follows in one step: a
write from a copy that is not stale changes one field of the row.
`AddressesAreKept` needs `ListsInv` as well: an address that no call has brought
yet, or whose call has written nothing, is in no list and in no copy of one
(`ToCome`), so appending it cannot make it double. `UsersTypes` collects the
types of sessions, codes and accounts.

**Shop_proofs.** `AckedKeysAreFound`, `LastPutsWin` and `ImplementsMap` with
`PutInv`: rows are never removed, so an update that has reloaded its row finds
it, and a key that is not `unsure` has at most one put in flight, whose value is
the last one (`Alone`); a repetition of it can then only write the same value
again. The refinement maps a handler to its key and value, and its place and
repetitions to nothing: a repetition after a commit is a second effect of the
same put.

`PagePositions` and `SetsReplace` with `PageInv`, which says what a handler of
the index page knows (`Knows`): one that is about to add, and has noticed no
insert since it read the greatest position, holds a greater one; and what a set
has not seen when its DELETE began was inserted since.

`CartsAreAsAsked`, `CartViewsAreCurrent` and `OwnersChangeTheirRows` with
`CartInv`. `Fits` and `KnowsRows` follow a row from the query to the write:
`cart_mod` of a row of somebody else never gets past its load, and the row
`cart_add` writes back has the id, the user and the item of the one it found.
`Shows` is the argument for the views: unless somebody still has to send a
cart_changed or one was dropped, what a client shows, or what the list it waits for has loaded, is
the cart. A notification that overtakes a list makes the client list again,
which is where the invariant would fail if cart_changed were sent before the
commit.

`PricesAreOffered` and `OrdersAreAsCalled` with `OrderInv`: of an order under
way and of a stored one (`Right`), the goods so far are the first ones of the
list, in increasing places, without some whose merchants were away; each has
the price of a HEAD since the call, and `price` is their sum. `Sees` says that
the history of the handler has every HEAD and every absence there was. `Sum`
recurs over the goods. That it is what its recursion says, and that
a good at the end adds its price, is proved by taking the least length for
which it fails (`Least`, from a theorem on well-founded relations): the
induction theorems of the library cannot be instantiated here, and this one
needs no operator as parameter.

**Services_proofs.** `IndexHasRepos` and `NoChangeIsMissed` with `ReposInv`, per
merchant: a coroutine has a repository, and one that is alone adds its goods to
an empty index (`Loading`); goods were read after their label
(`GoodsAfterLabel`), so if HEAD still is the label and did not come back to it,
the goods are those of HEAD. It is the order of the two reads that
counts: with the label read last, a push in between would never be noticed.

`ConnectionIsAFifo`: `WsChannel` implements `LossyFifo`, with the message that is
written and the one in the channel as the queue. The abstract queue
takes every message once, which the code does not check; `WsInv` proves it, by
saying that a call without an answer is in one place: on its way, with the
reader, with a handler. And the channel holds a message only while the writer
is busy, so that the queue has two whenever `try_send` refuses one.

`ConfigsAreOfOneCall` with `WxInv`: the rows of one call come and go together
(`RowsWhole`), although DELETEs see the table at different times; a set that is
alone deletes all there is (`AloneSeesAll`); and since fourteen rows are not
seven, a service is never given a mixture. As long as nothing overlapped or
failed there is one handler on its way from the DELETE to the service
(`SureOfRows`).

**UserScript_proofs.** `OutputIsWhole` and `NothingStays` with `ScriptInv`: what
was written is what is in the pipe and what was read (`Conserved`), and a call
that has reached its last stages has seen the end of the output and of the
process (`Stages`), or was timed out and has told its reader to end.

Only model-checked: `WxPaymentRecorded`, `CallsEnd`, `CallEnds`,
`IndexCatchesUp` and `EveryCallAnswered`. They are liveness properties, and
liveness under fairness is out of the prover's reach. Every other property of a
passing run is also a theorem.

What the proofs found about the models:

* That the goods of an order are the ones of the call, without those of
  merchants who were away, was first stated with a filter on the list. That is
  false for a list that names an item twice, when its merchant is enabled in
  between: the first is left out and the second is not. `MissingWereAway` now
  says that the goods are placed in the list in increasing places; the lists of
  the small instance had no item twice.
* An unused slot of `Accounts`, `Cart` and `WxConfig` holds any session,
  connection or configuration, and has its type only if there is one: hence
  the assumptions that these sets are not empty.

## 5. Not modelled

* Listing calls, goods, markdown, static files and ranges of them: they read,
  and nobody waits for them. The grammars of goods and the ranking of search
  results are pure functions of text.
* Api tokens: rows that one statement adds or erases.
* The contents of WeChat messages (signatures, certificates, encryption,
  onboarding forms), of gitea's and the sms gateways' HTTP requests: pure I/O.
  WeChat and PostgreSQL are modelled by how the code uses them.
* Accepting connections and the rest of `stop()`: containers that are shared by
  threads without a lock; their outcome is undefined, and there is no statement
  of what should hold.
* The seccomp filter of the sandbox, logging, program options, URL and header
  utilities.
* The compiled-in certificates (default_cert.cpp) and the odb code, which is
  generated from db.hpp: together about 35600 of the 54800 lines. The first is
  data; what the second does is modelled where database.hpp uses it.
* That starting orderstatus.js is lost in a restart, that a merchant may be
  left without its gitea account: nothing in the code promises more.

## 6. Plan

1. An abstract ledger of an order (created, confirmed, shipped, deleted as
   atomic events, and the write of a stale copy that takes one back) and a proof
   that `Orders` implements it.
2. `MerchantApply` with its transactions and retries as an implementation of
   one atomic decision per application.
