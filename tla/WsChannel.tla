------------------------------ MODULE WsChannel ------------------------------
(***************************************************************************)
(* One websocket connection: do_ws_read reads the calls and spawns a       *)
(* handler for each, the handlers and send_notify_message put messages     *)
(* into message_channel, do_ws_write takes them out and writes them to the *)
(* client. The channel buffers one message and websocket_write uses        *)
(* try_send, so a message that finds the buffer full is dropped.           *)
(*                                                                         *)
(* Before there is a session the reader makes the call itself; afterwards  *)
(* the handlers run beside each other. The end of the connection does not  *)
(* stop the handlers, close() cancels those that have started.             *)
(***************************************************************************)
EXTENDS Naturals, Sequences, FiniteSets

CONSTANTS
  Calls,    \* ids of the client's calls
  Invalid,  \* those that are no JSON-RPC request
  Notes,    \* messages of send_notify_message
  MaxWindow,\* bound: how many calls a client leaves unanswered at a time
  NoCall    \* the reader is not making a call itself

ConstantsAssumption ==
  /\ Invalid \subseteq Calls /\ Calls \cap Notes = {} /\ NoCall \notin Calls
  /\ MaxWindow \in Nat

Messages == Calls \cup Notes

VARIABLES
  window,    \* how many calls this client leaves unanswered at a time
  sent,      \* calls the client has sent
  inbox,     \* calls on their way
  session,   \* session_info is set
  reader,    \* the call do_ws_read makes before there is a session
  handler,   \* the state of the handler spawned for a call
  writing,   \* the message do_ws_write is writing, or none
  channel,   \* message_channel's buffer
  got,       \* what has arrived at the client
  lost,      \* messages try_send refused
  noted,     \* notifications made
  ended      \* client_connected has returned

vars == <<window, sent, inbox, session, reader, handler, writing, channel, got,
          lost, noted, ended>>

out == <<writing, channel, lost>>

\* Posted to the executor, started by co_spawn, over
HandlerStates == {"none", "posted", "running", "done"}

Elements(s) == {s[i] : i \in 1..Len(s)}

Outstanding == sent \ Elements(got)

\* Mutant of TrySend: the message goes to the buffer, also past a writer
\* that waits.
TrySend_Buffers(m) ==
  IF ended THEN UNCHANGED out
  ELSE \/ channel = <<>> /\ channel' = <<m>> /\ UNCHANGED <<writing, lost>>
       \/ channel # <<>> /\ lost' = lost \cup {m} /\ UNCHANGED <<writing, channel>>

\* websocket_write. A writer that waits in async_receive gets the message
\* at once; otherwise there is room for one in the buffer.
TrySend(m) ==
  IF ended THEN UNCHANGED out
  ELSE \/ /\ writing = <<>>
          /\ writing' = <<m>> /\ UNCHANGED <<channel, lost>>
       \/ /\ writing # <<>> /\ channel = <<>>
          /\ channel' = <<m>> /\ UNCHANGED <<writing, lost>>
       \/ /\ writing # <<>> /\ channel # <<>>
          /\ lost' = lost \cup {m} /\ UNCHANGED <<writing, channel>>

-----------------------------------------------------------------------------
(* The client *)

ClientSends(q) ==
  /\ ~ended /\ q \notin sent /\ Cardinality(Outstanding) < window
  /\ sent' = sent \cup {q} /\ inbox' = Append(inbox, q)
  /\ UNCHANGED <<window, session, reader, handler, out, got, noted, ended>>

-----------------------------------------------------------------------------
(* do_ws_read *)

\* With a session, a handler is posted for the call.
ReadCall ==
  /\ ~ended /\ inbox # <<>> /\ reader = NoCall /\ session
  /\ Head(inbox) \notin Invalid
  /\ inbox' = Tail(inbox)
  /\ handler' = [handler EXCEPT ![Head(inbox)] = "posted"]
  /\ UNCHANGED <<window, sent, session, reader, out, got, noted, ended>>

\* An object that is no request: "Invalid Request".
ReadInvalid ==
  /\ ~ended /\ inbox # <<>> /\ reader = NoCall
  /\ Head(inbox) \in Invalid
  /\ inbox' = Tail(inbox)
  /\ TrySend(Head(inbox))
  /\ UNCHANGED <<window, sent, session, reader, handler, got, noted, ended>>

\* Without a session, recover_session is made by the reader.
ReadFirst ==
  /\ ~ended /\ inbox # <<>> /\ reader = NoCall /\ ~session
  /\ Head(inbox) \notin Invalid
  /\ inbox' = Tail(inbox) /\ reader' = Head(inbox)
  /\ UNCHANGED <<window, sent, session, handler, out, got, noted, ended>>

\* recover_session has brought a session, or thrown.
FirstReplies ==
  /\ ~ended /\ reader # NoCall
  /\ session' \in BOOLEAN
  /\ TrySend(reader)
  /\ reader' = NoCall
  /\ UNCHANGED <<window, sent, inbox, handler, got, noted, ended>>

-----------------------------------------------------------------------------
(* The handlers *)

\* The posted function calls co_spawn.
Start(q) ==
  /\ handler[q] = "posted"
  /\ handler' = [handler EXCEPT ![q] = "running"]
  /\ UNCHANGED <<window, sent, inbox, session, reader, out, got, noted, ended>>

\* Mutant of Reply: an exception is not answered.
Reply_Silent(q) ==
  /\ handler[q] = "running"
  /\ TrySend(q) \/ UNCHANGED out
  /\ handler' = [handler EXCEPT ![q] = "done"]
  /\ UNCHANGED <<window, sent, inbox, session, reader, got, noted, ended>>

\* handle_jsonrpc_call has returned or thrown; both are answered.
Reply(q) ==
  /\ handler[q] = "running"
  /\ TrySend(q)
  /\ handler' = [handler EXCEPT ![q] = "done"]
  /\ UNCHANGED <<window, sent, inbox, session, reader, got, noted, ended>>

\* A handler of another connection notifies the user of this one.
Notify(n) ==
  /\ n \notin noted
  /\ noted' = noted \cup {n}
  /\ TrySend(n)
  /\ UNCHANGED <<window, sent, inbox, session, reader, handler, got, ended>>

-----------------------------------------------------------------------------
(* do_ws_write *)

\* Mutant of Written: what was written is put back behind the next one.
Written_Swaps ==
  /\ ~ended /\ writing # <<>>
  /\ got' = IF channel # <<>> THEN got \o channel ELSE got \o writing
  /\ writing' = IF channel # <<>> THEN writing ELSE <<>>
  /\ channel' = <<>>
  /\ UNCHANGED <<window, sent, inbox, session, reader, handler, lost, noted, ended>>

\* async_write is done and the next message is received.
Written ==
  /\ ~ended /\ writing # <<>>
  /\ got' = got \o writing
  /\ writing' = channel /\ channel' = <<>>
  /\ UNCHANGED <<window, sent, inbox, session, reader, handler, lost, noted, ended>>

-----------------------------------------------------------------------------
(* The end *)

\* The peer is gone or silent for 45 seconds, what it sent is not JSON, or a
\* call other than recover_session came first: one of the two coroutines
\* ends and the other is cancelled.
End ==
  /\ ~ended /\ ended' = TRUE
  /\ writing' = <<>> /\ channel' = <<>> /\ inbox' = <<>> /\ reader' = NoCall
  /\ UNCHANGED <<window, sent, session, handler, got, lost, noted>>

\* client_connection::close when the server stops: the cancel signals reach
\* the handlers that co_spawn has started, and only those.
Close ==
  /\ ~ended /\ ended' = TRUE
  /\ handler' = [q \in Calls |-> IF handler[q] = "running" THEN "done"
                                 ELSE handler[q]]
  /\ writing' = <<>> /\ channel' = <<>> /\ inbox' = <<>> /\ reader' = NoCall
  /\ UNCHANGED <<window, sent, session, got, lost, noted>>

Init ==
  /\ window \in 1..MaxWindow
  /\ sent = {} /\ inbox = <<>> /\ session \in BOOLEAN /\ reader = NoCall
  /\ handler = [q \in Calls |-> "none"]
  /\ writing = <<>> /\ channel = <<>> /\ got = <<>> /\ lost = {} /\ noted = {}
  /\ ended = FALSE

Server ==
  \/ ReadCall \/ ReadInvalid \/ ReadFirst \/ FirstReplies
  \/ \E q \in Calls : Start(q) \/ Reply(q)
  \/ Written

Next ==
  \/ Server
  \/ \E q \in Calls : ClientSends(q)
  \/ \E n \in Notes : Notify(n)
  \/ End \/ Close

Spec == Init /\ [][Next]_vars

\* Reader, writer and handlers are coroutines of one io_context that runs
\* all that is ready, and every handler returns in the end: the database and
\* the scripts have time limits.
Fairness ==
  /\ WF_vars(ReadCall \/ ReadInvalid \/ ReadFirst)
  /\ WF_vars(FirstReplies) /\ WF_vars(Written)
  /\ \A q \in Calls : WF_vars(Start(q)) /\ WF_vars(Reply(q))

FairSpec == Spec /\ Fairness

-----------------------------------------------------------------------------
(* Properties *)

\* Type correctness; the writer is busy whenever the buffer is not empty.
TypeOK ==
  /\ window \in 1..MaxWindow
  /\ sent \subseteq Calls /\ inbox \in Seq(Calls) /\ session \in BOOLEAN
  /\ reader \in Calls \cup {NoCall}
  /\ handler \in [Calls -> HandlerStates]
  /\ writing \in Seq(Messages) /\ Len(writing) <= 1
  /\ channel \in Seq(Messages) /\ Len(channel) <= Len(writing)
  /\ got \in Seq(Messages) /\ lost \subseteq Messages
  /\ noted \subseteq Notes /\ ended \in BOOLEAN

\* A connection is a queue that loses nothing before it holds two messages.
Fifo == INSTANCE LossyFifo WITH queue <- writing \o channel, Capacity <- 2

FifoSpec == Fifo!Spec

\* Every call that is sent is answered, unless the connection ends, which is
\* the promise of the comment that the id finds the answer of every call. An
\* answer finds the buffer full, and is dropped, only of a client that leaves
\* more than two calls unanswered, or when a notification came.
EveryCallAnswered ==
  \A q \in Calls :
    q \in sent ~> \/ ended \/ q \in Elements(got)
                  \/ q \in lost /\ (window > 2 \/ noted # {})
=============================================================================
