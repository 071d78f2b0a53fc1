------------------------------ MODULE UserScript ------------------------------
(***************************************************************************)
(* run_script: a script in a node process, with a pipe to its input and    *)
(* one from its output, a coroutine on each, a supervisor that answers its *)
(* openat calls, and a timer. The script does what it likes: it need not   *)
(* read, need not write, need not end, and its calls of openat wait for    *)
(* the supervisor. Data are counted in buffers; a pipe holds Capacity.     *)
(*                                                                         *)
(* The call, its timer and the supervisor share an executor of one thread. *)
(* The supervisor waits for the first openat without it, but then answers  *)
(* and polls for the next one without giving the thread back. The reader   *)
(* and the feeder run on another io_context: to cancel them is to tell     *)
(* them, and they end when they get there.                                 *)
(***************************************************************************)
EXTENDS Naturals

CONSTANTS
  Body,     \* length of the request body, 0 for the call without one
  Output,   \* bound: what the script writes
  Capacity, \* of a pipe
  NoResult  \* the call has not returned

ASSUME ConstantsAssumption ==
  Body \in Nat /\ Output \in Nat /\ Capacity \in Nat \ {0} /\ NoResult \notin Nat

VARIABLES
  pc,         \* run_script
  result,     \* what it returns; 0 for the empty string
  process,    \* the process: "none", "running", "openat" or "exited"
  stdout,     \* the script holds its output open
  input,      \* buffers in the input pipe
  output,     \* buffers in the output pipe
  written,    \* what the script has written
  reader,     \* read_all_pipe_data: "none", "reading", "eof", "told" to end
              \* or "cancelled"
  out,        \* what it has read
  feeder,     \* stdin_feader: "none", "feeding", "done", "told" or "cancelled"
  fed,        \* what it has written
  timer,      \* "off", "running" or "fired"
  supervisor  \* "off", "waiting", or "polling" on the thread of the call

vars == <<pc, result, process, stdout, input, output, written, reader, out,
          feeder, fed, timer, supervisor>>

pipes == <<input, output, written, out, fed>>

Init ==
  /\ pc = "start" /\ result = NoResult /\ process = "none" /\ stdout = FALSE
  /\ input = 0 /\ output = 0 /\ written = 0 /\ out = 0 /\ fed = 0
  /\ reader = "none" /\ feeder = "none" /\ timer = "off" /\ supervisor = "off"

\* A coroutine that still runs is told to end.
Told(state) == IF state \in {"reading", "feeding"} THEN "told" ELSE state

-----------------------------------------------------------------------------
(* run_script: its steps need the thread *)

ThreadFree == supervisor # "polling"

\* The process and the coroutines are started. Without a body the input is
\* closed.
Spawn ==
  /\ pc = "start" /\ pc' = "await"
  /\ process' = "running" /\ stdout' = TRUE /\ supervisor' = "waiting"
  /\ reader' = "reading" /\ timer' = "running"
  /\ feeder' = IF Body = 0 THEN "done" ELSE "feeding"
  /\ UNCHANGED <<result, pipes>>

\* There is no node, or no pipe: the call returns the empty string or throws.
SpawnFails ==
  /\ pc = "start" /\ pc' = "done" /\ result' = 0
  /\ UNCHANGED <<process, stdout, pipes, reader, feeder, timer, supervisor>>

\* The reader was first.
OutputEnded ==
  /\ pc = "await" /\ reader = "eof" /\ ThreadFree
  /\ pc' = "linger" /\ timer' = "off"
  /\ UNCHANGED <<result, process, stdout, pipes, reader, feeder, supervisor>>

\* Mutant of TimedOut: the process is left to itself.
TimedOut_Leaves ==
  /\ pc = "await" /\ timer = "fired" /\ ThreadFree
  /\ pc' = "done" /\ result' = 0 /\ supervisor' = "off"
  /\ reader' = Told(reader) /\ feeder' = Told(feeder)
  /\ UNCHANGED <<process, stdout, pipes, timer>>

\* The timer was first: the wait for the reader is given up, the process is
\* killed, and the call returns without waiting for the two coroutines.
TimedOut ==
  /\ pc = "await" /\ timer = "fired" /\ ThreadFree
  /\ process' = "exited" /\ stdout' = FALSE
  /\ pc' = "done" /\ result' = 0 /\ supervisor' = "off"
  /\ reader' = Told(reader) /\ feeder' = Told(feeder)
  /\ UNCHANGED <<pipes, timer>>

\* Mutant of Linger: a process that runs on is not killed.
Linger_Waits ==
  /\ pc = "linger" /\ ThreadFree /\ pc' = "wait" /\ supervisor' = "off"
  /\ UNCHANGED <<result, process, stdout, pipes, reader, feeder, timer>>

\* The process gets 12 milliseconds to exit; if it has not, it is killed. The
\* supervisor is cancelled.
Linger ==
  /\ pc = "linger" /\ ThreadFree /\ pc' = "wait" /\ supervisor' = "off"
  /\ process' = "exited" /\ stdout' = FALSE
  /\ UNCHANGED <<result, pipes, reader, feeder, timer>>

\* The thread waits for the process, and the coroutine frame goes.
Wait ==
  /\ pc = "wait" /\ process = "exited" /\ pc' = "done" /\ result' = out
  /\ feeder' = Told(feeder)
  /\ UNCHANGED <<process, stdout, pipes, reader, timer, supervisor>>

-----------------------------------------------------------------------------
(* The coroutines and the timer *)

ReadSome ==
  /\ reader = "reading" /\ output > 0
  /\ output' = output - 1 /\ out' = out + 1
  /\ UNCHANGED <<pc, result, process, stdout, input, written, reader, feeder,
                 fed, timer, supervisor>>

\* Mutant of ReadEof: an empty pipe is the end.
ReadEof_Empty ==
  /\ reader = "reading" /\ output = 0 /\ reader' = "eof"
  /\ UNCHANGED <<pc, result, process, stdout, pipes, feeder, timer, supervisor>>

\* The end is seen when nobody holds the output open any more.
ReadEof ==
  /\ reader = "reading" /\ output = 0 /\ ~stdout /\ reader' = "eof"
  /\ UNCHANGED <<pc, result, process, stdout, pipes, feeder, timer, supervisor>>

\* The read that was under way is aborted, or had already brought something.
ReadAborted ==
  /\ reader = "told" /\ reader' = "cancelled"
  /\ \/ UNCHANGED <<output, out>>
     \/ output > 0 /\ output' = output - 1 /\ out' = out + 1
  /\ UNCHANGED <<pc, result, process, stdout, input, written, feeder, fed, timer,
                 supervisor>>

\* The body is written as long as the pipe has room.
Feed ==
  /\ feeder = "feeding" /\ process # "exited" /\ fed < Body /\ input < Capacity
  /\ input' = input + 1 /\ fed' = fed + 1
  /\ UNCHANGED <<pc, result, process, stdout, output, written, reader, out,
                 feeder, timer, supervisor>>

\* All is written, or the process is gone and the write fails; or the write is
\* aborted.
FeedEnds ==
  /\ \/ /\ feeder = "feeding" /\ (fed = Body \/ process = "exited")
        /\ feeder' = "done"
     \/ feeder = "told" /\ feeder' = "cancelled"
  /\ UNCHANGED <<pc, result, process, stdout, pipes, reader, timer, supervisor>>

Fire ==
  /\ timer = "running" /\ timer' = "fired"
  /\ UNCHANGED <<pc, result, process, stdout, pipes, reader, feeder, supervisor>>

\* The notification wakes the supervisor, when the thread is free.
Notified ==
  /\ supervisor = "waiting" /\ process = "openat" /\ supervisor' = "polling"
  /\ UNCHANGED <<pc, result, process, stdout, pipes, reader, feeder, timer>>

\* It lets the process open a file or gives it an error, and polls again.
Answer ==
  /\ supervisor = "polling" /\ process = "openat" /\ process' = "running"
  /\ UNCHANGED <<pc, result, stdout, pipes, reader, feeder, timer, supervisor>>

\* No further call came within a millisecond: it waits.
PollEmpty ==
  /\ supervisor = "polling" /\ process # "openat" /\ supervisor' = "waiting"
  /\ UNCHANGED <<pc, result, process, stdout, pipes, reader, feeder, timer>>

\* A notification that cannot be received, or is not valid any more, ends the
\* supervisor.
SupervisorEnds ==
  /\ supervisor = "polling" /\ supervisor' = "off"
  /\ UNCHANGED <<pc, result, process, stdout, pipes, reader, feeder, timer>>

-----------------------------------------------------------------------------
(* The script *)

Reads ==
  /\ process = "running" /\ input > 0 /\ input' = input - 1
  /\ UNCHANGED <<pc, result, process, stdout, output, written, reader, out,
                 feeder, fed, timer, supervisor>>

Writes ==
  /\ process = "running" /\ stdout /\ output < Capacity /\ written < Output
  /\ output' = output + 1 /\ written' = written + 1
  /\ UNCHANGED <<pc, result, process, stdout, input, reader, out, feeder, fed,
                 timer, supervisor>>

Opens ==
  /\ process = "running" /\ process' = "openat"
  /\ UNCHANGED <<pc, result, stdout, pipes, reader, feeder, timer, supervisor>>

\* The script closes its output, or exits.
Closes ==
  /\ process = "running" /\ stdout' = FALSE /\ process' \in {"running", "exited"}
  /\ UNCHANGED <<pc, result, pipes, reader, feeder, timer, supervisor>>

-----------------------------------------------------------------------------
Call == Spawn \/ SpawnFails \/ OutputEnded \/ TimedOut \/ Linger \/ Wait
Reader == ReadSome \/ ReadEof \/ ReadAborted
Coroutines == Reader \/ Feed \/ FeedEnds
Supervisor == Notified \/ Answer \/ PollEmpty \/ SupervisorEnds
Script == Reads \/ Writes \/ Opens \/ Closes

Next == Call \/ Coroutines \/ Fire \/ Supervisor \/ Script

Spec == Init /\ [][Next]_vars

\* The io threads run what is ready and a timer fires. The executor's queue is
\* first in, first out: a call that is ready again and again when the thread
\* is free gets its turn. The supervisor answers, and leaves its loop when the
\* process calls no more. Nothing is asked of the script.
FairSpec ==
  /\ Spec /\ SF_vars(Call) /\ WF_vars(Reader) /\ WF_vars(Fire)
  /\ WF_vars(Answer) /\ WF_vars(PollEmpty)

-----------------------------------------------------------------------------
(* Properties *)

\* Type correctness; no pipe holds more than it can.
TypeOK ==
  /\ pc \in {"start", "await", "linger", "wait", "done"}
  /\ result \in Nat \cup {NoResult}
  /\ process \in {"none", "running", "openat", "exited"}
  /\ stdout \in BOOLEAN /\ input \in 0..Capacity /\ output \in 0..Capacity
  /\ written \in 0..Output /\ out \in 0..Output /\ fed \in 0..Body
  /\ reader \in {"none", "reading", "eof", "told", "cancelled"}
  /\ feeder \in {"none", "feeding", "done", "told", "cancelled"}
  /\ timer \in {"off", "running", "fired"}
  /\ supervisor \in {"off", "waiting", "polling"}

\* A result is all that the script has written or it is empty: it is never cut
\* short, whatever came first of the script's end and the timer.
AllOrNothing == pc = "done" => result \in {0, written}

\* When the call has returned the process is gone, and so is everybody who
\* polls for it. A reader that is still there was told to end by a timer, of
\* a call that returned nothing: what it reads is in no result.
NothingLeft ==
  pc = "done" =>
    /\ process \in {"none", "exited"} /\ supervisor = "off"
    /\ reader \in {"reading", "told"} =>
         reader = "told" /\ timer = "fired" /\ result = 0

\* The call returns and its reader ends, whatever the script does: reads or
\* not, fills its pipe, waits for a supervisor that is gone, closes its output
\* and runs on. The exception: a script that calls openat for ever, always
\* within a millisecond, and keeps the supervisor on the thread of the call
\* and of its timer.
CallEnds ==
  \/ <>(pc = "done" /\ reader \notin {"reading", "told"})
  \/ <>[](supervisor = "polling") /\ []<>(process = "openat")
=============================================================================
