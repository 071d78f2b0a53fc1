-------------------------- MODULE UserScript_proofs --------------------------
(***************************************************************************)
(* The safety properties of UserScript for every length of the body and of *)
(* the output and every capacity of the pipes.                             *)
(***************************************************************************)
EXTENDS UserScript, TLAPS

\* Nothing is lost between the script and the reader, and the reader is at the
\* end only when there is nothing to come.
Conserved ==
  /\ out + output = written
  /\ reader = "eof" => output = 0 /\ ~stdout
  /\ process \in {"none", "exited"} => ~stdout

\* How far the call is when the reader and the process are where they are.
Stages ==
  /\ pc = "start" => process = "none" /\ reader = "none" /\ written = 0
  /\ pc \in {"linger", "wait"} => reader = "eof"
  /\ pc = "wait" => process = "exited" /\ supervisor = "off"
  /\ pc = "start" => supervisor = "off"
  /\ reader = "told" => pc = "done"

\* The inductive invariant
ScriptInv == TypeOK /\ Conserved /\ Stages /\ AllOrNothing /\ NothingLeft

-----------------------------------------------------------------------------
\* Every step keeps the types.
LEMMA TypeStep == TypeOK /\ Conserved /\ [Next]_vars => TypeOK'
<1> SUFFICES ASSUME TypeOK, Conserved, [Next]_vars PROVE TypeOK'
  OBVIOUS
<1> USE ConstantsAssumption
<1>1. CASE Call
  <2>1. CASE Spawn
    BY <2>1 DEF TypeOK, Spawn, pipes
  <2>2. CASE SpawnFails
    BY <2>2 DEF TypeOK, SpawnFails, pipes
  <2>3. CASE OutputEnded
    BY <2>3 DEF TypeOK, OutputEnded, pipes
  <2>4. CASE TimedOut
    BY <2>4 DEF TypeOK, TimedOut, Told, pipes
  <2>5. CASE Linger
    BY <2>5 DEF TypeOK, Linger, pipes
  <2>6. CASE Wait
    BY <2>6 DEF TypeOK, Wait, Told, pipes
  <2> QED
    BY <1>1, <2>1, <2>2, <2>3, <2>4, <2>5, <2>6 DEF Call
<1>2. CASE ReadSome \/ ReadAborted
  <2>1. out' \in 0..Output /\ output' \in 0..Capacity
    BY <1>2 DEF TypeOK, Conserved, ReadSome, ReadAborted
  <2> QED
    BY <1>2, <2>1 DEF TypeOK, ReadSome, ReadAborted
<1>3. CASE ReadEof \/ Feed \/ FeedEnds
  BY <1>3 DEF TypeOK, ReadEof, Feed, FeedEnds, pipes
<1>4. CASE Fire \/ Supervisor
  BY <1>4 DEF TypeOK, Fire, Supervisor, Notified, Answer, PollEmpty, SupervisorEnds, pipes
<1>5. CASE Script
  <2>1. CASE Reads
    BY <2>1 DEF TypeOK, Reads
  <2>2. CASE Writes
    BY <2>2 DEF TypeOK, Writes
  <2>3. CASE Opens
    BY <2>3 DEF TypeOK, Opens, pipes
  <2>4. CASE Closes
    BY <2>4 DEF TypeOK, Closes, pipes
  <2> QED
    BY <1>5, <2>1, <2>2, <2>3, <2>4 DEF Script
<1>6. CASE UNCHANGED vars
  BY <1>6 DEF TypeOK, vars
<1> QED
  BY <1>1, <1>2, <1>3, <1>4, <1>5, <1>6 DEF Next, Coroutines, Reader

\* Every step keeps what is written and read in balance: only the script adds
\* to the pipe, only the reader takes from it, and nobody does after the end.
LEMMA ConservedStep == TypeOK /\ Conserved /\ Stages /\ [Next]_vars => Conserved'
<1> SUFFICES ASSUME TypeOK, Conserved, Stages, [Next]_vars PROVE Conserved'
  OBVIOUS
<1> USE DEF TypeOK, Conserved
<1>1. CASE Call
  BY <1>1 DEF Stages, Call, Spawn, SpawnFails, OutputEnded, TimedOut, Told, Linger, Wait, pipes
<1>2. CASE Reader
  BY <1>2 DEF Reader, ReadSome, ReadEof, ReadAborted, pipes
<1>3. CASE Feed \/ FeedEnds
  BY <1>3 DEF Feed, FeedEnds, pipes
<1>4. CASE Fire \/ Supervisor
  BY <1>4 DEF Fire, Supervisor, Notified, Answer, PollEmpty, SupervisorEnds, pipes
<1>5. CASE Script
  BY <1>5 DEF Script, Reads, Writes, Opens, Closes, pipes
<1>6. CASE UNCHANGED vars
  BY <1>6 DEF vars
<1> QED
  BY <1>1, <1>2, <1>3, <1>4, <1>5, <1>6 DEF Next, Coroutines, Reader

\* Every step keeps the stages of the call.
LEMMA StagesStep == TypeOK /\ Conserved /\ Stages /\ [Next]_vars => Stages'
<1> SUFFICES ASSUME TypeOK, Conserved, Stages, [Next]_vars PROVE Stages'
  OBVIOUS
<1> USE DEF TypeOK, Stages
<1>1. CASE Call
  BY <1>1 DEF Call, Spawn, SpawnFails, OutputEnded, TimedOut, Told, Linger, Wait, pipes
<1>2. CASE Reader
  BY <1>2 DEF Reader, ReadSome, ReadEof, ReadAborted, pipes
<1>3. CASE Feed \/ FeedEnds
  BY <1>3 DEF Feed, FeedEnds, pipes
<1>4. CASE Fire \/ Supervisor
  BY <1>4 DEF Fire, Supervisor, Notified, Answer, PollEmpty, SupervisorEnds, pipes
<1>5. CASE Script
  BY <1>5 DEF Script, Reads, Writes, Opens, Closes, pipes
<1>6. CASE UNCHANGED vars
  BY <1>6 DEF vars
<1> QED
  BY <1>1, <1>2, <1>3, <1>4, <1>5, <1>6 DEF Next, Coroutines, Reader

\* A call that returns a result has read everything: it got to its end by way
\* of the reader's. After it nothing is written any more.
LEMMA ResultStep == ScriptInv /\ [Next]_vars => AllOrNothing' /\ NothingLeft'
<1> SUFFICES ASSUME ScriptInv, [Next]_vars PROVE AllOrNothing' /\ NothingLeft'
  OBVIOUS
<1> USE DEF ScriptInv, TypeOK, AllOrNothing, NothingLeft
<1>1. CASE Wait
  <2>1. out = written /\ reader = "eof" /\ supervisor = "off"
    BY <1>1 DEF Wait, Conserved, Stages
  <2> QED
    BY <1>1, <2>1 DEF Wait, pipes
<1>2. CASE Spawn \/ SpawnFails \/ OutputEnded \/ TimedOut \/ Linger
  BY <1>2 DEF Stages, Spawn, SpawnFails, OutputEnded, TimedOut, Told, Linger, pipes
<1>3. CASE Coroutines
  BY <1>3 DEF Coroutines, Reader, ReadSome, ReadEof, ReadAborted, Feed, FeedEnds, Stages, pipes
<1>4. CASE Fire \/ Supervisor
  BY <1>4 DEF Fire, Supervisor, Notified, Answer, PollEmpty, SupervisorEnds, pipes
<1>5. CASE Script
  BY <1>5 DEF Script, Reads, Writes, Opens, Closes, pipes
<1>6. CASE UNCHANGED vars
  BY <1>6 DEF vars
<1> QED
  BY <1>1, <1>2, <1>3, <1>4, <1>5, <1>6 DEF Next, Call

\* The invariant is inductive, so it always holds.
LEMMA ScriptInvHolds == Spec => []ScriptInv
<1>1. Init => ScriptInv
  <2> SUFFICES ASSUME Init PROVE ScriptInv
    OBVIOUS
  <2>1. TypeOK
    <3>1. 0 \in 0..Capacity /\ 0 \in 0..Output /\ 0 \in 0..Body
      BY ConstantsAssumption
    <3> QED
      BY <3>1, Zenon DEF Init, TypeOK
  <2>2. Conserved /\ Stages /\ AllOrNothing /\ NothingLeft
    BY DEF Init, Conserved, Stages, AllOrNothing, NothingLeft
  <2> QED
    BY <2>1, <2>2 DEF ScriptInv
<1>2. ScriptInv /\ [Next]_vars => ScriptInv'
  BY TypeStep, ConservedStep, StagesStep, ResultStep DEF ScriptInv
<1> QED
  BY <1>1, <1>2, PTL DEF Spec

-----------------------------------------------------------------------------
\* The state of the call, the pipes and the processes has its type.
THEOREM TypeCorrect == Spec => []TypeOK
BY ScriptInvHolds, PTL DEF ScriptInv

\* run_script returns all of the output or nothing.
THEOREM OutputIsWhole == Spec => []AllOrNothing
BY ScriptInvHolds, PTL DEF ScriptInv

\* run_script leaves no process behind and no supervisor, and a reader only
\* after a timeout, when it returns nothing.
THEOREM NothingStays == Spec => []NothingLeft
BY ScriptInvHolds, PTL DEF ScriptInv
==============================================================================
