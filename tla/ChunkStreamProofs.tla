-------------------------- MODULE ChunkStreamProofs --------------------------
(***************************************************************************)
(* Theorems about ChunkStream, for any streams, callers, channel capacity  *)
(* and bounds: streams use the session as any thread may, so that all that *)
(* is proved of RkllmSession holds beside them, and what a consumer gets.  *)
(***************************************************************************)
EXTENDS ChunkStream, RkllmSessionProofs, SequenceTheorems

allVars == <<sessionVars, streamVars>>

(***************************************************************************)
(* A stream's step as the session sees it: a step of the thread of its     *)
(* blocking task, or nothing.                                              *)
(***************************************************************************)
LEMMA StreamStepIsSessionStep == [StreamNext]_allVars => [Next]_vars
<1> SUFFICES ASSUME [StreamNext]_allVars
             PROVE  [Next]_vars
  OBVIOUS
<1> USE StreamsAssumption
<1>1. ASSUME NEW t \in Threads, InSession(t)
      PROVE  Next
  BY <1>1 DEF InSession, Next
<1>2. ASSUME NEW t \in Callers, CallerStep(t)
      PROVE  Next
  BY <1>2 DEF CallerStep, Callers, Next
<1>3. ASSUME NEW t \in Callers, NEW s \in Streams, Spawn(t, s)
      PROVE  Next
  BY <1>3 DEF Spawn, Callers, Next
<1>4. ASSUME NEW s \in Streams, TaskStep(s)
      PROVE  [Next]_vars
  <2>1. CASE TaskStarts(s)
    BY <2>1 DEF TaskStarts, BeginCall, Next
  <2>2. CASE SendChunk(s)
    BY <2>2 DEF SendChunk, ClosureStep, Controls, Next
  <2>3. CASE SendFails(s)
    BY <2>3 DEF SendFails, ControlOfFailure, ClosureStep, Controls, Next
  <2>4. CASE TaskDropsSession(s)
    BY <2>4 DEF TaskDropsSession, Next
  <2>5. CASE TaskDropsSender(s) \/ TaskCompletes(s)
    BY <2>5 DEF TaskDropsSender, TaskCompletes, sessionVars
  <2> QED
    BY <1>4, <2>1, <2>2, <2>3, <2>4, <2>5 DEF TaskStep
<1>5. ASSUME NEW s \in Streams, TaskCancelled(s)
      PROVE  Next
  BY <1>5 DEF TaskCancelled, Next
<1>6. ASSUME NEW s \in Streams, Poll(s) \/ Close(s) \/ DropStream(s)
      PROVE  UNCHANGED vars
  BY <1>6 DEF Poll, PollChunk, PollPending, PollEnded, PollJoinPending,
              PollJoined, Close, DropStream, sessionVars
<1>7. CASE UNCHANGED allVars
  BY <1>7 DEF allVars, sessionVars
<1> QED
  BY <1>1, <1>2, <1>3, <1>4, <1>5, <1>6, <1>7 DEF StreamNext

(***************************************************************************)
(* Every behaviour of streams over a session is a behaviour of the session.*)
(***************************************************************************)
THEOREM StreamsImplementSession == StreamSpec => ImplementsSession
<1>1. StreamInit => Init
  BY DEF StreamInit
<1> QED
  BY <1>1, StreamStepIsSessionStep, PTL
  DEF StreamSpec, ImplementsSession, Spec, allVars

-----------------------------------------------------------------------------
(***************************************************************************)
(* The inductive invariant.  What a blocking task has got to decides where *)
(* its thread is and whether its sender lives.                             *)
(***************************************************************************)
TaskInv(s) ==
  /\ stream[s] = "none" <=> task[s] = "none"
  /\ sender[s] <=> task[s] \in {"queued", "running", "leaving"}
  /\ task[s] = "queued" => pc[s] = "idle"
  /\ pc[s] # "gone" <=> task[s] \in {"queued", "running"}

(***************************************************************************)
(* The chunks a consumer got and those in the channel are the ones that    *)
(* were sent, each at its place; nothing is left in a dropped channel.     *)
(***************************************************************************)
Delivery(got, left, n) ==
  /\ \A i \in 1..Len(got) : got[i] = i
  /\ \A i \in 1..Len(left) : left[i] = Len(got) + i
  /\ Len(got) + Len(left) = n

ChannelInv(s) ==
  IF stream[s] # "dropped" THEN Delivery(received[s], queue[s], sent[s])
  ELSE /\ Delivery(received[s], <<>>, Len(received[s]))
       /\ closed[s] /\ queue[s] = <<>>

(***************************************************************************)
(* The JoinHandle is gone once an end was seen, and the end is final: the  *)
(* task is over, and every chunk was received.                             *)
(***************************************************************************)
EndInv(s) ==
  /\ stream[s] = "none" \/ handle[s] => ended[s] = <<>>
  /\ stream[s] = "open" /\ ~handle[s] => ended[s] # <<>>
  /\ ended[s] # <<>> =>
       /\ Finished(s)
       /\ Len(received[s]) = sent[s]
       /\ ended[s][1] = Joined(s)

(***************************************************************************)
(* A refused chunk has stopped the run: while the task is still in the     *)
(* library, only the final callback can come.                              *)
(***************************************************************************)
LateInv(s) ==
  late[s] # 0 =>
    /\ late[s] = 1 /\ closed[s]
    /\ task[s] \notin {"none", "queued"}
    /\ pc[s] \in {"inside", "closure", "back", "idle", "gone"}
    /\ pc[s] = "inside" => stopping
    /\ pc[s] = "closure" => finished

(***************************************************************************)
(* A consumer that waits will be woken: it waits for the channel only while*)
(* there is nothing to read and more may come, and for the task only while *)
(* that has not finished (poll_next and its waker).                        *)
(***************************************************************************)
WakerInv(s) ==
  /\ waits[s] # "nothing" => stream[s] = "open" /\ queue[s] = <<>> /\ ~Ended(s)
  /\ waits[s] = "channel" => ~closed[s] /\ sender[s]
  /\ waits[s] = "task" => ChannelEnded(s) /\ handle[s] /\ ~Finished(s)

StreamInv ==
  /\ StreamTypeOK
  /\ \A s \in Streams :
       TaskInv(s) /\ ChannelInv(s) /\ EndInv(s) /\ LateInv(s) /\ WakerInv(s)

-----------------------------------------------------------------------------
(***************************************************************************)
(* The actions of a stream: those of its task and those of its consumer.   *)
(***************************************************************************)
OwnStep(s) ==
  \/ \E c \in Callers : Spawn(c, s)
  \/ TaskStep(s) \/ TaskCancelled(s)
  \/ Poll(s) \/ Close(s) \/ DropStream(s)

Kept(s) ==
  /\ stream'[s] = stream[s] /\ task'[s] = task[s] /\ handle'[s] = handle[s]
  /\ sender'[s] = sender[s] /\ closed'[s] = closed[s] /\ queue'[s] = queue[s]
  /\ sent'[s] = sent[s] /\ late'[s] = late[s] /\ received'[s] = received[s]
  /\ ended'[s] = ended[s] /\ waits'[s] = waits[s]

(***************************************************************************)
(* What the steps of others leave of a stream and of its task's thread: a  *)
(* run that was stopped stays stopped, and one at its end stays there.     *)
(***************************************************************************)
Elsewhere(s) ==
  /\ Kept(s)
  /\ pc'[s] = pc[s] /\ outcome'[s] = outcome[s]
  /\ pc[s] = "inside" /\ stopping => stopping'
  /\ pc[s] = "closure" /\ finished => finished'

(***************************************************************************)
(* A step of another thread inside the session (LockInv keeps it out of the*)
(* library while the task is in it).                                       *)
(***************************************************************************)
LEMMA OtherThread ==
  ASSUME SessionInv, NEW s \in Threads, NEW t \in Threads, s # t,
         \/ InSession(t)
         \/ CallerStep(t)
         \/ RunLlm(t) \/ DropSession(t)
         \/ \E control \in Controls : ClosureReturns(t, control)
  PROVE  /\ pc'[s] = pc[s] /\ outcome'[s] = outcome[s]
         /\ pc[s] = "inside" /\ stopping => stopping'
         /\ pc[s] = "closure" /\ finished => finished'
<1> USE DEF SessionInv, TypeOK, GoTo, callVars, arcVars, lockVars, closureVars,
            libraryVars
<1>1. pc[s] \in {"inside", "closure"} => pc[t] \notin InLibrary
  BY DEF LockInv, InLibrary
<1>2. CASE LockRun(t) \/ EnterRun(t) \/ FinishRun(t)
  BY <1>2 DEF LockRun, EnterRun, FinishRun
<1>3. CASE StartRun(t)
  BY <1>1, <1>3 DEF StartRun, InLibrary
<1>4. CASE TrampolineStep(t)
  BY <1>1, <1>4 DEF TrampolineStep, TrampolineNull, TrampolineRefuses,
                    TrampolineCalls, MakesCallback, InLibrary
<1>5. ASSUME NEW status \in {0, -1}, ReturnRun(t, status)
      PROVE  /\ pc'[s] = pc[s] /\ outcome'[s] = outcome[s]
             /\ pc[s] \notin {"inside", "closure"}
  BY <1>1, <1>5 DEF ReturnRun, InLibrary
<1>6. CASE CallStep(t)
  BY <1>6 DEF CallStep, Refuse, Queue
<1>7. CASE ClosureStep(t)
  BY <1>1, <1>7 DEF ClosureStep, ClosureReturns, ClosurePanics, InLibrary
<1>8. CASE OpStep(t)
  BY <1>8 DEF OpStep, EnterOp, ReturnOp, FinishOp
<1>9. CASE Abort(t)
  BY <1>9 DEF Abort, IsRunning
<1>10. CASE DropSession(t)
  BY <1>10 DEF DropSession
<1> QED
  BY <1>2, <1>3, <1>4, <1>5, <1>6, <1>7, <1>8, <1>9, <1>10, BeginCallCases
  DEF InSession, CallerStep, LibraryStep, TrampolineStep, BeginCall, ClosureStep

(***************************************************************************)
(* A step of one stream, or of the thread of its task, happens elsewhere   *)
(* for the others; so does a step of a caller that spawns no stream.       *)
(***************************************************************************)
LEMMA OthersStay ==
  ASSUME SessionInv, StreamTypeOK, NEW s \in Streams, NEW u \in Streams, u # s,
         OwnStep(u) \/ InSession(u)
  PROVE  Elsewhere(s)
<1> USE StreamsAssumption DEF Elsewhere
<1>1. CASE InSession(u)
  <2>1. Kept(s)
    BY <1>1 DEF InSession, streamVars, channelVars, historyVars, consumerVars, Kept
  <2> QED
    BY <1>1, <2>1, OtherThread
<1>2. ASSUME NEW t \in Callers, Spawn(t, u)
      PROVE  Elsewhere(s)
  BY <1>2 DEF Spawn, CloneSession, GoTo, callVars, libraryVars, historyVars, Set,
              Kept, StreamTypeOK, SessionInv, TypeOK
<1>3. CASE TaskStep(u) \/ TaskCancelled(u)
  <2> USE <1>3 DEF Kept, Set, StreamTypeOK, channelVars, historyVars, consumerVars
  <2>1. CASE TaskStarts(u)
    BY <2>1, OtherThread DEF TaskStarts
  <2>2. CASE SendChunk(u)
    BY <2>2, OtherThread DEF SendChunk, Wake, Controls
  <2>3. CASE SendFails(u)
    BY <2>3, OtherThread DEF SendFails, ControlOfFailure, Controls
  <2>4. CASE TaskDropsSession(u)
    BY <2>4, OtherThread DEF TaskDropsSession
  <2>5. CASE TaskCancelled(u)
    BY <2>5, OtherThread DEF TaskCancelled
  <2>6. CASE TaskDropsSender(u) \/ TaskCompletes(u)
    BY <2>6 DEF TaskDropsSender, TaskCompletes, Wake, sessionVars, vars, callVars,
                libraryVars
  <2> QED
    BY <2>1, <2>2, <2>3, <2>4, <2>5, <2>6 DEF TaskStep
<1>4. CASE Poll(u) \/ Close(u) \/ DropStream(u)
  BY <1>4 DEF Poll, PollChunk, PollPending, PollEnded, PollJoinPending, PollJoined,
              Close, DropStream, Kept, Set, StreamTypeOK, channelVars, historyVars,
              sessionVars, vars, callVars, libraryVars
<1> QED
  BY <1>1, <1>2, <1>3, <1>4 DEF OwnStep

LEMMA CallersElsewhere ==
  ASSUME SessionInv, NEW s \in Streams,
         \/ \E t \in Callers : InSession(t) \/ CallerStep(t)
         \/ UNCHANGED allVars
  PROVE  Elsewhere(s)
<1>1. ASSUME NEW t \in Callers, InSession(t) \/ CallerStep(t)
      PROVE  Elsewhere(s)
  <2>1. t \in Threads /\ s \in Threads /\ t # s
    BY StreamsAssumption DEF Callers
  <2>2. Kept(s)
    BY <1>1 DEF InSession, CallerStep, streamVars, channelVars, historyVars,
                consumerVars, Kept
  <2> QED
    BY <1>1, <2>1, <2>2, OtherThread DEF Elsewhere
<1>2. CASE UNCHANGED allVars
  BY <1>2 DEF allVars, streamVars, channelVars, historyVars, consumerVars, Kept,
              sessionVars, vars, callVars, libraryVars, Elsewhere
<1> QED
  BY <1>1, <1>2

(***************************************************************************)
(* Every step is a stream's own, or its task's thread moves on inside the  *)
(* session, or it happens elsewhere.                                       *)
(***************************************************************************)
LEMMA StepCases ==
  ASSUME SessionInv, StreamTypeOK, [StreamNext]_allVars, NEW s \in Streams
  PROVE  OwnStep(s) \/ InSession(s) \/ Elsewhere(s)
<1>1. \/ \E t \in Callers : InSession(t) \/ CallerStep(t)
      \/ UNCHANGED allVars
      \/ \E u \in Streams : OwnStep(u) \/ InSession(u)
  BY DEF StreamNext, OwnStep, Callers
<1> QED
  BY <1>1, CallersElsewhere, OthersStay

-----------------------------------------------------------------------------
(***************************************************************************)
(* An end is reported at most twice, an Err only as the first.             *)
(***************************************************************************)
Ends == {<<>>, <<"None">>, <<"Err">>, <<"Err", "None">>}

(***************************************************************************)
(* An Err is followed by a None, and nothing else (poll_next).             *)
(***************************************************************************)
LEMMA ErrThenNone == Append(<<"Err">>, "None") = <<"Err", "None">>
<1> DEFINE both == Append(<<"Err">>, "None")
<1>1. /\ both \in Seq({"None", "Err"}) /\ Len(both) = 2
      /\ both[1] = "Err" /\ both[2] = "None"
  OBVIOUS
<1>2. /\ <<"Err", "None">> \in Seq({"None", "Err"})
      /\ Len(<<"Err", "None">>) = 2
      /\ <<"Err", "None">>[1] = "Err" /\ <<"Err", "None">>[2] = "None"
  OBVIOUS
<1> HIDE DEF both
<1>3. \A i \in 1..2 : both[i] = <<"Err", "None">>[i]
  BY <1>1, <1>2
<1>4. both = <<"Err", "None">>
  BY <1>1, <1>2, <1>3, SeqEqual
<1> QED
  BY <1>4 DEF both

(***************************************************************************)
(* Whatever comes after an end that is not final is an end again, and the  *)
(* first one stays first (poll_next).                                      *)
(***************************************************************************)
LEMMA EndsAppend ==
  ASSUME NEW e \in Ends
  PROVE  /\ e = <<>> => Append(e, "None") \in Ends /\ Append(e, "Err") \in Ends
         /\ ~(e # <<>> /\ e[Len(e)] = "None") => Append(e, "None") \in Ends
         /\ e # <<>> => Append(e, "None")[1] = e[1]
<1>1. CASE e = <<>>
  <2>1. Append(e, "None") = <<"None">> /\ Append(e, "Err") = <<"Err">>
    BY <1>1
  <2> QED
    BY <1>1, <2>1 DEF Ends
<1>2. CASE e = <<"Err">>
  <2>1. Append(e, "None")[1] = "Err" /\ e # <<>> /\ e[1] = "Err"
    BY <1>2
  <2> QED
    BY <1>2, <2>1, ErrThenNone DEF Ends
<1>3. CASE e \in {<<"None">>, <<"Err", "None">>}
  <2>1. e[Len(e)] = "None" /\ e # <<>> /\ Append(e, "None")[1] = e[1]
    BY <1>3
  <2> QED
    BY <2>1
<1> QED
  BY <1>1, <1>2, <1>3 DEF Ends

(***************************************************************************)
(* The variables of the streams have their types before any stream is made.*)
(***************************************************************************)
LEMMA InitStreamType == StreamInit => StreamTypeOK
  BY BufferAssumption DEF StreamInit, StreamTypeOK, TaskPlaces

(***************************************************************************)
(* No step takes a variable of the streams out of its type; a chunk is sent *)
(* only where there is room (Capacity, HasRoom).                           *)
(***************************************************************************)
LEMMA NextStreamType ==
  ASSUME StreamInv, [StreamNext]_allVars
  PROVE  StreamTypeOK'
<1> USE DEF StreamTypeOK, Set
<1>0. StreamTypeOK
  BY DEF StreamInv
<1>1. CASE UNCHANGED streamVars
  BY <1>0, <1>1 DEF streamVars, channelVars, historyVars, consumerVars
<1>2. ASSUME NEW c \in Callers, NEW s \in Streams, Spawn(c, s)
      PROVE  StreamTypeOK'
  BY <1>0, <1>2 DEF Spawn, historyVars, TaskPlaces
<1>3. ASSUME NEW s \in Streams, TaskStep(s) \/ TaskCancelled(s)
      PROVE  StreamTypeOK'
  <2> USE <1>0, <1>3 DEF channelVars, historyVars, consumerVars, TaskPlaces
  <2>1. CASE TaskStarts(s)
    BY <2>1 DEF TaskStarts
  <2>2. CASE SendChunk(s)
    <3>1. queue[s] \in Seq(Nat) /\ sent[s] + 1 \in Nat
      OBVIOUS
    <3>2. /\ Append(queue[s], sent[s] + 1) \in Seq(Nat)
          /\ Len(Append(queue[s], sent[s] + 1)) = Len(queue[s]) + 1
      BY <3>1
    <3>3. Len(queue[s]) + 1 <= Capacity
      BY <2>2, <3>1, BufferAssumption DEF SendChunk, HasRoom, Capacity
    <3> QED
      BY <2>2, <3>1, <3>2, <3>3 DEF SendChunk, Wake, Capacity
  <2>3. CASE SendFails(s)
    BY <2>3 DEF SendFails
  <2>4. CASE TaskDropsSession(s)
    BY <2>4 DEF TaskDropsSession
  <2>5. CASE TaskDropsSender(s)
    BY <2>5 DEF TaskDropsSender, Wake
  <2>6. CASE TaskCompletes(s)
    BY <2>6 DEF TaskCompletes, Wake
  <2>7. CASE TaskCancelled(s)
    BY <2>7 DEF TaskCancelled
  <2> QED
    BY <2>1, <2>2, <2>3, <2>4, <2>5, <2>6, <2>7 DEF TaskStep
<1>4. ASSUME NEW s \in Streams, Poll(s)
      PROVE  StreamTypeOK'
  <2> USE <1>0 DEF channelVars, historyVars
  <2>1. CASE PollChunk(s)
    <3>1. queue[s] \in Seq(Nat) /\ received[s] \in Seq(Nat) /\ queue[s] # <<>>
      BY <2>1 DEF PollChunk
    <3>2. /\ Tail(queue[s]) \in Seq(Nat)
          /\ Len(Tail(queue[s])) = Len(queue[s]) - 1
          /\ Append(received[s], Head(queue[s])) \in Seq(Nat)
      BY <3>1
    <3> QED
      BY <2>1, <3>1, <3>2, BufferAssumption DEF PollChunk
  <2>2. CASE PollPending(s)
    BY <2>2 DEF PollPending
  <2>3. CASE PollEnded(s)
    BY <2>3, EndsAppend DEF PollEnded, MayPoll, Ended, Ends
  <2>4. CASE PollJoinPending(s)
    BY <2>4 DEF PollJoinPending
  <2>5. CASE PollJoined(s)
    <3>1. ended[s] = <<>>
      BY <2>5 DEF PollJoined, StreamInv, EndInv
    <3> QED
      BY <2>5, <3>1, EndsAppend DEF PollJoined, Joined, Ends
  <2> QED
    BY <1>4, <2>1, <2>2, <2>3, <2>4, <2>5 DEF Poll
<1>5. ASSUME NEW s \in Streams, Close(s)
      PROVE  StreamTypeOK'
  BY <1>0, <1>5 DEF Close, QueueAfterClose, historyVars
<1>6. ASSUME NEW s \in Streams, DropStream(s)
      PROVE  StreamTypeOK'
  BY <1>0, <1>6, BufferAssumption DEF DropStream, ClosedByDrop, historyVars
<1> QED
  BY <1>1, <1>2, <1>3, <1>4, <1>5, <1>6
  DEF StreamNext, InSession, CallerStep, allVars

-----------------------------------------------------------------------------
(***************************************************************************)
(* A task's thread is in the session exactly from its start to its end.    *)
(***************************************************************************)
LEMMA NextTaskInv ==
  ASSUME SessionInv, StreamInv, [StreamNext]_allVars, NEW s \in Streams
  PROVE  TaskInv(s)'
<1> USE StreamsAssumption DEF TaskInv, Set, GoTo
<1>0. StreamTypeOK /\ TypeOK /\ TaskInv(s)
  BY DEF StreamInv, SessionInv
<1> USE <1>0 DEF StreamTypeOK, TypeOK
<1>1. CASE Elsewhere(s)
  BY <1>1 DEF Elsewhere, Kept
<1>2. CASE InSession(s)
  <2>1. UNCHANGED <<stream, task, sender>>
    BY <1>2 DEF InSession, streamVars, channelVars, consumerVars
  <2>2. CASE LockRun(s) \/ EnterRun(s) \/ StartRun(s) \/ FinishRun(s)
    BY <2>1, <2>2 DEF LockRun, EnterRun, StartRun, FinishRun
  <2>3. CASE LibraryStep(s)
    BY <2>1, <2>3 DEF LibraryStep, TrampolineNull, TrampolineRefuses,
                      TrampolineCalls, MakesCallback, ReturnRun
  <2> QED
    BY <1>2, <2>2, <2>3 DEF InSession
<1>3. CASE OwnStep(s)
  <2>1. ASSUME NEW c \in Callers, Spawn(c, s)
        PROVE  TaskInv(s)'
    BY <2>1 DEF Spawn, CloneSession
  <2>2. CASE TaskStarts(s)
    BY <2>2 DEF TaskStarts, RunLlm, Refuse, Queue, channelVars, consumerVars
  <2>3. CASE SendChunk(s) \/ SendFails(s)
    BY <2>3 DEF SendChunk, SendFails, ClosureReturns, channelVars, consumerVars
  <2>4. CASE TaskDropsSession(s)
    BY <2>4 DEF TaskDropsSession, DropSession, channelVars, consumerVars
  <2>5. CASE TaskDropsSender(s) \/ TaskCompletes(s)
    BY <2>5 DEF TaskDropsSender, TaskCompletes, channelVars, sessionVars, vars
  <2>6. CASE TaskCancelled(s)
    BY <2>6 DEF TaskCancelled, DropSession
  <2>7. CASE Poll(s) \/ Close(s) \/ DropStream(s)
    BY <2>7 DEF Poll, PollChunk, PollPending, PollEnded, PollJoinPending, PollJoined,
                Close, DropStream, channelVars, sessionVars, vars
  <2> QED
    BY <1>3, <2>1, <2>2, <2>3, <2>4, <2>5, <2>6, <2>7 DEF OwnStep, TaskStep
<1> QED
  BY <1>1, <1>2, <1>3, StepCases

(***************************************************************************)
(* A chunk enters the channel behind those before it (blocking_send).      *)
(***************************************************************************)
LEMMA DeliverySent ==
  ASSUME NEW got \in Seq(Nat), NEW left \in Seq(Nat), NEW n \in Nat,
         Delivery(got, left, n)
  PROVE  Delivery(got, Append(left, n + 1), n + 1)
<1> DEFINE next == Append(left, n + 1)
           g == Len(got)
           l == Len(left)
<1>1. /\ l \in Nat /\ g \in Nat
      /\ Len(next) = l + 1 /\ next[l + 1] = n + 1
      /\ \A i \in 1..l : next[i] = left[i]
  OBVIOUS
<1>2. /\ \A i \in 1..g : got[i] = i
      /\ \A i \in 1..l : left[i] = g + i
      /\ g + l = n
  BY DEF Delivery
<1> HIDE DEF next, g, l
<1>3. ASSUME NEW i \in 1..Len(next)
      PROVE  next[i] = g + i
  <2>1. CASE i = l + 1
    <3>1. next[i] = n + 1
      BY <1>1, <2>1
    <3>2. n + 1 = g + i
      BY <1>1, <1>2, <2>1
    <3> QED
      BY <3>1, <3>2
  <2>2. CASE i \in 1..l
    BY <1>1, <1>2, <2>2
  <2> QED
    BY <1>1, <2>1, <2>2
<1>4. g + Len(next) = n + 1
  BY <1>1, <1>2
<1> QED
  BY <1>2, <1>3, <1>4 DEF Delivery, next, g

(***************************************************************************)
(* A consumer takes the oldest chunk of the channel (poll_next).           *)
(***************************************************************************)
LEMMA DeliveryReceived ==
  ASSUME NEW got \in Seq(Nat), NEW left \in Seq(Nat), NEW n \in Nat,
         Delivery(got, left, n), left # <<>>
  PROVE  Delivery(Append(got, Head(left)), Tail(left), n)
<1> DEFINE next == Append(got, Head(left))
           rest == Tail(left)
           g == Len(got)
           l == Len(left)
<1>1. /\ l \in Nat \ {0} /\ g \in Nat
      /\ Len(next) = g + 1 /\ next[g + 1] = left[1]
      /\ \A i \in 1..g : next[i] = got[i]
      /\ Len(rest) = l - 1
      /\ \A i \in 1..Len(rest) : rest[i] = left[i + 1]
  OBVIOUS
<1>2. /\ \A i \in 1..g : got[i] = i
      /\ \A i \in 1..l : left[i] = g + i
      /\ g + l = n
  BY DEF Delivery
<1> HIDE DEF next, rest, g, l
<1>3. ASSUME NEW i \in 1..Len(next)
      PROVE  next[i] = i
  <2>1. CASE i = g + 1
    BY <1>1, <1>2, <2>1
  <2>2. CASE i \in 1..g
    BY <1>1, <1>2, <2>2
  <2> QED
    BY <1>1, <2>1, <2>2
<1>4. ASSUME NEW i \in 1..Len(rest)
      PROVE  rest[i] = Len(next) + i
  BY <1>1, <1>2
<1>5. Len(next) + Len(rest) = n
  BY <1>1, <1>2
<1> QED
  BY <1>3, <1>4, <1>5 DEF Delivery, next, rest

(***************************************************************************)
(* What the consumer takes out of the channel is the next chunk.           *)
(***************************************************************************)
LEMMA DeliveryNext ==
  ASSUME NEW got \in Seq(Nat), NEW left \in Seq(Nat), NEW n \in Nat,
         Delivery(got, left, n), left # <<>>
  PROVE  Head(left) = Len(got) + 1 /\ Len(got) < n
<1> DEFINE g == Len(got)
           l == Len(left)
<1>1. l \in Nat \ {0} /\ g \in Nat /\ Head(left) = left[1]
  OBVIOUS
<1>2. (\A i \in 1..l : left[i] = g + i) /\ g + l = n
  BY DEF Delivery
<1> HIDE DEF g, l
<1>3. left[1] = g + 1 /\ g < n
  BY <1>1, <1>2
<1> QED
  BY <1>1, <1>3 DEF g

(***************************************************************************)
(* Dropping a stream keeps what its consumer got.                          *)
(***************************************************************************)
LEMMA DeliveryDropped ==
  ASSUME NEW got \in Seq(Nat), NEW left, NEW n, Delivery(got, left, n)
  PROVE  Delivery(got, <<>>, Len(got))
  BY DEF Delivery

(***************************************************************************)
(* What a consumer got and what the channel still holds stay in order and  *)
(* without a gap, whoever moves.                                           *)
(***************************************************************************)
LEMMA NextChannelInv ==
  ASSUME SessionInv, StreamInv, [StreamNext]_allVars, NEW s \in Streams
  PROVE  ChannelInv(s)'
<1> USE DEF ChannelInv
<1>0. /\ StreamTypeOK /\ ChannelInv(s)
      /\ queue[s] \in Seq(Nat) /\ received[s] \in Seq(Nat) /\ sent[s] \in Nat
  BY DEF StreamInv, StreamTypeOK
<1>1. CASE Kept(s)
  BY <1>0, <1>1 DEF Kept
<1>2. CASE SendChunk(s)
  <2>1. /\ received' = received /\ stream' = stream /\ stream[s] # "dropped"
    BY <1>0, <1>2 DEF SendChunk
  <2>2. queue'[s] = Append(queue[s], sent[s] + 1) /\ sent'[s] = sent[s] + 1
    BY <1>0, <1>2 DEF SendChunk, StreamTypeOK, Set
  <2> QED
    BY <1>0, <2>1, <2>2, DeliverySent
<1>3. CASE PollChunk(s)
  <2>1. /\ sent' = sent /\ stream' = stream /\ stream[s] # "dropped"
        /\ queue[s] # <<>>
    BY <1>3 DEF PollChunk, MayPoll, historyVars
  <2>2. /\ received'[s] = Append(received[s], Head(queue[s]))
        /\ queue'[s] = Tail(queue[s])
    BY <1>0, <1>3 DEF PollChunk, StreamTypeOK, Set
  <2> QED
    BY <1>0, <2>1, <2>2, DeliveryReceived
<1>4. CASE DropStream(s)
  <2>1. /\ received' = received /\ stream'[s] = "dropped" /\ closed'[s]
        /\ queue'[s] = <<>>
    BY <1>0, <1>4 DEF DropStream, ClosedByDrop, StreamTypeOK, Set
  <2> QED
    BY <1>0, <2>1, DeliveryDropped
<1>5. CASE Close(s)
  BY <1>0, <1>5 DEF Close, QueueAfterClose, StreamTypeOK, historyVars, Set
<1>6. ASSUME NEW c \in Callers, Spawn(c, s)
      PROVE  ChannelInv(s)'
  BY <1>0, <1>6 DEF Spawn, historyVars, StreamTypeOK, Set
<1>7. ASSUME UNCHANGED <<stream, closed, queue, sent, received>>
      PROVE  ChannelInv(s)'
  BY <1>0, <1>7
<1>8. CASE InSession(s) \/ SendFails(s) \/ TaskStarts(s) \/ TaskDropsSession(s)
           \/ TaskDropsSender(s) \/ TaskCompletes(s) \/ TaskCancelled(s)
           \/ PollPending(s) \/ PollEnded(s) \/ PollJoinPending(s) \/ PollJoined(s)
  BY <1>7, <1>8 DEF InSession, SendFails, TaskStarts, TaskDropsSession,
      TaskDropsSender, TaskCompletes, TaskCancelled, PollPending, PollEnded,
      PollJoinPending, PollJoined, streamVars, channelVars, historyVars, consumerVars
<1> QED
  BY <1>1, <1>2, <1>3, <1>4, <1>5, <1>6, <1>8, StepCases, <1>0
  DEF OwnStep, TaskStep, Poll, Elsewhere

(***************************************************************************)
(* Nothing reaches a stream after its end: its task is over, its channel   *)
(* empty, and the outcome of its run is not overwritten.                   *)
(***************************************************************************)
LEMMA NextEndInv ==
  ASSUME SessionInv, StreamInv, [StreamNext]_allVars, NEW s \in Streams
  PROVE  EndInv(s)'
<1> USE DEF EndInv, Finished
<1>0. /\ StreamTypeOK /\ EndInv(s) /\ TaskInv(s) /\ ChannelInv(s)
      /\ ended[s] \in Ends /\ s \in Threads
  BY StreamsAssumption DEF StreamInv, StreamTypeOK, Ends
<1>1. CASE Elsewhere(s)
  BY <1>0, <1>1 DEF Elsewhere, Kept, Joined
<1>2. ASSUME UNCHANGED <<stream, handle, ended>>, ended[s] = <<>>
      PROVE  EndInv(s)'
  BY <1>0, <1>2
<1>3. CASE InSession(s)
  <2>1. pc[s] # "gone" /\ pc[s] # "idle"
    BY <1>3 DEF InSession, LockRun, EnterRun, StartRun, LibraryStep, TrampolineNull,
      TrampolineRefuses, TrampolineCalls, MakesCallback, ReturnRun, FinishRun, GoTo
  <2>2. ended[s] = <<>>
    BY <1>0, <2>1 DEF TaskInv
  <2> QED
    BY <1>2, <1>3, <2>2 DEF InSession, streamVars, consumerVars
<1>4. ASSUME NEW c \in Callers, Spawn(c, s)
      PROVE  EndInv(s)'
  BY <1>0, <1>4 DEF Spawn, StreamTypeOK, Set
<1>5. CASE TaskStarts(s) \/ SendFails(s) \/ TaskDropsSession(s) \/ TaskDropsSender(s)
           \/ TaskCompletes(s) \/ TaskCancelled(s) \/ SendChunk(s)
  <2>1. UNCHANGED <<stream, handle, ended>>
    BY <1>5 DEF TaskStarts, SendFails, TaskDropsSession, TaskDropsSender,
      TaskCompletes, TaskCancelled, SendChunk, consumerVars
  <2>2. CASE task[s] \notin {"done", "cancelled"}
    BY <1>0, <1>2, <2>1, <2>2
  <2>3. CASE SendChunk(s) \/ SendFails(s)
    <3>1. pc[s] = "closure"
      BY <2>3 DEF SendChunk, SendFails, ClosureReturns, GoTo
    <3> QED
      BY <1>0, <2>2, <3>1 DEF TaskInv
  <2> QED
    BY <1>5, <2>2, <2>3 DEF TaskStarts, TaskDropsSession, TaskDropsSender,
      TaskCompletes, TaskCancelled
<1>6. CASE PollChunk(s)
  <2>1. ended[s] = <<>>
    <3>1. SUFFICES ASSUME ended[s] # <<>>
                   PROVE  FALSE
      OBVIOUS
    <3>2. /\ queue[s] \in Seq(Nat) /\ queue[s] # <<>> /\ received[s] \in Seq(Nat)
          /\ Len(received[s]) + Len(queue[s]) = Len(received[s])
      BY <1>0, <1>6, <3>1 DEF PollChunk, MayPoll, ChannelInv, Delivery, StreamTypeOK
    <3> DEFINE g == Len(received[s])
               l == Len(queue[s])
    <3>3. l \in Nat \ {0} /\ g \in Nat
      BY <3>2
    <3>4. g + l = g
      BY <3>2
    <3> QED
      <4> HIDE DEF g, l
      <4> QED
        BY <3>3, <3>4
  <2> QED
    BY <1>2, <1>6, <2>1 DEF PollChunk
<1>7. ASSUME UNCHANGED <<stream, handle, ended, received, sent, task, outcome>>
      PROVE  EndInv(s)'
  BY <1>0, <1>7 DEF Joined
<1>8. CASE PollPending(s) \/ PollJoinPending(s) \/ Close(s)
  BY <1>7, <1>8 DEF PollPending, PollJoinPending, Close, historyVars, sessionVars,
                    vars, callVars
<1>9. CASE PollEnded(s)
  <2>1. /\ ended[s] # <<>>
        /\ UNCHANGED <<stream, handle, received, sent, task, outcome>>
    BY <1>0, <1>9 DEF PollEnded, MayPoll, historyVars, sessionVars, vars, callVars
  <2>2. ended'[s] = Append(ended[s], "None")
    BY <1>0, <1>9 DEF PollEnded, StreamTypeOK, Set
  <2>3. ended'[s][1] = ended[s][1] /\ ended'[s] # <<>>
    BY <1>0, <2>1, <2>2, EndsAppend DEF Ends
  <2> QED
    BY <1>0, <1>9, <2>1, <2>3 DEF PollEnded, MayPoll, Joined
<1>10. CASE PollJoined(s)
  <2>1. /\ ended[s] = <<>> /\ stream[s] = "open" /\ Finished(s) /\ queue[s] = <<>>
        /\ UNCHANGED <<stream, received, sent, task, outcome>>
    BY <1>0, <1>10 DEF PollJoined, MayPoll, ChannelEnded, historyVars, sessionVars,
                       vars, callVars
  <2>2. ended'[s] = <<Joined(s)>> /\ ~handle'[s]
    BY <1>0, <1>10, <2>1 DEF PollJoined, StreamTypeOK, Set
  <2>3. Len(received[s]) = sent[s]
    BY <1>0, <2>1 DEF ChannelInv, Delivery, StreamTypeOK
  <2> QED
    BY <2>1, <2>2, <2>3 DEF Joined
<1>11. CASE DropStream(s)
  <2>1. /\ stream'[s] = "dropped" /\ ~handle'[s]
        /\ UNCHANGED <<ended, received, sent, task, outcome>>
    BY <1>0, <1>11 DEF DropStream, StreamTypeOK, Set, historyVars, sessionVars, vars,
                       callVars
  <2> QED
    BY <1>0, <2>1 DEF Joined
<1> QED
  BY <1>1, <1>3, <1>4, <1>5, <1>6, <1>8, <1>9, <1>10, <1>11, StepCases, <1>0
  DEF OwnStep, TaskStep, Poll

(***************************************************************************)
(* A run whose chunk was refused gets no second chunk: the refusal stops   *)
(* the run, and no other run of the session can start before it ended.     *)
(***************************************************************************)
LEMMA NextLateInv ==
  ASSUME SessionInv, StreamInv, [StreamNext]_allVars, NEW s \in Streams
  PROVE  LateInv(s)'
<1> USE DEF LateInv, GoTo
<1>0. /\ StreamTypeOK /\ TypeOK /\ RunInv /\ LateInv(s) /\ TaskInv(s)
      /\ late[s] \in Nat /\ s \in Threads
  BY StreamsAssumption DEF StreamInv, StreamTypeOK, SessionInv
<1>1. CASE Elsewhere(s)
  BY <1>0, <1>1 DEF Elsewhere, Kept
<1>2. CASE InSession(s)
  <2>1. UNCHANGED <<late, task, closed>>
    BY <1>2 DEF InSession, streamVars, historyVars, channelVars
  <2>2. CASE LockRun(s) \/ EnterRun(s) \/ StartRun(s) \/ FinishRun(s)
    BY <1>0, <2>1, <2>2 DEF LockRun, EnterRun, StartRun, FinishRun, TypeOK
  <2>3. CASE TrampolineStep(s)
    BY <1>0, <2>1, <2>3 DEF TrampolineStep, TrampolineNull, TrampolineRefuses,
      TrampolineCalls, MakesCallback, TypeOK
  <2>4. ASSUME NEW status \in {0, -1}, ReturnRun(s, status)
        PROVE  LateInv(s)'
    BY <1>0, <2>1, <2>4 DEF ReturnRun, TypeOK
  <2> QED
    BY <1>2, <2>2, <2>3, <2>4 DEF InSession, LibraryStep, TrampolineStep
<1>3. CASE SendFails(s)
  <2>1. /\ pc[s] = "closure" /\ pc'[s] = "inside" /\ stopping'
        /\ UNCHANGED <<task, closed>> /\ closed[s] /\ task[s] \notin {"none", "queued"}
    BY <1>0, <1>3 DEF SendFails, ControlOfFailure, ClosureReturns, TypeOK, TaskInv,
                      channelVars
  <2>2. late'[s] = IF finished THEN late[s] ELSE late[s] + 1
    BY <1>0, <1>3 DEF SendFails, StreamTypeOK, Set
  <2> QED
    BY <1>0, <2>1, <2>2
<1>4. CASE SendChunk(s)
  BY <1>0, <1>4 DEF SendChunk
<1>5. ASSUME NEW c \in Callers, Spawn(c, s)
      PROVE  LateInv(s)'
  BY <1>0, <1>5 DEF Spawn, TaskInv, historyVars
<1>6. ASSUME UNCHANGED <<late, pc, stopping, finished>>, closed[s] => closed'[s],
             task[s] \notin {"none", "queued"} => task'[s] \notin {"none", "queued"}
      PROVE  LateInv(s)'
  BY <1>0, <1>6
<1>7. CASE TaskDropsSender(s) \/ TaskCompletes(s)
  <2>1. UNCHANGED <<late, pc, stopping, finished, closed>>
    BY <1>7 DEF TaskDropsSender, TaskCompletes, historyVars, channelVars, sessionVars,
                vars, libraryVars
  <2>2. task'[s] \in {"silent", "done"}
    BY <1>0, <1>7 DEF TaskDropsSender, TaskCompletes, StreamTypeOK, Set
  <2> QED
    BY <1>6, <2>1, <2>2
<1>8. CASE TaskStarts(s) \/ TaskCancelled(s)
  BY <1>0, <1>8 DEF TaskStarts, TaskCancelled, historyVars
<1>9. CASE TaskDropsSession(s)
  BY <1>0, <1>9 DEF TaskDropsSession, DropSession, StreamTypeOK, TypeOK, Set, historyVars,
    channelVars
<1>10. CASE Poll(s)
  BY <1>0, <1>6, <1>10 DEF Poll, PollChunk, PollPending, PollEnded, PollJoinPending,
    PollJoined, historyVars, channelVars, sessionVars, vars, libraryVars
<1>11. CASE Close(s) \/ DropStream(s)
  BY <1>0, <1>6, <1>11 DEF Close, DropStream, ClosedByDrop, StreamTypeOK, Set, historyVars,
    sessionVars, vars, libraryVars
<1> QED
  BY <1>1, <1>2, <1>3, <1>4, <1>5, <1>7, <1>8, <1>9, <1>10, <1>11, StepCases, <1>0
  DEF OwnStep, TaskStep

(***************************************************************************)
(* No wake-up goes astray: whatever a consumer waits for has not happened, *)
(* and the step that makes it happen wakes the consumer.                   *)
(***************************************************************************)
LEMMA NextWakerInv ==
  ASSUME SessionInv, StreamInv, [StreamNext]_allVars, NEW s \in Streams
  PROVE  WakerInv(s)'
<1> USE DEF WakerInv, Ended, ChannelEnded, Finished
<1>0. /\ StreamTypeOK /\ WakerInv(s) /\ TaskInv(s) /\ EndInv(s)
  BY DEF StreamInv
<1>1. CASE Elsewhere(s)
  BY <1>0, <1>1 DEF Elsewhere, Kept
<1>2. ASSUME waits'[s] = "nothing"
      PROVE  WakerInv(s)'
  BY <1>2
<1>3. ASSUME UNCHANGED streamVars
      PROVE  WakerInv(s)'
  BY <1>0, <1>3 DEF streamVars, channelVars, consumerVars
<1>4. ASSUME UNCHANGED <<stream, closed, sender, queue, handle, ended>>,
             waits'[s] = waits[s],
             waits[s] = "task" => task'[s] \notin {"done", "cancelled"}
      PROVE  WakerInv(s)'
  BY <1>0, <1>4
<1>5. ASSUME NEW c \in Callers, Spawn(c, s)
      PROVE  WakerInv(s)'
  <2>1. waits[s] = "nothing" /\ waits' = waits
    BY <1>0, <1>5 DEF Spawn, StreamTypeOK
  <2> QED
    BY <1>2, <2>1
<1>6. CASE TaskStarts(s)
  BY <1>0, <1>4, <1>6 DEF TaskStarts, channelVars, consumerVars, StreamTypeOK, Set
<1>7. CASE TaskDropsSession(s)
  BY <1>0, <1>4, <1>7 DEF TaskDropsSession, channelVars, consumerVars, StreamTypeOK, Set
<1>8. CASE SendFails(s)
  BY <1>0, <1>4, <1>8 DEF SendFails, channelVars, consumerVars
<1>9. CASE SendChunk(s)
  <2>1. task[s] = "running" /\ sender[s]
    BY <1>0, <1>9 DEF SendChunk, ClosureReturns, GoTo, TaskInv
  <2>2. waits[s] # "task"
    BY <1>0, <1>9, <2>1 DEF SendChunk
  <2>3. waits'[s] = "nothing"
    BY <1>0, <1>9, <2>2 DEF SendChunk, Wake, StreamTypeOK, Set
  <2> QED
    BY <1>2, <2>3
<1>10. CASE TaskDropsSender(s)
  <2>1. UNCHANGED <<stream, queue, handle, ended, closed>> /\ task'[s] = "silent"
        /\ ~sender'[s]
    BY <1>0, <1>10 DEF TaskDropsSender, StreamTypeOK, Set
  <2>2. waits'[s] = IF waits[s] = "channel" THEN "nothing" ELSE waits[s]
    BY <1>0, <1>10 DEF TaskDropsSender, Wake, StreamTypeOK, Set
  <2> QED
    BY <1>0, <2>1, <2>2
<1>11. CASE TaskCompletes(s)
  <2>1. UNCHANGED <<stream, queue, handle, ended, closed, sender>> /\ ~sender[s]
    BY <1>0, <1>11 DEF TaskCompletes, TaskInv, channelVars
  <2>2. waits[s] # "channel"
    BY <1>0, <2>1
  <2>3. waits'[s] = IF waits[s] = "task" THEN "nothing" ELSE waits[s]
    BY <1>0, <1>11 DEF TaskCompletes, Wake, StreamTypeOK, Set
  <2>4. waits'[s] = "nothing"
    BY <1>0, <2>2, <2>3 DEF StreamTypeOK
  <2> QED
    BY <1>2, <2>4
<1>12. CASE TaskCancelled(s) \/ Close(s) \/ DropStream(s)
  BY <1>0, <1>2, <1>12 DEF TaskCancelled, Close, DropStream, StreamTypeOK, Set
<1>13. CASE PollChunk(s) \/ PollEnded(s) \/ PollJoined(s)
  BY <1>2, <1>13 DEF PollChunk, PollEnded, PollJoined, MayPoll
<1>14. CASE PollPending(s)
  <2>1. waits'[s] = "channel"
    BY <1>0, <1>14 DEF PollPending, StreamTypeOK, Set
  <2> QED
    BY <1>14, <2>1 DEF PollPending, MayPoll, channelVars
<1>15. CASE PollJoinPending(s)
  <2>1. waits'[s] = "task"
    BY <1>0, <1>15 DEF PollJoinPending, StreamTypeOK, Set
  <2> QED
    BY <1>15, <2>1 DEF PollJoinPending, MayPoll, channelVars
<1> QED
  BY <1>1, <1>3, <1>5, <1>6, <1>7, <1>8, <1>9, <1>10, <1>11, <1>12, <1>13, <1>14,
     <1>15, StepCases, <1>0
  DEF OwnStep, TaskStep, Poll, InSession

-----------------------------------------------------------------------------
(***************************************************************************)
(* The invariant holds before any stream is made.                          *)
(***************************************************************************)
LEMMA InitStreamInv == StreamInit => StreamInv
<1> SUFFICES ASSUME StreamInit
             PROVE  StreamInv
  OBVIOUS
<1>1. StreamTypeOK
  BY InitStreamType
<1>2. ASSUME NEW s \in Streams
      PROVE  TaskInv(s) /\ EndInv(s) /\ LateInv(s) /\ WakerInv(s)
  BY StreamsAssumption DEF StreamInit, Init, TaskInv, EndInv, LateInv, WakerInv
<1>3. ASSUME NEW s \in Streams
      PROVE  ChannelInv(s)
  BY DEF StreamInit, ChannelInv, Delivery
<1> QED
  BY <1>1, <1>2, <1>3 DEF StreamInv

(***************************************************************************)
(* The session's invariant and the streams' hold together in every state:  *)
(* no step of any stream, task or caller breaks them.                      *)
(***************************************************************************)
THEOREM StreamInvariant == StreamSpec => [](SessionInv /\ StreamInv)
<1>1. StreamInit => SessionInv /\ StreamInv
  BY InitSessionInv, InitStreamInv DEF StreamInit
<1>2. SessionInv /\ StreamInv /\ [StreamNext]_allVars => SessionInv' /\ StreamInv'
  BY StreamStepIsSessionStep, NextSessionInv, NextStreamType, NextTaskInv,
     NextChannelInv, NextEndInv, NextLateInv, NextWakerInv
  DEF StreamInv
<1> QED
  BY <1>1, <1>2, PTL DEF StreamSpec, allVars

(***************************************************************************)
(* Every variable of the streams keeps its type, and no channel ever holds *)
(* more than its capacity.                                                 *)
(***************************************************************************)
THEOREM StreamTypeCorrect == StreamSpec => []StreamTypeOK
<1>1. StreamInv => StreamTypeOK
  BY DEF StreamInv
<1> QED
  BY <1>1, StreamInvariant, PTL

(***************************************************************************)
(* Detached tasks included, nobody uses the handle once it is destroyed.   *)
(***************************************************************************)
THEOREM StreamsOutlived == StreamSpec => []NoUseAfterDestroy
<1>1. SessionInv => NoUseAfterDestroy
  BY DEF SessionInv, HolderInv, NoUseAfterDestroy
<1> QED
  BY <1>1, StreamInvariant, PTL

(***************************************************************************)
(* Chunks arrive in order, without a gap and without a loss, whatever the  *)
(* capacity of the channel (run_llm_async, close, poll_next).              *)
(***************************************************************************)
THEOREM ChunksDelivered == StreamSpec => []DeliveredInOrder
<1>1. ASSUME NEW got \in Seq(Nat), NEW left \in Seq(Nat), NEW n,
             Delivery(got, left, n)
      PROVE  /\ \A i \in DOMAIN (got \o left) : (got \o left)[i] = i
             /\ Len(got \o left) = n
  <2> DEFINE g == Len(got)
             l == Len(left)
  <2>1. /\ DOMAIN (got \o left) = 1..(g + l) /\ Len(got \o left) = g + l
        /\ \A i \in 1..g : (got \o left)[i] = got[i]
        /\ \A i \in (g + 1)..(g + l) : (got \o left)[i] = left[i - g]
        /\ g \in Nat /\ l \in Nat
    OBVIOUS
  <2>2. /\ \A i \in 1..g : got[i] = i
        /\ \A i \in 1..l : left[i] = g + i
        /\ g + l = n
    BY <1>1 DEF Delivery
  <2> HIDE DEF g, l
  <2>3. ASSUME NEW i \in 1..(g + l)
        PROVE  (got \o left)[i] = i
    <3>1. CASE i \in 1..g
      BY <2>1, <2>2, <3>1
    <3>2. CASE i \in (g + 1)..(g + l)
      BY <2>1, <2>2, <3>2
    <3> QED
      BY <2>1, <3>1, <3>2
  <2> QED
    BY <2>1, <2>2, <2>3
<1>2. StreamInv => DeliveredInOrder
  <2> SUFFICES ASSUME StreamInv, NEW s \in Streams
               PROVE  LET got == IF stream[s] = "dropped" THEN received[s]
                                                          ELSE received[s] \o queue[s]
                      IN  /\ \A i \in DOMAIN got : got[i] = i
                          /\ stream[s] # "dropped" => Len(got) = sent[s]
    BY DEF DeliveredInOrder
  <2>1. ChannelInv(s) /\ received[s] \in Seq(Nat) /\ queue[s] \in Seq(Nat)
    BY DEF StreamInv, StreamTypeOK
  <2>2. CASE stream[s] = "dropped"
    <3>1. \A i \in 1..Len(received[s]) : received[s][i] = i
      BY <2>1, <2>2 DEF ChannelInv, Delivery
    <3>2. DOMAIN received[s] = 1..Len(received[s])
      BY <2>1
    <3> QED
      BY <2>2, <3>1, <3>2
  <2>3. CASE stream[s] # "dropped"
    <3>1. Delivery(received[s], queue[s], sent[s])
      BY <2>1, <2>3 DEF ChannelInv
    <3>2. /\ \A i \in DOMAIN (received[s] \o queue[s]) : (received[s] \o queue[s])[i] = i
          /\ Len(received[s] \o queue[s]) = sent[s]
      BY <1>1, <2>1, <3>1
    <3> QED
      BY <2>3, <3>2
  <2> QED
    BY <2>2, <2>3
<1> QED
  BY <1>2, StreamInvariant, PTL

(***************************************************************************)
(* The end of a stream comes after all its chunks and tells the outcome of *)
(* its own run (poll_next).                                                *)
(***************************************************************************)
THEOREM EndIsResult == StreamSpec => []EndsWithResult
<1>1. StreamInv => EndsWithResult
  BY DEF StreamInv, EndInv, Finished, Joined, EndsWithResult
<1> QED
  BY <1>1, StreamInvariant, PTL

(***************************************************************************)
(* A stream that is closed or dropped is given at most one chunk more.     *)
(***************************************************************************)
THEOREM CancelIsPrompt == StreamSpec => []CancelledAtNextChunk
<1>1. StreamInv => CancelledAtNextChunk
  <2> SUFFICES ASSUME StreamInv, NEW s \in Streams
               PROVE  late[s] <= 1
    BY DEF CancelledAtNextChunk
  <2>1. late[s] \in Nat /\ (late[s] # 0 => late[s] = 1)
    BY DEF StreamInv, StreamTypeOK, LateInv
  <2> QED
    BY <2>1
<1> QED
  BY <1>1, StreamInvariant, PTL

-----------------------------------------------------------------------------
(***************************************************************************)
(* The guards of SessionStep: a thread that has a step of its call to take,*)
(* and a task that has one of its own.                                     *)
(***************************************************************************)
ThreadMayStep(t) ==
  \/ pc[t] = "blocked" /\ MayLock
  \/ pc[t] \in {"locked", "back"} /\ (call[t] \in RunCalls \/ t \in Callers)
  \/ pc[t] \in {"starting", "inside"}
  \/ pc[t] \in {"closure", "serving"} /\ t \in Callers

TaskMayStep(s) ==
  \/ task[s] = "queued" /\ pc[s] = "idle" /\ calls[s] < MaxCalls
  \/ pc[s] = "closure" /\ (closed[s] \/ HasRoom(s))
  \/ task[s] = "running" /\ pc[s] = "idle"
  \/ task[s] \in {"leaving", "silent"}

MayStep ==
  (\E t \in Threads : ThreadMayStep(t)) \/ \E s \in Streams : TaskMayStep(s)

(***************************************************************************)
(* What keeps a task from standing still: it may make its one call, makes  *)
(* no other, and no closure waits for its own thread.                      *)
(***************************************************************************)
CallInv ==
  /\ \A t \in Threads : pc[t] # "wedged"
  /\ \A s \in Streams :
       /\ task[s] = "queued" => calls[s] < MaxCalls
       /\ pc[s] \notin {"idle", "gone"} => call[s] \in RunCalls

LEMMA InitCallInv == StreamInit => CallInv
  BY StreamsAssumption DEF StreamInit, Init, CallInv

(***************************************************************************)
(* A thread of the session changes its own call and its own place, and no  *)
(* closure of a stream's session reenters it.                              *)
(***************************************************************************)
LEMMA CallsOfOthers ==
  ASSUME TypeOK, NEW t \in Threads,
         \/ InSession(t) \/ CallerStep(t)
         \/ RunLlm(t) \/ DropSession(t)
         \/ \E control \in Controls : ClosureReturns(t, control)
  PROVE  /\ \A u \in Threads \ {t} :
              pc'[u] = pc[u] /\ call'[u] = call[u] /\ calls'[u] = calls[u]
         /\ pc[t] # "wedged" => pc'[t] # "wedged"
<1> USE DEF TypeOK, GoTo, Count, callVars
<1>1. CASE LockRun(t) \/ EnterRun(t) \/ StartRun(t) \/ FinishRun(t)
  BY <1>1 DEF LockRun, EnterRun, StartRun, FinishRun
<1>2. CASE TrampolineStep(t)
  BY <1>2 DEF TrampolineStep, TrampolineNull, TrampolineRefuses, TrampolineCalls
<1>3. ASSUME NEW status \in {0, -1}, ReturnRun(t, status)
      PROVE  /\ \A u \in Threads \ {t} :
                  pc'[u] = pc[u] /\ call'[u] = call[u] /\ calls'[u] = calls[u]
             /\ pc'[t] # "wedged"
  BY <1>3 DEF ReturnRun
<1>4. CASE CallStep(t)
  BY <1>4 DEF CallStep, Refuse, Queue
<1>5. CASE ClosureStep(t)
  BY <1>5 DEF ClosureStep, ClosureReturns, ClosurePanics
<1>6. CASE OpStep(t)
  BY <1>6 DEF OpStep, EnterOp, ReturnOp, FinishOp
<1>7. CASE Abort(t) \/ DropSession(t)
  BY <1>7 DEF Abort, DropSession
<1> QED
  BY <1>1, <1>2, <1>3, <1>4, <1>5, <1>6, <1>7, BeginCallCases
  DEF InSession, CallerStep, LibraryStep, TrampolineStep, BeginCall, ClosureStep

(***************************************************************************)
(* A task makes one call, run_llm, and no step of anyone makes it another. *)
(***************************************************************************)
LEMMA NextCallInv ==
  ASSUME SessionInv, StreamInv, CallInv, [StreamNext]_allVars
  PROVE  CallInv'
<1>0. TypeOK /\ StreamTypeOK /\ \A s \in Streams : TaskInv(s)
  BY DEF SessionInv, StreamInv
<1> USE <1>0, StreamsAssumption
<1>1. ASSUME NEW t \in Threads, InSession(t) \/ (t \in Callers /\ CallerStep(t))
      PROVE  CallInv'
  <2>1. task' = task
    BY <1>1 DEF InSession, CallerStep, streamVars
  <2>2. /\ \A u \in Threads \ {t} :
             pc'[u] = pc[u] /\ call'[u] = call[u] /\ calls'[u] = calls[u]
        /\ pc[t] # "wedged" => pc'[t] # "wedged"
    BY <1>1, CallsOfOthers
  <2>3. InSession(t) => pc[t] \notin {"idle", "gone"} /\ calls' = calls
                        /\ (pc'[t] = "idle" \/ call' = call)
    BY DEF InSession, LockRun, EnterRun, StartRun, LibraryStep, TrampolineNull,
           TrampolineRefuses, TrampolineCalls, MakesCallback, ReturnRun,
           FinishRun, GoTo, callVars, TypeOK
  <2> QED
    BY <1>1, <2>1, <2>2, <2>3 DEF CallInv, Callers
<1>2. ASSUME NEW c \in Callers, NEW u \in Streams, Spawn(c, u)
      PROVE  CallInv'
  BY <1>2 DEF Spawn, CloneSession, GoTo, callVars, Set, TypeOK, StreamTypeOK, CallInv
<1>3. ASSUME NEW u \in Streams, TaskStep(u) \/ TaskCancelled(u)
      PROVE  CallInv'
  <2>1. CASE TaskStarts(u)
    BY <2>1 DEF TaskStarts, RunLlm, Refuse, Queue, GoTo, Count, Set, TypeOK,
                StreamTypeOK, CallInv, RunCalls
  <2>2. CASE SendChunk(u) \/ SendFails(u)
    <3>1. /\ task' = task /\ call' = call /\ calls' = calls
          /\ pc[u] = "closure" /\ pc' = [pc EXCEPT ![u] = "inside"]
      BY <2>2 DEF SendChunk, SendFails, ClosureReturns, GoTo, callVars
    <3> QED
      BY <3>1 DEF CallInv, TypeOK
  <2>3. CASE TaskDropsSession(u) \/ TaskCancelled(u)
    <3>1. /\ call' = call /\ calls' = calls /\ pc' = [pc EXCEPT ![u] = "gone"]
          /\ \E place \in {"leaving", "cancelled"} : task' = [task EXCEPT ![u] = place]
      BY <2>3 DEF TaskDropsSession, TaskCancelled, DropSession, GoTo, callVars, Set
    <3> QED
      BY <3>1 DEF CallInv, TypeOK, StreamTypeOK
  <2>4. CASE TaskDropsSender(u) \/ TaskCompletes(u)
    BY <2>4 DEF TaskDropsSender, TaskCompletes, Set, sessionVars, vars, callVars,
                CallInv, StreamTypeOK
  <2> QED
    BY <1>3, <2>1, <2>2, <2>3, <2>4 DEF TaskStep
<1>4. ASSUME \/ \E u \in Streams : Poll(u) \/ Close(u) \/ DropStream(u)
             \/ UNCHANGED allVars
      PROVE  CallInv'
  BY <1>4 DEF Poll, PollChunk, PollPending, PollEnded, PollJoinPending, PollJoined,
              Close, DropStream, allVars, streamVars, sessionVars, vars, callVars,
              CallInv
<1> QED
  BY <1>1, <1>2, <1>3, <1>4 DEF StreamNext, Callers

(***************************************************************************)
(* A run in its closure with no room for its chunk is unread: its consumer *)
(* has not closed or dropped the stream, and may poll it.                  *)
(***************************************************************************)
LEMMA BlockedRunUnread ==
  ASSUME SessionInv, StreamInv, NEW s \in Streams,
         pc[s] = "closure", ~closed[s], ~HasRoom(s)
  PROVE  lock = s /\ MayPoll(s) /\ Len(queue[s]) = Capacity
<1>0. /\ StreamTypeOK /\ TaskInv(s) /\ ChannelInv(s) /\ EndInv(s) /\ WakerInv(s)
      /\ s \in Threads
  BY StreamsAssumption DEF StreamInv
<1>1. lock = s
  BY <1>0 DEF SessionInv, LockInv, InLibrary
<1>2. /\ Len(queue[s]) = Capacity /\ queue[s] # <<>>
  <2> DEFINE n == Len(queue[s])
  <2>1. n \in Nat /\ n <= Capacity /\ ~(n < Capacity) /\ Capacity \in Nat \ {0}
    BY <1>0, BufferAssumption DEF StreamTypeOK, Capacity, HasRoom
  <2>2. queue[s] = <<>> => n = 0
    OBVIOUS
  <2> HIDE DEF n
  <2>3. n = Capacity /\ n # 0
    BY <2>1
  <2> QED
    BY <2>2, <2>3 DEF n
<1>3. task[s] \in {"queued", "running"}
  BY <1>0 DEF TaskInv
<1>4. stream[s] = "open"
  BY <1>0, <1>3 DEF TaskInv, ChannelInv, StreamTypeOK
<1>5. waits[s] = "nothing" /\ ~Ended(s)
  BY <1>0, <1>2, <1>3 DEF WakerInv, EndInv, Finished, Ended
<1> QED
  BY <1>1, <1>2, <1>4, <1>5 DEF MayPoll

(***************************************************************************)
(* Streams over one session wait for each other for ever in one case only: *)
(* nobody polls, closes or drops the one whose run holds the lock, and its *)
(* channel is full.  StallsOnlyUnread says so with ENABLED; here the guards*)
(* of the steps are spelled out (run_llm_async_buffered, poll_next).       *)
(***************************************************************************)
THEOREM StandstillIsUnread ==
  StreamSpec => [](Unfinished /\ ~MayStep => HeldUnread)
<1>1. ASSUME SessionInv, StreamInv, CallInv, Unfinished, ~MayStep
      PROVE  HeldUnread
  <2> USE <1>1
  <2>0. TypeOK /\ LockInv /\ FrameInv /\ StreamTypeOK
    BY DEF SessionInv, StreamInv
  <2>1. ASSUME NEW t \in Threads, pc[t] \in InLibrary \cup {"locked", "back"}
        PROVE  HeldUnread
    <3>1. pc[t] = "closure" /\ t \in Streams
      BY <2>0, <2>1 DEF MayStep, ThreadMayStep, CallInv, FrameInv, InLibrary, Callers
    <3>2. ~closed[t] /\ ~HasRoom(t)
      BY <3>1 DEF MayStep, TaskMayStep
    <3> QED
      BY <3>1, <3>2, BlockedRunUnread DEF HeldUnread
  <2>2. PICK s \in Streams : task[s] \notin {"none", "done", "cancelled"}
    BY DEF Unfinished
  <2>3. s \in Threads /\ TaskInv(s) /\ ~TaskMayStep(s) /\ ~ThreadMayStep(s)
    BY StreamsAssumption DEF StreamInv, MayStep
  <2>4. task[s] = "running" /\ pc[s] \notin {"idle", "gone"}
    BY <2>0, <2>2, <2>3 DEF StreamTypeOK, TaskPlaces, TaskInv, TaskMayStep, CallInv
  <2>5. CASE pc[s] = "blocked"
    <3>1. lock \in Threads
      BY <2>0, <2>3, <2>5 DEF ThreadMayStep, MayLock, TypeOK
    <3> QED
      BY <2>0, <2>1, <3>1 DEF LockInv
  <2>6. CASE pc[s] # "blocked"
    BY <2>0, <2>1, <2>3, <2>4, <2>6 DEF TypeOK, Places, InLibrary
  <2> QED
    BY <2>5, <2>6
<1>2. StreamSpec => []CallInv
  <2>1. SessionInv /\ StreamInv /\ CallInv /\ [StreamNext]_allVars => CallInv'
    BY NextCallInv
  <2> QED
    BY InitCallInv, <2>1, StreamInvariant, PTL DEF StreamSpec, allVars
<1> QED
  BY <1>1, <1>2, StreamInvariant, PTL
=============================================================================
