------------------------ MODULE ChunkStreamRefinement ------------------------
(***************************************************************************)
(* ChunkStream implements SerialStreams, for any streams, callers, channel *)
(* capacity and bounds: whatever the blocking tasks, the lock, the channel *)
(* and the wakers do, a consumer sees what SerialStreams promises.         *)
(***************************************************************************)
EXTENDS ChunkStreamProofs

(***************************************************************************)
(* The variables of SerialStreams, as the streams show them.               *)
(***************************************************************************)
phaseBar == [s \in Streams |-> PhaseOf(s)]
runBar == [s \in Streams |-> RunOf(s)]
promisedVars == <<phaseBar, runBar, sent, late, received, ended>>

PromisedStep == [Promised!Next]_promisedVars

(***************************************************************************)
(* A stream that was not made yet has an open channel ahead of it.         *)
(***************************************************************************)
FreshInv == \A s \in Streams : stream[s] = "none" => ~closed[s]

LEMMA FreshStep ==
  ASSUME SessionInv, StreamInv, FreshInv, [StreamNext]_allVars
  PROVE  FreshInv'
<1> SUFFICES ASSUME NEW s \in Streams
             PROVE  stream'[s] = "none" => ~closed'[s]
  BY DEF FreshInv
<1>0. StreamTypeOK /\ (stream[s] = "none" => ~closed[s])
  BY DEF StreamInv, FreshInv
<1>1. CASE Elsewhere(s) \/ InSession(s)
  BY <1>0, <1>1 DEF Elsewhere, Kept, InSession, streamVars, channelVars, consumerVars
<1>2. ASSUME NEW c \in Callers, Spawn(c, s)
      PROVE  stream'[s] # "none"
  BY <1>0, <1>2 DEF Spawn, StreamTypeOK, Set
<1>3. CASE TaskStep(s) \/ TaskCancelled(s) \/ Poll(s)
  BY <1>0, <1>3 DEF TaskStep, TaskStarts, SendChunk, SendFails, TaskDropsSession,
    TaskDropsSender, TaskCompletes, TaskCancelled, Poll, PollChunk, PollPending,
    PollEnded, PollJoinPending, PollJoined, channelVars, consumerVars
<1>4. CASE Close(s) \/ DropStream(s)
  BY <1>0, <1>4 DEF Close, DropStream, StreamTypeOK, Set
<1> QED
  BY <1>0, <1>1, <1>2, <1>3, <1>4, StepCases DEF OwnStep

-----------------------------------------------------------------------------
(***************************************************************************)
(* A step shows of a stream only what it does to that stream.              *)
(***************************************************************************)
LEMMA ElsewhereShowsNothing ==
  ASSUME NEW s \in Streams, Elsewhere(s)
  PROVE  PhaseOf(s)' = PhaseOf(s) /\ RunOf(s)' = RunOf(s)
  BY DEF Elsewhere, Kept, PhaseOf, RunOf

LEMMA OwnStepShown ==
  ASSUME SessionInv, StreamTypeOK, NEW s \in Streams, OwnStep(s) \/ InSession(s),
         NEW phase, NEW run, PhaseOf(s)' = phase, RunOf(s)' = run
  PROVE  /\ phaseBar' = [phaseBar EXCEPT ![s] = phase]
         /\ runBar' = [runBar EXCEPT ![s] = run]
<1>1. \A u \in Streams : u # s => PhaseOf(u)' = PhaseOf(u) /\ RunOf(u)' = RunOf(u)
  BY OthersStay, ElsewhereShowsNothing
<1> QED
  BY <1>1 DEF phaseBar, runBar

LEMMA NothingShown ==
  ASSUME SessionInv, StreamTypeOK, NEW s \in Streams, OwnStep(s) \/ InSession(s),
         PhaseOf(s)' = PhaseOf(s), RunOf(s)' = RunOf(s)
  PROVE  phaseBar' = phaseBar /\ runBar' = runBar
<1>1. \A u \in Streams : PhaseOf(u)' = PhaseOf(u) /\ RunOf(u)' = RunOf(u)
  BY OthersStay, ElsewhereShowsNothing
<1> QED
  BY <1>1 DEF phaseBar, runBar

(***************************************************************************)
(* A run is served only while its task holds the lock.                     *)
(***************************************************************************)
LEMMA ServedHoldsLock ==
  ASSUME SessionInv, StreamInv, NEW s \in Streams, RunOf(s) = "served"
  PROVE  lock = s
<1>1. task[s] = "running" /\ pc[s] \notin {"blocked", "locked", "idle"}
  BY DEF RunOf
<1>2. pc[s] \in Places /\ pc[s] # "gone" /\ s \in Threads
  BY <1>1, StreamsAssumption DEF StreamInv, TaskInv, SessionInv, TypeOK
<1>3. pc[s] \in InLibrary \cup {"back"}
  BY <1>1, <1>2 DEF Places, InLibrary
<1> QED
  BY <1>2, <1>3 DEF SessionInv, LockInv

-----------------------------------------------------------------------------
(***************************************************************************)
(* The task inside the session: waiting for the lock shows nothing,        *)
(* entering the library is Serve, leaving the call is RunEnds.             *)
(***************************************************************************)
LEMMA InSessionPromised ==
  ASSUME SessionInv, StreamInv, NEW s \in Streams, InSession(s)
  PROVE  PromisedStep
<1>0. /\ StreamTypeOK /\ TypeOK /\ TaskInv(s) /\ s \in Threads
      /\ phaseBar[s] = PhaseOf(s) /\ runBar[s] = RunOf(s)
  BY StreamsAssumption DEF StreamInv, SessionInv, phaseBar, runBar
<1>1. /\ UNCHANGED <<task, sent, late, received, ended>>
      /\ PhaseOf(s)' = PhaseOf(s)
  BY DEF InSession, streamVars, channelVars, historyVars, consumerVars, PhaseOf
<1>2. pc[s] # "gone" /\ pc[s] # "idle"
  BY DEF InSession, LockRun, EnterRun, StartRun, LibraryStep, TrampolineNull,
    TrampolineRefuses, TrampolineCalls, MakesCallback, ReturnRun, FinishRun, GoTo
<1>3. task[s] = "running" /\ task'[s] = "running"
  BY <1>0, <1>1, <1>2 DEF TaskInv
<1>4. ASSUME RunOf(s)' = RunOf(s)
      PROVE  PromisedStep
  BY <1>0, <1>1, <1>4, NothingShown DEF PromisedStep, promisedVars
<1>5. CASE LockRun(s)
  BY <1>0, <1>3, <1>4, <1>5 DEF LockRun, GoTo, TypeOK, RunOf
<1>6. CASE StartRun(s)
  BY <1>0, <1>3, <1>4, <1>6 DEF StartRun, GoTo, TypeOK, RunOf
<1>7. CASE LibraryStep(s)
  <2>1. /\ pc[s] = "inside"
        /\ pc'[s] \in {"inside", "closure", "back"}
    BY <1>0, <1>7 DEF LibraryStep, TrampolineNull, TrampolineRefuses, TrampolineCalls,
      MakesCallback, ReturnRun, GoTo, TypeOK
  <2> QED
    BY <1>3, <1>4, <2>1 DEF RunOf
<1>8. CASE EnterRun(s)
  <2>1. pc[s] = "locked" /\ pc'[s] = "starting" /\ lock = s
    BY <1>0, <1>8 DEF EnterRun, GoTo, TypeOK, SessionInv, LockInv
  <2>2. RunOf(s) = "waiting" /\ RunOf(s)' = "served"
    BY <1>3, <2>1 DEF RunOf
  <2>3. \A other \in Streams : runBar[other] # "served"
    BY <2>1, <2>2, ServedHoldsLock DEF runBar
  <2>4. /\ phaseBar' = phaseBar
        /\ runBar' = [runBar EXCEPT ![s] = "served"]
    BY <1>0, <1>1, <2>2, OwnStepShown DEF phaseBar
  <2>5. Promised!Serve(s)
    BY <1>0, <1>1, <2>2, <2>3, <2>4
    DEF Promised!Serve, Promised!Becomes, phaseBar, runBar
  <2> QED
    BY <2>5 DEF PromisedStep, Promised!Next
<1>9. CASE FinishRun(s)
  <2>1. pc[s] = "back" /\ pc'[s] = "idle"
    BY <1>0, <1>9 DEF FinishRun, GoTo, TypeOK
  <2>2. RunOf(s) = "served" /\ RunOf(s)' = "over"
    BY <1>3, <2>1 DEF RunOf
  <2>3. /\ phaseBar' = phaseBar
        /\ runBar' = [runBar EXCEPT ![s] = "over"]
    BY <1>0, <1>1, <2>2, OwnStepShown DEF phaseBar
  <2>4. Promised!RunEnds(s)
    BY <1>0, <1>1, <2>2, <2>3
    DEF Promised!RunEnds, Promised!Becomes, phaseBar, runBar
  <2> QED
    BY <2>4 DEF PromisedStep, Promised!Next
<1> QED
  BY <1>5, <1>6, <1>7, <1>8, <1>9 DEF InSession

(***************************************************************************)
(* The closure: a chunk the channel takes is Make, one it refuses while the*)
(* run is generating is Refuse, and the final callback shows nothing then. *)
(***************************************************************************)
LEMMA SendPromised ==
  ASSUME SessionInv, StreamInv, NEW s \in Streams, SendChunk(s) \/ SendFails(s)
  PROVE  PromisedStep
<1>0. /\ StreamTypeOK /\ TypeOK /\ TaskInv(s) /\ ChannelInv(s) /\ LateInv(s)
      /\ s \in Threads /\ phaseBar[s] = PhaseOf(s) /\ runBar[s] = RunOf(s)
  BY StreamsAssumption DEF StreamInv, SessionInv, phaseBar, runBar
<1>1. /\ pc[s] = "closure" /\ pc'[s] = "inside"
      /\ UNCHANGED <<stream, task, closed, received, ended>>
  BY <1>0 DEF SendChunk, SendFails, ClosureReturns, GoTo, TypeOK, channelVars,
              consumerVars
<1>2. task[s] = "running" /\ stream[s] # "none"
  BY <1>0, <1>1 DEF TaskInv
<1>3. /\ RunOf(s) = "served" /\ RunOf(s)' = RunOf(s)
      /\ PhaseOf(s)' = PhaseOf(s)
  BY <1>1, <1>2 DEF RunOf, PhaseOf
<1>4. phaseBar' = phaseBar /\ runBar' = runBar
  BY <1>0, <1>3, NothingShown DEF OwnStep, TaskStep
<1>5. CASE SendChunk(s)
  <2>1. /\ ~closed[s] /\ Len(queue[s]) < Capacity /\ late' = late
        /\ sent' = [sent EXCEPT ![s] = sent[s] + 1]
    BY <1>5 DEF SendChunk, HasRoom, Set
  <2>2. stream[s] = "open" /\ PhaseOf(s) = "open"
    BY <1>0, <1>2, <2>1 DEF ChannelInv, StreamTypeOK, PhaseOf
  <2>3. sent[s] < Len(received[s]) + Capacity
    <3> DEFINE got == Len(received[s])
               left == Len(queue[s])
    <3>1. got + left = sent[s] /\ got \in Nat /\ left \in Nat
      BY <1>0, <2>2 DEF ChannelInv, Delivery, StreamTypeOK
    <3>2. left < Capacity /\ Capacity \in Nat
      BY <2>1, BufferAssumption DEF Capacity
    <3> HIDE DEF got, left
    <3>3. sent[s] < got + Capacity
      BY <3>1, <3>2
    <3> QED
      BY <3>3 DEF got
  <2>4. Promised!Make(s)
    BY <1>0, <1>1, <1>3, <1>4, <2>1, <2>2, <2>3 DEF Promised!Make, phaseBar, runBar
  <2> QED
    BY <2>4 DEF PromisedStep, Promised!Next
<1>6. CASE SendFails(s)
  <2>1. closed[s] /\ sent' = sent
        /\ late' = IF finished THEN late ELSE [late EXCEPT ![s] = late[s] + 1]
    BY <1>6 DEF SendFails, Set
  <2>2. CASE finished
    BY <1>1, <1>4, <2>1, <2>2 DEF PromisedStep, promisedVars
  <2>3. CASE ~finished
    <3>1. late[s] = 0
      BY <1>0, <1>1, <2>3 DEF LateInv
    <3>2. late[s] + 1 = 1
      BY <3>1
    <3>3. late' = [late EXCEPT ![s] = 1]
      BY <2>1, <2>3, <3>2
    <3>4. PhaseOf(s) \in {"closed", "dropped"}
      BY <1>0, <1>2, <2>1 DEF PhaseOf, StreamTypeOK
    <3>5. Promised!Refuse(s)
      BY <1>0, <1>1, <1>3, <1>4, <2>1, <3>1, <3>3, <3>4
      DEF Promised!Refuse, phaseBar, runBar
    <3> QED
      BY <3>5 DEF PromisedStep, Promised!Next
  <2> QED
    BY <2>2, <2>3
<1> QED
  BY <1>5, <1>6

(***************************************************************************)
(* The ends of a task: its call may be refused at once, or return; it is   *)
(* judged when its result is visible, or when it never ran.                *)
(***************************************************************************)
LEMMA TaskPromised ==
  ASSUME SessionInv, StreamInv, NEW s \in Streams,
         \/ TaskStarts(s) \/ TaskCancelled(s)
         \/ TaskDropsSession(s) \/ TaskDropsSender(s) \/ TaskCompletes(s)
  PROVE  PromisedStep
<1>0. /\ StreamTypeOK /\ TypeOK /\ TaskInv(s) /\ s \in Threads
      /\ phaseBar[s] = PhaseOf(s) /\ runBar[s] = RunOf(s)
      /\ OwnStep(s)
  BY StreamsAssumption DEF StreamInv, SessionInv, phaseBar, runBar, OwnStep, TaskStep
<1>1. UNCHANGED <<stream, closed, sent, late, received, ended>>
  BY DEF TaskStarts, TaskCancelled, TaskDropsSession, TaskDropsSender, TaskCompletes,
         channelVars, historyVars, consumerVars
<1>2. PhaseOf(s)' = PhaseOf(s)
  BY <1>1 DEF PhaseOf
<1>3. ASSUME RunOf(s)' = RunOf(s)
      PROVE  PromisedStep
  BY <1>0, <1>1, <1>2, <1>3, NothingShown DEF PromisedStep, promisedVars
<1>4. ASSUME NEW run, RunOf(s)' = run
      PROVE  phaseBar' = phaseBar /\ runBar' = [runBar EXCEPT ![s] = run]
  BY <1>0, <1>2, <1>4, OwnStepShown DEF phaseBar
<1>5. ASSUME RunOf(s) = "waiting", RunOf(s)' = "over"
      PROVE  PromisedStep
  <2>1. Promised!RunEnds(s)
    BY <1>0, <1>1, <1>4, <1>5 DEF Promised!RunEnds, Promised!Becomes, phaseBar, runBar
  <2> QED
    BY <2>1 DEF PromisedStep, Promised!Next
<1>6. ASSUME \/ RunOf(s) = "over" /\ RunOf(s)' \in {"Ok", "Err"}
             \/ RunOf(s) = "waiting" /\ RunOf(s)' = "Err"
      PROVE  PromisedStep
  <2>1. Promised!Judge(s)
    BY <1>0, <1>1, <1>4, <1>6
    DEF Promised!Judge, Promised!Becomes, Promised!Verdicts, phaseBar, runBar
  <2> QED
    BY <2>1 DEF PromisedStep, Promised!Next
<1>7. CASE TaskStarts(s)
  <2>1. /\ task[s] = "queued" /\ task'[s] = "running"
        /\ pc'[s] \in {"idle", "blocked"}
    BY <1>0, <1>7 DEF TaskStarts, RunLlm, Refuse, Queue, GoTo, TypeOK, StreamTypeOK, Set
  <2>2. RunOf(s) = "waiting" /\ RunOf(s)' \in {"waiting", "over"}
    BY <2>1 DEF RunOf
  <2> QED
    BY <1>3, <1>5, <2>2
<1>8. CASE TaskCancelled(s)
  <2>1. task[s] = "queued" /\ task'[s] = "cancelled"
    BY <1>0, <1>8 DEF TaskCancelled, StreamTypeOK, Set
  <2> QED
    BY <1>6, <2>1 DEF RunOf
<1>9. CASE TaskDropsSession(s)
  <2>1. task[s] = "running" /\ pc[s] = "idle" /\ task'[s] = "leaving"
    BY <1>0, <1>9 DEF TaskDropsSession, DropSession, GoTo, StreamTypeOK, Set
  <2> QED
    BY <1>3, <2>1 DEF RunOf
<1>10. CASE TaskDropsSender(s)
  <2>1. task[s] = "leaving" /\ task'[s] = "silent"
    BY <1>0, <1>10 DEF TaskDropsSender, StreamTypeOK, Set
  <2> QED
    BY <1>3, <2>1 DEF RunOf
<1>11. CASE TaskCompletes(s)
  <2>1. task[s] = "silent" /\ task'[s] = "done"
    BY <1>0, <1>11 DEF TaskCompletes, StreamTypeOK, Set
  <2> QED
    BY <1>6, <2>1 DEF RunOf
<1> QED
  BY <1>7, <1>8, <1>9, <1>10, <1>11

-----------------------------------------------------------------------------
(***************************************************************************)
(* The consumer: a chunk taken from the channel is the next one of the run,*)
(* a pending poll shows nothing, and what a poll reports after the last    *)
(* chunk is what SerialStreams says of the verdict.                        *)
(***************************************************************************)
LEMMA PollPromised ==
  ASSUME SessionInv, StreamInv, NEW s \in Streams, Poll(s)
  PROVE  PromisedStep
<1>0. /\ StreamTypeOK /\ ChannelInv(s) /\ EndInv(s) /\ ended[s] \in Ends
      /\ phaseBar[s] = PhaseOf(s) /\ runBar[s] = RunOf(s) /\ OwnStep(s)
  BY DEF StreamInv, StreamTypeOK, Ends, phaseBar, runBar, OwnStep
<1>1. /\ UNCHANGED <<stream, closed, task, sent, late, pc, outcome>>
      /\ MayPoll(s)
  BY DEF Poll, PollChunk, PollPending, PollEnded, PollJoinPending, PollJoined,
         channelVars, historyVars, sessionVars, vars, callVars
<1>2. phaseBar' = phaseBar /\ runBar' = runBar
  BY <1>0, <1>1, NothingShown DEF PhaseOf, RunOf
<1>3. /\ PhaseOf(s) \in {"open", "closed"} /\ stream[s] # "dropped"
      /\ Delivery(received[s], queue[s], sent[s])
      /\ queue[s] \in Seq(Nat) /\ received[s] \in Seq(Nat)
  BY <1>0, <1>1 DEF MayPoll, PhaseOf, ChannelInv, StreamTypeOK
<1>4. Finished(s) => RunOf(s) = IF Joined(s) = "None" THEN "Ok" ELSE "Err"
  BY DEF Finished, RunOf, Joined
<1>5. CASE PollPending(s) \/ PollJoinPending(s)
  BY <1>1, <1>2, <1>5 DEF PollPending, PollJoinPending, PromisedStep, promisedVars
<1>6. CASE PollChunk(s)
  <2>1. /\ Head(queue[s]) = Len(received[s]) + 1
        /\ Len(received[s]) < sent[s]
    BY <1>0, <1>3, <1>6, DeliveryNext DEF PollChunk, StreamTypeOK
  <2>2. /\ received' = [received EXCEPT ![s] =
                          Append(received[s], Len(received[s]) + 1)]
        /\ ended' = ended
    BY <1>6, <2>1 DEF PollChunk, Set
  <2>3. Promised!Receive(s)
    BY <1>0, <1>1, <1>2, <1>3, <2>1, <2>2 DEF Promised!Receive, phaseBar, runBar
  <2> QED
    BY <2>3 DEF PromisedStep, Promised!Next
<1>7. CASE PollEnded(s)
  <2>1. /\ ended' = [ended EXCEPT ![s] = Append(ended[s], "None")]
        /\ received' = received /\ ended[s] # <<>>
    BY <1>0, <1>1, <1>7 DEF PollEnded, EndInv, MayPoll, Set
  <2>2. Finished(s) /\ Len(received[s]) = sent[s]
    BY <1>0, <2>1 DEF EndInv
  <2>3. ended[s] = <<"Err">>
    BY <1>0, <1>1, <2>1 DEF MayPoll, Ended, Ends
  <2>4. Append(ended[s], "None") = <<"Err", "None">>
    BY <2>3, ErrThenNone
  <2>5. Promised!End(s)
    BY <1>0, <1>1, <1>2, <1>3, <1>4, <2>1, <2>2, <2>3, <2>4
    DEF Promised!End, Promised!Verdicts, phaseBar, runBar
  <2> QED
    BY <2>5 DEF PromisedStep, Promised!Next
<1>8. CASE PollJoined(s)
  <2>1. /\ Finished(s) /\ queue[s] = <<>> /\ ended[s] = <<>>
        /\ ended' = [ended EXCEPT ![s] = Append(ended[s], Joined(s))]
        /\ received' = received
    BY <1>0, <1>1, <1>8 DEF PollJoined, ChannelEnded, EndInv, Set
  <2>2. Len(received[s]) = sent[s]
    BY <1>0, <1>3, <2>1 DEF Delivery, StreamTypeOK
  <2>3. Append(ended[s], Joined(s)) = <<Joined(s)>> /\ Joined(s) \in {"None", "Err"}
    BY <2>1 DEF Joined
  <2>4. Promised!End(s)
    BY <1>0, <1>1, <1>2, <1>3, <1>4, <2>1, <2>2, <2>3
    DEF Promised!End, Promised!Verdicts, phaseBar, runBar
  <2> QED
    BY <2>4 DEF PromisedStep, Promised!Next
<1> QED
  BY <1>5, <1>6, <1>7, <1>8 DEF Poll

LEMMA ConsumerPromised ==
  ASSUME SessionInv, StreamInv, FreshInv, NEW s \in Streams,
         Close(s) \/ DropStream(s) \/ \E c \in Callers : Spawn(c, s)
  PROVE  PromisedStep
<1>0. /\ StreamTypeOK /\ TaskInv(s) /\ (stream[s] = "none" => ~closed[s])
      /\ phaseBar[s] = PhaseOf(s) /\ runBar[s] = RunOf(s) /\ OwnStep(s)
  BY DEF StreamInv, FreshInv, phaseBar, runBar, OwnStep
<1>1. UNCHANGED <<sent, late, received, ended>>
  BY DEF Close, DropStream, Spawn, historyVars
<1>2. ASSUME NEW c \in Callers, Spawn(c, s)
      PROVE  Promised!Open(s)
  <2>1. /\ stream[s] = "none" /\ stream'[s] = "open" /\ closed' = closed
        /\ task[s] = "none" /\ task'[s] = "queued"
    BY <1>0, <1>2 DEF Spawn, StreamTypeOK, TaskInv, Set
  <2>2. /\ PhaseOf(s) = "none" /\ PhaseOf(s)' = "open"
        /\ RunOf(s) = "none" /\ RunOf(s)' = "waiting"
    BY <1>0, <2>1 DEF PhaseOf, RunOf
  <2> QED
    BY <1>0, <1>1, <2>2, OwnStepShown
    DEF Promised!Open, Promised!Becomes, phaseBar, runBar
<1>3. CASE Close(s) \/ DropStream(s)
  <2>1. RunOf(s)' = RunOf(s)
    BY <1>3 DEF Close, DropStream, sessionVars, vars, callVars, RunOf
  <2>2. ASSUME NEW phase, PhaseOf(s)' = phase
        PROVE  phaseBar' = [phaseBar EXCEPT ![s] = phase] /\ runBar' = runBar
    BY <1>0, <2>1, <2>2, OwnStepShown DEF runBar
  <2>3. CASE Close(s)
    <3>1. PhaseOf(s) = "open" /\ PhaseOf(s)' = "closed"
      BY <1>0, <2>3 DEF Close, StreamTypeOK, PhaseOf, Set
    <3>2. Promised!Close(s)
      BY <1>0, <1>1, <2>2, <3>1 DEF Promised!Close, phaseBar, runBar
    <3> QED
      BY <3>2 DEF PromisedStep, Promised!Next
  <2>4. CASE DropStream(s)
    <3>1. PhaseOf(s) \in {"open", "closed"} /\ PhaseOf(s)' = "dropped"
      BY <1>0, <2>4 DEF DropStream, StreamTypeOK, PhaseOf, Set
    <3>2. Promised!Drop(s)
      BY <1>0, <1>1, <2>2, <3>1 DEF Promised!Drop, phaseBar, runBar
    <3> QED
      BY <3>2 DEF PromisedStep, Promised!Next
  <2> QED
    BY <1>3, <2>3, <2>4
<1> QED
  BY <1>2, <1>3 DEF PromisedStep, Promised!Next

-----------------------------------------------------------------------------
(***************************************************************************)
(* Every step of the system is a step of SerialStreams or shows nothing.   *)
(***************************************************************************)
LEMMA NextPromised ==
  SessionInv /\ StreamInv /\ FreshInv /\ [StreamNext]_allVars => PromisedStep
<1> SUFFICES ASSUME SessionInv, StreamInv, FreshInv, [StreamNext]_allVars
             PROVE  PromisedStep
  OBVIOUS
<1>1. CASE \/ \E t \in Callers : InSession(t) \/ CallerStep(t)
           \/ UNCHANGED allVars
  <2>1. phaseBar' = phaseBar /\ runBar' = runBar
    BY <1>1, CallersElsewhere, ElsewhereShowsNothing DEF phaseBar, runBar
  <2>2. UNCHANGED <<sent, late, received, ended>>
    BY <1>1 DEF InSession, CallerStep, allVars, streamVars, historyVars, consumerVars
  <2> QED
    BY <2>1, <2>2 DEF PromisedStep, promisedVars
<1>2. ASSUME NEW s \in Streams, InSession(s) \/ OwnStep(s)
      PROVE  PromisedStep
  BY <1>2, InSessionPromised, SendPromised, TaskPromised, PollPromised,
     ConsumerPromised DEF OwnStep, TaskStep
<1> QED
  BY <1>1, <1>2 DEF StreamNext, OwnStep, Callers

LEMMA InitPromised == StreamInit => Promised!Init /\ FreshInv
<1> SUFFICES ASSUME StreamInit
             PROVE  Promised!Init /\ FreshInv
  OBVIOUS
<1>1. \A s \in Streams : PhaseOf(s) = "none" /\ RunOf(s) = "none" /\ ~closed[s]
  BY DEF StreamInit, PhaseOf, RunOf
<1>2. [s \in Streams |-> PhaseOf(s)] = [s \in Streams |-> "none"]
      /\ [s \in Streams |-> RunOf(s)] = [s \in Streams |-> "none"]
  BY <1>1
<1> QED
  BY <1>1, <1>2 DEF StreamInit, Promised!Init, FreshInv

(***************************************************************************)
(* Streams over a session implement SerialStreams, for any streams,        *)
(* callers and capacity: runs never mix, each consumer gets its own chunks *)
(* in order, no run is further ahead than the capacity, cancelling stops a *)
(* run at its next chunk, and the end is the verdict on the run            *)
(* (run_llm_async_buffered, poll_next, close and Drop of ChunkStream).     *)
(***************************************************************************)
THEOREM StreamsKeepPromise == StreamSpec => ImplementsStreams
<1>1. PromisedStep = [Promised!Next]_Promised!vars
  BY DEF PromisedStep, promisedVars, phaseBar, runBar, Promised!vars
<1>2. SessionInv /\ StreamInv /\ FreshInv /\ [StreamNext]_allVars
        => [Promised!Next]_Promised!vars /\ FreshInv'
  BY <1>1, NextPromised, FreshStep
<1>3. StreamInit => Promised!Init /\ FreshInv
  BY InitPromised
<1> QED
  BY <1>2, <1>3, StreamInvariant, PTL
  DEF StreamSpec, ImplementsStreams, Promised!Spec, allVars
=============================================================================
