---------------------------- MODULE ChunkStream -----------------------------
(***************************************************************************)
(* Streams over one session (crates/rkllm/src/stream.rs).  Each stream has *)
(* a blocking task, which is a thread of the session: it owns an Arc, runs *)
(* run_llm with a closure that sends every chunk into a bounded channel,   *)
(* and leaves a result for the JoinHandle.  A consumer polls the stream.   *)
(*                                                                         *)
(* The session's own actions are taken unchanged from RkllmSession; the    *)
(* closure, the start and the end of a task are refined here.  tokio's     *)
(* channel, wakers and blocking pool are external: a closed channel refuses*)
(* chunks but keeps those it holds, poll_recv returns None once the queue  *)
(* is empty and the channel is closed or its sender gone, and a pending    *)
(* poll is repeated when what it waits for happens.                        *)
(***************************************************************************)
EXTENDS RkllmSession, Sequences

CONSTANTS
  Streams,  \* the streams; each names the thread of its blocking task
  Buffer    \* the channel capacity asked for

ASSUME StreamsAssumption == Streams \subseteq Threads \ Founders
ASSUME BufferAssumption == Buffer \in Nat

Callers == Threads \ Streams

VARIABLES
  stream,    \* the ChunkStream: "none", "open" or "dropped"
  task,      \* its blocking task
  handle,    \* whether it still holds the JoinHandle
  sender,    \* whether the task's sender is alive
  closed,    \* whether the receiver refuses new chunks
  queue,     \* the chunks in the channel, by number
  sent,      \* history: how many chunks the channel took
  late,      \* history: how many it refused while the run was generating
  received,  \* history: chunks the consumer got
  ended,     \* history: the ends it got after them, "Err" or "None"
  waits      \* what the consumer's last poll waits for

sessionVars == vars
channelVars == <<sender, closed, queue>>
consumerVars == <<stream, handle, received, ended, waits>>
historyVars == <<sent, late>>
streamVars == <<task, channelVars, historyVars, consumerVars>>

TaskPlaces ==
  {"none", "queued",
   "running",   \* in session.run_llm
   "leaving",   \* its Arc is dropped
   "silent",    \* its sender is dropped
   "done",      \* its result is in the JoinHandle
   "cancelled"} \* it never ran, and the JoinHandle says so

StreamTypeOK ==
  /\ stream \in [Streams -> {"none", "open", "dropped"}]
  /\ task \in [Streams -> TaskPlaces]
  /\ handle \in [Streams -> BOOLEAN]
  /\ sender \in [Streams -> BOOLEAN]
  /\ closed \in [Streams -> BOOLEAN]
  /\ queue \in [Streams -> Seq(Nat)]
  /\ \A s \in Streams : Len(queue[s]) <= IF Buffer = 0 THEN 1 ELSE Buffer
  /\ sent \in [Streams -> Nat]
  /\ late \in [Streams -> Nat]
  /\ received \in [Streams -> Seq(Nat)]
  /\ ended \in [Streams -> {<<>>, <<"None">>, <<"Err">>, <<"Err", "None">>}]
  /\ waits \in [Streams -> {"nothing", "channel", "task"}]

StreamInit ==
  /\ Init
  /\ stream = [s \in Streams |-> "none"]
  /\ task = [s \in Streams |-> "none"]
  /\ handle = [s \in Streams |-> FALSE]
  /\ sender = [s \in Streams |-> FALSE]
  /\ closed = [s \in Streams |-> FALSE]
  /\ queue = [s \in Streams |-> <<>>]
  /\ sent = [s \in Streams |-> 0]
  /\ late = [s \in Streams |-> 0]
  /\ received = [s \in Streams |-> <<>>]
  /\ ended = [s \in Streams |-> <<>>]
  /\ waits = [s \in Streams |-> "nothing"]

Set(f, s, v) == [f EXCEPT ![s] = v]

(***************************************************************************)
(* Waking: a consumer that waits for the channel or for the task polls     *)
(* again.                                                                  *)
(***************************************************************************)
Wake(s, what) ==
  waits' = IF waits[s] = what THEN Set(waits, s, "nothing") ELSE waits

-----------------------------------------------------------------------------
(***************************************************************************)
(* run_llm_async_buffered: a channel with room for at least one chunk, an  *)
(* Arc for the task, and the task handed to the blocking pool.             *)
(***************************************************************************)
\* Mutant: the capacity asked for is used as it is.
Capacity_Raw == Buffer
Capacity == IF Buffer = 0 THEN 1 ELSE Buffer

Spawn(c, s) ==
  /\ stream[s] = "none"
  /\ CloneSession(c, s)
  /\ stream' = Set(stream, s, "open")
  /\ task' = Set(task, s, "queued")
  /\ handle' = Set(handle, s, TRUE)
  /\ sender' = Set(sender, s, TRUE)
  /\ UNCHANGED <<closed, queue, historyVars, received, ended, waits>>

(***************************************************************************)
(* The pool runs the task, or drops it when the tokio runtime shuts down   *)
(* first; its Arc and its sender go with it.                               *)
(***************************************************************************)
TaskStarts(s) ==
  /\ task[s] = "queued"
  /\ RunLlm(s)
  /\ task' = Set(task, s, "running")
  /\ UNCHANGED <<channelVars, historyVars, consumerVars>>

TaskCancelled(s) ==
  /\ task[s] = "queued"
  /\ DropSession(s)
  /\ task' = Set(task, s, "cancelled")
  /\ sender' = Set(sender, s, FALSE)
  /\ waits' = Set(waits, s, "nothing")
  /\ UNCHANGED <<closed, queue, historyVars, stream, handle, received, ended>>

(***************************************************************************)
(* The closure of the run: blocking_send waits for room, and fails once    *)
(* the receiver is closed or dropped.                                      *)
(***************************************************************************)
\* Mutant: the channel is unbounded.
HasRoom_Always(s) == TRUE
\* Mutant: a chunk waits until the channel is empty.
HasRoom_WhenEmpty(s) == queue[s] = <<>>
HasRoom(s) == Len(queue[s]) < Capacity

SendChunk(s) ==
  /\ ~closed[s]
  /\ HasRoom(s)
  /\ ClosureReturns(s, "Continue")
  /\ sent' = Set(sent, s, sent[s] + 1)
  /\ queue' = Set(queue, s, Append(queue[s], sent[s] + 1))
  /\ Wake(s, "channel")
  /\ UNCHANGED <<task, sender, closed, late, stream, handle, received, ended>>

\* Mutant: a refused chunk does not stop the run.
ControlOfFailure_Continue == "Continue"
ControlOfFailure == "Pause"

SendFails(s) ==
  /\ closed[s]
  /\ ClosureReturns(s, ControlOfFailure)
  /\ late' = IF finished THEN late ELSE Set(late, s, late[s] + 1)
  /\ UNCHANGED <<task, channelVars, sent, consumerVars>>

(***************************************************************************)
(* run_llm returned.  The task drops what it captured in order, the Arc    *)
(* before the sender, and only then is its result visible.                 *)
(***************************************************************************)
\* Mutant: the task gives its Arc away before its run is over.
TaskDropsSession_Early(s) ==
  /\ task[s] = "running"
  /\ holders' = holders \ {s}
  /\ destroyed' = IsLastHolder(s)
  /\ task' = Set(task, s, "leaving")
  /\ UNCHANGED <<pc, callVars, lockVars, closureVars, libraryVars, channelVars,
                 historyVars, consumerVars>>

\* Mutant: the task leaks its Arc.
TaskDropsSession_Leaks(s) ==
  /\ task[s] = "running"
  /\ pc[s] = "idle"
  /\ task' = Set(task, s, "leaving")
  /\ UNCHANGED <<sessionVars, channelVars, historyVars, consumerVars>>

TaskDropsSession(s) ==
  /\ task[s] = "running"
  /\ DropSession(s)
  /\ task' = Set(task, s, "leaving")
  /\ UNCHANGED <<channelVars, historyVars, consumerVars>>

TaskDropsSender(s) ==
  /\ task[s] = "leaving"
  /\ task' = Set(task, s, "silent")
  /\ sender' = Set(sender, s, FALSE)
  /\ Wake(s, "channel")
  /\ UNCHANGED <<sessionVars, closed, queue, historyVars, stream, handle, received,
                 ended>>

TaskCompletes(s) ==
  /\ task[s] = "silent"
  /\ task' = Set(task, s, "done")
  /\ Wake(s, "task")
  /\ UNCHANGED <<sessionVars, channelVars, historyVars, stream, handle, received,
                 ended>>

-----------------------------------------------------------------------------
(***************************************************************************)
(* poll_next, called when the consumer has nothing to wait for: a chunk;   *)
(* or nothing yet; or, with the channel at its end, what the JoinHandle    *)
(* says, once.                                                             *)
(***************************************************************************)
Ended(s) == ended[s] # <<>> /\ ended[s][Len(ended[s])] = "None"
MayPoll(s) == stream[s] = "open" /\ waits[s] = "nothing" /\ ~Ended(s)
ChannelEnded(s) == queue[s] = <<>> /\ (closed[s] \/ ~sender[s])
Finished(s) == task[s] \in {"done", "cancelled"}

\* Mutant: the result of the run is not looked at.
Joined_Ignored(s) == IF task[s] = "done" THEN "None" ELSE "Err"
Joined(s) ==
  IF task[s] = "done" /\ outcome[s] = "Ok" THEN "None" ELSE "Err"

PollChunk(s) ==
  /\ MayPoll(s)
  /\ queue[s] # <<>>
  /\ received' = Set(received, s, Append(received[s], Head(queue[s])))
  /\ queue' = Set(queue, s, Tail(queue[s]))
  /\ UNCHANGED <<sessionVars, task, sender, closed, historyVars, stream, handle,
                 ended, waits>>

PollPending(s) ==
  /\ MayPoll(s)
  /\ queue[s] = <<>>
  /\ ~ChannelEnded(s)
  /\ waits' = Set(waits, s, "channel")
  /\ UNCHANGED <<sessionVars, task, channelVars, historyVars, stream, handle,
                 received, ended>>

PollEnded(s) ==
  /\ MayPoll(s)
  /\ ChannelEnded(s)
  /\ ~handle[s]
  /\ ended' = Set(ended, s, Append(ended[s], "None"))
  /\ UNCHANGED <<sessionVars, task, channelVars, historyVars, stream, handle,
                 received, waits>>

PollJoinPending(s) ==
  /\ MayPoll(s)
  /\ ChannelEnded(s)
  /\ handle[s]
  /\ ~Finished(s)
  /\ waits' = Set(waits, s, "task")
  /\ UNCHANGED <<sessionVars, task, channelVars, historyVars, stream, handle,
                 received, ended>>

PollJoined(s) ==
  /\ MayPoll(s)
  /\ ChannelEnded(s)
  /\ handle[s]
  /\ Finished(s)
  /\ handle' = Set(handle, s, FALSE)
  /\ ended' = Set(ended, s, Append(ended[s], Joined(s)))
  /\ UNCHANGED <<sessionVars, task, channelVars, historyVars, stream, received,
                 waits>>

(***************************************************************************)
(* close keeps the chunks already queued; dropping the stream discards     *)
(* them and detaches the task.                                             *)
(***************************************************************************)
\* Mutant: close discards the chunks already queued.
QueueAfterClose_Empty(s) == <<>>
QueueAfterClose(s) == queue[s]

Close(s) ==
  /\ stream[s] = "open"
  /\ ~closed[s]
  /\ closed' = Set(closed, s, TRUE)
  /\ queue' = Set(queue, s, QueueAfterClose(s))
  /\ waits' = Set(waits, s, "nothing")
  /\ UNCHANGED <<sessionVars, task, sender, historyVars, stream, handle,
                 received, ended>>

\* Mutant: the receiver outlives the stream.
ClosedByDrop_Kept(s) == closed[s]
ClosedByDrop(s) == TRUE

DropStream(s) ==
  /\ stream[s] = "open"
  /\ stream' = Set(stream, s, "dropped")
  /\ closed' = Set(closed, s, ClosedByDrop(s))
  /\ queue' = Set(queue, s, <<>>)
  /\ handle' = Set(handle, s, FALSE)
  /\ waits' = Set(waits, s, "nothing")
  /\ UNCHANGED <<sessionVars, task, sender, historyVars, received, ended>>

-----------------------------------------------------------------------------
(***************************************************************************)
(* A task moves through the session like any thread between the start of   *)
(* its run and its end; its closure does not panic.  Other threads use the *)
(* session beside the streams.                                             *)
(***************************************************************************)
InSession(t) ==
  /\ \/ LockRun(t) \/ EnterRun(t) \/ StartRun(t) \/ LibraryStep(t)
     \/ FinishRun(t)
  /\ UNCHANGED streamVars

CallerStep(t) ==
  /\ BeginCall(t) \/ ClosureStep(t) \/ OpStep(t) \/ Abort(t) \/ DropSession(t)
  /\ UNCHANGED streamVars

TaskStep(s) ==
  \/ TaskStarts(s)
  \/ SendChunk(s)
  \/ SendFails(s)
  \/ TaskDropsSession(s)
  \/ TaskDropsSender(s)
  \/ TaskCompletes(s)

Poll(s) ==
  \/ PollChunk(s)
  \/ PollPending(s)
  \/ PollEnded(s)
  \/ PollJoinPending(s)
  \/ PollJoined(s)

StreamNext ==
  \/ \E t \in Threads : InSession(t)
  \/ \E t \in Callers : CallerStep(t) \/ \E s \in Streams : Spawn(t, s)
  \/ \E s \in Streams :
       \/ TaskStep(s)
       \/ TaskCancelled(s)
       \/ Poll(s)
       \/ Close(s)
       \/ DropStream(s)

StreamSpec == StreamInit /\ [][StreamNext]_<<sessionVars, streamVars>>

(***************************************************************************)
(* Fairness: a thread inside a call moves on, the pool runs the tasks it   *)
(* was given, and a task whose closure can send does.  Consumers are fair  *)
(* only where a property says so.                                          *)
(***************************************************************************)
TaskFairness ==
  /\ \A t \in Threads :
       WF_<<sessionVars, streamVars>>(InSession(t))
  /\ \A t \in Callers :
       WF_<<sessionVars, streamVars>>(
         (ClosureStep(t) \/ OpStep(t)) /\ UNCHANGED streamVars)
  /\ \A s \in Streams : WF_<<sessionVars, streamVars>>(TaskStep(s))

ConsumerFairness == \A s \in Streams : WF_<<sessionVars, streamVars>>(Poll(s))

FairStreamSpec == StreamSpec /\ TaskFairness

-----------------------------------------------------------------------------
(***************************************************************************)
(* A consumer gets the chunks the run produced, in order and without a gap,*)
(* and none that the channel took is lost unless the stream is dropped,    *)
(* whatever the capacity and however close interleaves (run_llm_async,     *)
(* close, poll_next).                                                      *)
(***************************************************************************)
DeliveredInOrder ==
  \A s \in Streams :
    LET got == IF stream[s] = "dropped" THEN received[s]
                                        ELSE received[s] \o queue[s]
    IN  /\ \A i \in DOMAIN got : got[i] = i
        /\ stream[s] # "dropped" => Len(got) = sent[s]

(***************************************************************************)
(* Whoever sees the end of a stream has seen all its chunks; its run is    *)
(* over; and the first thing after the last chunk is the run's own result, *)
(* an Err exactly when the run failed, was refused or never started        *)
(* (poll_next).                                                            *)
(***************************************************************************)
EndsWithResult ==
  \A s \in Streams : ended[s] # <<>> =>
    /\ task[s] \in {"done", "cancelled"}
    /\ Len(received[s]) = sent[s]
    /\ ended[s][1] = IF task[s] = "done" /\ outcome[s] = "Ok" THEN "None"
                                                             ELSE "Err"

(***************************************************************************)
(* Streams over one session wait for each other, but the session stands    *)
(* still in one case only: the stream whose run holds the lock is open, its*)
(* channel is full, and its consumer is free to poll it and is not waiting *)
(* for a wake-up that went astray (run_llm_async_buffered, poll_next).     *)
(***************************************************************************)
SessionStep ==
  \/ \E t \in Threads : InSession(t)
  \/ \E t \in Callers : (ClosureStep(t) \/ OpStep(t)) /\ UNCHANGED streamVars
  \/ \E s \in Streams : TaskStep(s)

Unfinished == \E s \in Streams : task[s] \notin {"none", "done", "cancelled"}

HeldUnread ==
  \E s \in Streams :
    lock = s /\ MayPoll(s) /\ ~closed[s] /\ Len(queue[s]) = Capacity

StallsOnlyUnread == Unfinished /\ ~ENABLED SessionStep => HeldUnread

(***************************************************************************)
(* Closing or dropping a stream cancels its run at its next chunk: the     *)
(* library never produces a second one that nobody can read.               *)
(***************************************************************************)
CancelledAtNextChunk == \A s \in Streams : late[s] <= 1

(***************************************************************************)
(* Streams use the session as any other thread may: every step of a task,  *)
(* detached or not, is a step of RkllmSession.                             *)
(***************************************************************************)
ImplementsSession == Spec

(***************************************************************************)
(* A consumer sees SerialStreams: the runs of streams that share a session *)
(* never mix, no run is further ahead of its consumer than the capacity,   *)
(* and chunks, cancellation and the end come as promised                   *)
(* (run_llm_async_buffered, poll_next, close, Drop).                       *)
(***************************************************************************)
PhaseOf(s) == IF stream[s] = "open" /\ closed[s] THEN "closed" ELSE stream[s]

RunOf(s) ==
  CASE task[s] = "none" -> "none"
    [] task[s] = "queued" -> "waiting"
    [] task[s] = "running" ->
         IF pc[s] \in {"blocked", "locked"} THEN "waiting"
         ELSE IF pc[s] = "idle" THEN "over" ELSE "served"
    [] task[s] \in {"leaving", "silent"} -> "over"
    [] task[s] = "done" /\ outcome[s] = "Ok" -> "Ok"
    [] OTHER -> "Err"

Promised == INSTANCE SerialStreams WITH
  phase <- [s \in Streams |-> PhaseOf(s)],
  run <- [s \in Streams |-> RunOf(s)],
  made <- sent,
  refused <- late

ImplementsStreams == Promised!Spec

(***************************************************************************)
(* Streams whose consumers keep polling end, whatever runs they wait for,  *)
(* unless they are dropped.                                                *)
(***************************************************************************)
StreamEnds ==
  ConsumerFairness =>
    \A s \in Streams : (stream[s] = "open") ~> (Ended(s) \/ stream[s] = "dropped")

(***************************************************************************)
(* Once every caller has dropped its Arc, the tasks that are left let go   *)
(* of the session too, and the handle is destroyed, as long as consumers   *)
(* keep polling.                                                           *)
(***************************************************************************)
SessionFreed ==
  ConsumerFairness => ((\A t \in Callers : pc[t] = "gone") ~> destroyed)

(***************************************************************************)
(* A closed or dropped stream gives the lock back although nobody polls,   *)
(* also when its closure was blocked on a full channel.                    *)
(***************************************************************************)
CancelReleasesLock ==
  \A s \in Streams :
    (lock = s /\ (closed[s] \/ stream[s] = "dropped")) ~> (lock # s)

(***************************************************************************)
(* What abort documents: it stops the run in flight.                       *)
(***************************************************************************)
AbortStopsRun == (running /\ stopping) ~> ~running
=============================================================================
