---------------------------- MODULE RkllmSession ----------------------------
(***************************************************************************)
(* One RkllmSession shared by several threads (crates/rkllm/src/session.rs) *)
(*                                                                         *)
(* A call of the session is refused by a check, or takes run_lock and      *)
(* enters librkllmrt.  A run comes back out of the library through the     *)
(* trampoline, which finds the CallbackState of the run behind a raw       *)
(* userdata pointer, calls the caller's closure and catches its panics.    *)
(* abort and is_running enter the library without the lock.  The session   *)
(* is shared through an Arc, and dropping the last one destroys the handle.*)
(*                                                                         *)
(* The library itself is external.  It is modelled as the code relies on   *)
(* it: one slot for the run in flight, the userdata of the rkllm_run that  *)
(* started last, callbacks on the thread inside rkllm_run, and no          *)
(* generating callback once a callback paused the run or it was aborted.   *)
(***************************************************************************)
EXTENDS Integers, FiniteSets

CONSTANTS
  Threads,    \* the threads of the program that may use the session
  NoThread,   \* no thread, and the null pointer
  Founders,   \* those that own an Arc of it once it is built
  NBatch,     \* n_batch, what the library reads and writes per callback
  Lens,       \* lengths callers pass for a slice of inputs or of ranges
  Ops,        \* the maintenance calls (below) that callers make
  RawStates,  \* the LLMCallState codes the library reports
  Budget,     \* generating callbacks per run: the token budget
  Unlimited,  \* threads whose runs have no token budget
  MaxCalls,   \* bound: calls a thread makes
  Reentrant   \* threads whose closures call a lock-taking method

(***************************************************************************)
(* The lock-taking calls other than a run, by what they check before the   *)
(* lock: that strings hold no NUL, that one range per entry was given, or  *)
(* nothing.                                                                *)
(***************************************************************************)
StringOps ==
  {"load_lora", "load_prompt_cache", "set_chat_template", "set_function_tools"}
RangeOps == {"clear_kv_cache_ranges"}
PlainOps == {"release_prompt_cache", "clear_kv_cache", "kv_cache_size"}
RunCalls == {"run_llm", "run_llm_batch"}
Calls == RunCalls \cup StringOps \cup RangeOps \cup PlainOps

ASSUME ThreadsAssumption ==
  NoThread \notin Threads /\ Founders \subseteq Threads /\ Founders # {}
ASSUME NBatchAssumption == NBatch \in Nat \ {0}
ASSUME LensAssumption == Lens \subseteq Nat
ASSUME OpsAssumption == Ops \subseteq Calls \ RunCalls
ASSUME RawStatesAssumption == RawStates \subseteq Nat
ASSUME BoundsAssumption ==
  Budget \in Nat /\ Unlimited \subseteq Threads /\ MaxCalls \in Nat
ASSUME ReentrantAssumption == Reentrant \subseteq Threads

VARIABLES
  pc,        \* where each thread is
  call,      \* the call it is making
  code,      \* the status the library returned to it
  outcome,   \* how its last call ended
  calls,     \* how many calls it has made
  holders,   \* the threads that own an Arc of the session
  lock,      \* the thread that holds run_lock
  poisoned,  \* whether a guard was ever dropped by a panic
  frame,     \* the CallbackState in each thread's run_batch
  arg,       \* the slice of outputs the closure on each thread was given
  unwound,   \* history: threads whose closure panicked during their run
  running,   \* library: a run is in flight
  userdata,  \* library: whose CallbackState it passes to the trampoline
  stopping,  \* library: that run was paused or aborted
  finished,  \* library: that run made its final callback
  budget,    \* library: generating callbacks it has left
  destroyed  \* library: rkllm_destroy was called on the handle

callVars == <<call, code, outcome, calls>>
arcVars == <<holders, destroyed>>
lockVars == <<lock, poisoned>>
closureVars == <<frame, arg, unwound>>
libraryVars == <<running, userdata, stopping, finished, budget>>
vars == <<pc, callVars, arcVars, lockVars, closureVars, libraryVars>>

Places ==
  {"gone",     \* owns no Arc
   "idle",     \* owns one, makes no call
   "blocked",  \* in lock_run
   "locked",   \* holds the guard
   "starting", \* in rkllm_run, before the library has a run in flight
   "inside",   \* in rkllm_run
   "closure",  \* in the trampoline, running the closure
   "wedged",   \* in lock_run again, below its own run
   "serving",  \* in another function of the library
   "back"}     \* the function returned, the guard is still held

Refusals == {"NotSingleBatch", "BatchSizeMismatch", "InteriorNul"}
Outcomes == {"none", "Ok", "Status", "panic"} \cup Refusals

(***************************************************************************)
(* CallState::from, is_final, and how many results the trampoline reads.   *)
(***************************************************************************)
CallState(raw) ==
  CASE raw = 0 -> "Normal"
    [] raw = 1 -> "Waiting"
    [] raw = 2 -> "Finish"
    [] raw = 3 -> "Error"
    [] OTHER   -> "Unknown"

CallStates == {"Normal", "Waiting", "Finish", "Error", "Unknown"}
IsFinal(state) == state \in {"Finish", "Error"}
\* Mutant: one result too many while generating.
ResultsRead_PastEnd(state) == IF IsFinal(state) THEN 1 ELSE NBatch + 1
\* Mutant: the length ignores the state.
ResultsRead_Always(state) == NBatch
ResultsRead(state) == IF IsFinal(state) THEN 1 ELSE NBatch

(***************************************************************************)
(* What the library writes: n_batch results while it generates and one in  *)
(* a final state; it may also pass a null pointer.                         *)
(***************************************************************************)
ResultsWritten(state) == IF IsFinal(state) THEN {0, 1} ELSE {0, NBatch}

(***************************************************************************)
(* The slice handed to the closure: the results, or a single fallback.     *)
(***************************************************************************)
NoOutputs == [state |-> "Normal", written |-> 0, width |-> 0]

OutputsOf(state, written) ==
  [state   |-> state,
   written |-> written,
   width   |-> IF written = 0 THEN 1 ELSE ResultsRead(state)]

Controls == {"Continue", "Pause", "ReleaseBuffer"}

Init ==
  /\ pc = [t \in Threads |-> IF t \in Founders THEN "idle" ELSE "gone"]
  /\ call = [t \in Threads |-> "none"]
  /\ code = [t \in Threads |-> 0]
  /\ outcome = [t \in Threads |-> "none"]
  /\ calls = [t \in Threads |-> 0]
  /\ holders = Founders
  /\ lock = NoThread
  /\ poisoned = FALSE
  /\ frame = [t \in Threads |-> "none"]
  /\ arg = [t \in Threads |-> NoOutputs]
  /\ unwound = {}
  /\ running = FALSE
  /\ userdata = NoThread
  /\ stopping = FALSE
  /\ finished = FALSE
  /\ budget = 0
  /\ destroyed = FALSE

GoTo(t, from, to) ==
  /\ pc[t] = from
  /\ pc' = [pc EXCEPT ![t] = to]

-----------------------------------------------------------------------------
(***************************************************************************)
(* Making a call: the checks before lock_run.                              *)
(***************************************************************************)
Count(t) ==
  /\ calls[t] < MaxCalls
  /\ calls' = [calls EXCEPT ![t] = @ + 1]

Refuse(t, why) ==
  /\ pc[t] = "idle"
  /\ Count(t)
  /\ outcome' = [outcome EXCEPT ![t] = why]
  /\ UNCHANGED <<pc, call, code, arcVars, lockVars, closureVars, libraryVars>>

Queue(t, c) ==
  /\ GoTo(t, "idle", "blocked")
  /\ Count(t)
  /\ call' = [call EXCEPT ![t] = c]
  /\ outcome' = [outcome EXCEPT ![t] = "none"]
  /\ UNCHANGED <<code, arcVars, lockVars, closureVars, libraryVars>>

RunLlm(t) ==
  \/ NBatch # 1 /\ Refuse(t, "NotSingleBatch")
  \/ NBatch = 1 /\ Queue(t, "run_llm")

RunLlmBatch(t, n) ==
  \/ n # NBatch /\ Refuse(t, "BatchSizeMismatch")
  \/ n = NBatch /\ Queue(t, "run_llm_batch")

StringCall(t, op) ==
  /\ op \in Ops \cap StringOps
  /\ Refuse(t, "InteriorNul") \/ Queue(t, op)

RangeCall(t, op, n) ==
  /\ op \in Ops \cap RangeOps
  /\ \/ n # NBatch /\ Refuse(t, "BatchSizeMismatch")
     \/ n = NBatch /\ Queue(t, op)

PlainCall(t, op) == op \in Ops \cap PlainOps /\ Queue(t, op)

(***************************************************************************)
(* lock_run: the mutex is not fair, and a poisoned one is entered all the  *)
(* same.                                                                   *)
(***************************************************************************)
\* Mutant: the lock is not awaited.
MayLock_Always == TRUE
\* Mutant: a poisoned lock is not entered.
MayLock_Unpoisoned == lock = NoThread /\ ~poisoned
MayLock == lock = NoThread

LockRun(t) ==
  /\ MayLock
  /\ GoTo(t, "blocked", "locked")
  /\ lock' = t
  /\ UNCHANGED <<callVars, arcVars, poisoned, closureVars, libraryVars>>

(***************************************************************************)
(* run_batch puts the CallbackState on the stack and calls rkllm_run; some *)
(* time later the library has the run in flight.                           *)
(***************************************************************************)
\* Mutant: the guard is dropped as soon as it is taken.
GuardDuringRun_Dropped == NoThread
GuardDuringRun == lock

EnterRun(t) ==
  /\ call[t] \in RunCalls
  /\ GoTo(t, "locked", "starting")
  /\ lock' = GuardDuringRun
  /\ frame' = [frame EXCEPT ![t] = "clean"]
  /\ unwound' = unwound \ {t}
  /\ UNCHANGED <<callVars, arcVars, poisoned, arg, libraryVars>>

StartRun(t) ==
  /\ GoTo(t, "starting", "inside")
  /\ running' = TRUE
  /\ userdata' = t
  /\ stopping' = FALSE
  /\ finished' = FALSE
  /\ budget' = Budget
  /\ UNCHANGED <<callVars, arcVars, lockVars, closureVars>>

-----------------------------------------------------------------------------
(***************************************************************************)
(* The library makes a callback: a generating one while it has budget and  *)
(* was not stopped, or one final callback.                                 *)
(***************************************************************************)
MakesCallback(t, state) ==
  /\ pc[t] = "inside"
  /\ running
  /\ ~finished
  /\ IsFinal(state) \/ (~stopping /\ budget > 0)
  /\ finished' = IsFinal(state)
  /\ budget' = IF IsFinal(state) \/ t \in Unlimited THEN budget ELSE budget - 1
  /\ UNCHANGED <<running, userdata>>

(***************************************************************************)
(* The trampoline: a null userdata or a closure that already panicked is   *)
(* answered with Pause, otherwise the closure behind userdata is called.   *)
(***************************************************************************)
\* Mutant: a panic is not remembered.
HasPanicked_Never(u) == FALSE

HasPanicked(u) == frame[u] = "panicked"

TrampolineNull(t, raw) ==
  /\ MakesCallback(t, CallState(raw))
  /\ stopping' = TRUE
  /\ UNCHANGED <<pc, callVars, arcVars, lockVars, closureVars>>

TrampolineRefuses(t, raw) ==
  /\ MakesCallback(t, CallState(raw))
  /\ HasPanicked(userdata)
  /\ stopping' = TRUE
  /\ UNCHANGED <<pc, callVars, arcVars, lockVars, closureVars>>

TrampolineCalls(t, raw, written) ==
  /\ MakesCallback(t, CallState(raw))
  /\ ~HasPanicked(userdata)
  /\ GoTo(t, "inside", "closure")
  /\ arg' = [arg EXCEPT ![t] = OutputsOf(CallState(raw), written)]
  /\ UNCHANGED <<callVars, arcVars, lockVars, frame, unwound, stopping>>

ClosureReturns(t, control) ==
  /\ GoTo(t, "closure", "inside")
  /\ stopping' = (stopping \/ control = "Pause")
  /\ arg' = [arg EXCEPT ![t] = NoOutputs]
  /\ UNCHANGED <<callVars, arcVars, lockVars, frame, unwound, running,
                 userdata, finished, budget>>

ClosurePanics(t) ==
  /\ GoTo(t, "closure", "inside")
  /\ frame' = [frame EXCEPT ![userdata] = "panicked"]
  /\ unwound' = unwound \cup {t}
  /\ stopping' = TRUE
  /\ arg' = [arg EXCEPT ![t] = NoOutputs]
  /\ UNCHANGED <<callVars, arcVars, lockVars, running, userdata, finished,
                 budget>>

(***************************************************************************)
(* A closure that calls a lock-taking method waits for its own thread.     *)
(***************************************************************************)
ClosureReenters(t) ==
  /\ t \in Reentrant
  /\ GoTo(t, "closure", "wedged")
  /\ UNCHANGED <<callVars, arcVars, lockVars, closureVars, libraryVars>>

(***************************************************************************)
(* rkllm_run returns.  The panic, if any, resumes and drops the guard on   *)
(* its way out; otherwise the status is the outcome.                       *)
(***************************************************************************)
ReturnRun(t, status) ==
  /\ GoTo(t, "inside", "back")
  /\ code' = [code EXCEPT ![t] = status]
  /\ running' = FALSE
  /\ stopping' = FALSE
  /\ finished' = FALSE
  /\ budget' = 0
  /\ UNCHANGED <<call, outcome, calls, arcVars, lockVars, closureVars,
                 userdata>>

Check(status) == IF status = 0 THEN "Ok" ELSE "Status"

\* Mutant: the status is checked before the panic.
RunOutcome_StatusFirst(t) ==
  IF HasPanicked(t) /\ code[t] = 0 THEN "panic" ELSE Check(code[t])
RunOutcome(t) == IF HasPanicked(t) THEN "panic" ELSE Check(code[t])

\* Mutant: a panic leaks the guard.
LockAfterRun_Leaked(t) == IF HasPanicked(t) THEN lock ELSE NoThread
LockAfterRun(t) == NoThread

FinishRun(t) ==
  /\ call[t] \in RunCalls
  /\ GoTo(t, "back", "idle")
  /\ outcome' = [outcome EXCEPT ![t] = RunOutcome(t)]
  /\ poisoned' = (poisoned \/ HasPanicked(t))
  /\ lock' = LockAfterRun(t)
  /\ frame' = [frame EXCEPT ![t] = "none"]
  /\ call' = [call EXCEPT ![t] = "none"]
  /\ code' = [code EXCEPT ![t] = 0]
  /\ UNCHANGED <<calls, arcVars, arg, unwound, libraryVars>>

-----------------------------------------------------------------------------
(***************************************************************************)
(* The other lock-taking calls: one function of the library under the lock.*)
(***************************************************************************)
EnterOp(t) ==
  /\ call[t] \notin RunCalls
  /\ GoTo(t, "locked", "serving")
  /\ UNCHANGED <<callVars, arcVars, lockVars, closureVars, libraryVars>>

ReturnOp(t, status) ==
  /\ GoTo(t, "serving", "back")
  /\ code' = [code EXCEPT ![t] = status]
  /\ UNCHANGED <<call, outcome, calls, arcVars, lockVars, closureVars,
                 libraryVars>>

FinishOp(t) ==
  /\ call[t] \notin RunCalls
  /\ GoTo(t, "back", "idle")
  /\ outcome' = [outcome EXCEPT ![t] = Check(code[t])]
  /\ lock' = NoThread
  /\ call' = [call EXCEPT ![t] = "none"]
  /\ code' = [code EXCEPT ![t] = 0]
  /\ UNCHANGED <<calls, arcVars, poisoned, closureVars, libraryVars>>

(***************************************************************************)
(* abort takes no lock: it stops the run in flight, if the library has one,*)
(* and may be called from outside or from a closure.  is_running reads.    *)
(***************************************************************************)
IsRunning == running

\* Mutant: abort waits for the lock.
MayAbort_Locked(t) == pc[t] \in {"idle", "closure"} /\ lock = NoThread
MayAbort(t) == pc[t] \in {"idle", "closure"}

Abort(t) ==
  /\ MayAbort(t)
  /\ stopping' = (stopping \/ IsRunning)
  /\ UNCHANGED <<pc, callVars, arcVars, lockVars, closureVars, running,
                 userdata, finished, budget>>

(***************************************************************************)
(* The Arc: a holder clones it for another thread; a thread that makes no  *)
(* call drops its own, and the last one runs Drop.                         *)
(***************************************************************************)
CloneSession(t, u) ==
  /\ pc[t] = "idle"
  /\ calls[u] < MaxCalls
  /\ GoTo(u, "gone", "idle")
  /\ holders' = holders \cup {u}
  /\ UNCHANGED <<callVars, destroyed, lockVars, closureVars, libraryVars>>

\* Mutant: any owner that leaves destroys the handle.
IsLastHolder_Any(t) == TRUE
IsLastHolder(t) == holders = {t}

DropSession(t) ==
  /\ GoTo(t, "idle", "gone")
  /\ holders' = holders \ {t}
  /\ destroyed' = IsLastHolder(t)
  /\ UNCHANGED <<callVars, lockVars, closureVars, libraryVars>>

(***************************************************************************)
(* Nobody owns the session any more: the program is done with it.          *)
(***************************************************************************)
Terminated ==
  /\ \A t \in Threads : pc[t] = "gone"
  /\ UNCHANGED vars

-----------------------------------------------------------------------------
BeginCall(t) ==
  \/ RunLlm(t)
  \/ \E n \in Lens : RunLlmBatch(t, n)
  \/ \E op \in Ops : StringCall(t, op)
  \/ \E op \in Ops, n \in Lens : RangeCall(t, op, n)
  \/ \E op \in Ops : PlainCall(t, op)

LibraryStep(t) ==
  \/ \E raw \in RawStates :
       \/ TrampolineNull(t, raw)
       \/ TrampolineRefuses(t, raw)
       \/ \E written \in ResultsWritten(CallState(raw)) :
            TrampolineCalls(t, raw, written)
  \/ \E status \in {0, -1} : ReturnRun(t, status)

ClosureStep(t) ==
  \/ \E control \in Controls : ClosureReturns(t, control)
  \/ ClosurePanics(t)

OpStep(t) ==
  \/ EnterOp(t)
  \/ \E status \in {0, -1} : ReturnOp(t, status)
  \/ FinishOp(t)

Next ==
  \/ \E t \in Threads :
       \/ BeginCall(t)
       \/ LockRun(t)
       \/ EnterRun(t)
       \/ StartRun(t)
       \/ LibraryStep(t)
       \/ ClosureStep(t)
       \/ ClosureReenters(t)
       \/ FinishRun(t)
       \/ OpStep(t)
       \/ Abort(t)
       \/ DropSession(t)
       \/ \E u \in Threads : CloneSession(t, u)
  \/ Terminated

Spec == Init /\ [][Next]_vars

(***************************************************************************)
(* Fairness: a thread that can take its next step inside a call takes it,  *)
(* the library serves what it was asked and a closure returns.  Nothing    *)
(* forces a thread to call, to abort or to drop its Arc, and the lock goes *)
(* to any of the threads that wait for it.                                 *)
(***************************************************************************)
Fairness ==
  \A t \in Threads :
    /\ WF_vars(LockRun(t))
    /\ WF_vars(EnterRun(t))
    /\ WF_vars(StartRun(t))
    /\ WF_vars(LibraryStep(t))
    /\ WF_vars(ClosureStep(t))
    /\ WF_vars(FinishRun(t))
    /\ WF_vars(OpStep(t))

FairSpec == Spec /\ Fairness

-----------------------------------------------------------------------------
(***************************************************************************)
(* Type correctness: every variable keeps the type its declaration gives.  *)
(***************************************************************************)
Outputs ==
  [state : CallStates, written : {0, 1, NBatch}, width : {0, 1, NBatch}]

TypeOK ==
  /\ pc \in [Threads -> Places]
  /\ call \in [Threads -> Calls \cup {"none"}]
  /\ code \in [Threads -> {0, -1}]
  /\ outcome \in [Threads -> Outcomes]
  /\ calls \in [Threads -> Nat]
  /\ holders \subseteq Threads
  /\ lock \in Threads \cup {NoThread}
  /\ poisoned \in BOOLEAN
  /\ frame \in [Threads -> {"none", "clean", "panicked"}]
  /\ arg \in [Threads -> Outputs]
  /\ unwound \subseteq Threads
  /\ running \in BOOLEAN
  /\ userdata \in Threads \cup {NoThread}
  /\ stopping \in BOOLEAN
  /\ finished \in BOOLEAN
  /\ budget \in 0..Budget
  /\ destroyed \in BOOLEAN

InLibrary == {"starting", "inside", "closure", "wedged", "serving"}

(***************************************************************************)
(* Only one lock-taking call is inside the library at a time, whatever     *)
(* poisoned the lock before (lock_run, run_batch and the maintenance       *)
(* calls).                                                                 *)
(***************************************************************************)
OneCallInLibrary ==
  \A t, u \in Threads :
    pc[t] \in InLibrary /\ pc[u] \in InLibrary => t = u

(***************************************************************************)
(* The closure that runs is the one of the call that made the run, on the  *)
(* thread of that call, its CallbackState is on the stack, and it never    *)
(* panicked before: the userdata cast of trampoline is sound and a         *)
(* panicked closure is never entered again.                                *)
(***************************************************************************)
ClosureOfOwnRun ==
  \A t \in Threads : pc[t] = "closure" =>
    userdata = t /\ frame[t] = "clean" /\ t \notin unwound

(***************************************************************************)
(* While is_running says 1 there is a thread in rkllm_run that holds the   *)
(* lock and owns the live CallbackState the library points at.             *)
(***************************************************************************)
RunningHasOwner ==
  IsRunning =>
    /\ userdata # NoThread
    /\ lock = userdata
    /\ frame[userdata] # "none"
    /\ pc[userdata] \in {"inside", "closure", "wedged"}

(***************************************************************************)
(* The handle is destroyed only once no thread can call, abort or poll the *)
(* session any more (Drop and the Arc).                                    *)
(***************************************************************************)
NoUseAfterDestroy == destroyed => \A t \in Threads : pc[t] = "gone"

(***************************************************************************)
(* The trampoline never reads more results than the library wrote, and the *)
(* closure is never handed an empty slice (its length computation and the  *)
(* null result fallback).                                                  *)
(***************************************************************************)
ReadsWhatWasWritten ==
  \A t \in Threads : pc[t] = "closure" =>
    /\ arg[t].width >= 1
    /\ arg[t].written # 0 => arg[t].width <= arg[t].written

(***************************************************************************)
(* A run ends in a panic exactly when its own closure panicked, whatever   *)
(* status rkllm_run returned; otherwise it is Ok exactly when that status  *)
(* is 0 (the end of run_batch).                                            *)
(***************************************************************************)
PanicReachesCaller ==
  [][\A t \in Threads :
       call[t] \in RunCalls /\ pc[t] = "back" /\ pc'[t] = "idle" =>
         /\ outcome'[t] = "panic" <=> t \in unwound
         /\ outcome'[t] = "Ok" <=> t \notin unwound /\ code[t] = 0]_vars

(***************************************************************************)
(* Calls wait for each other, and the lock for nobody: all of them stand   *)
(* still in one case only, a closure that called a lock-taking method below*)
(* its own run, which every other call then waits for.  Neither a panic nor*)
(* poison, a pause, an abort or an owner that leaves stops the session     *)
(* (lock_run, run_batch, trampoline).                                      *)
(***************************************************************************)
MayAdvance(t) ==
  \/ pc[t] = "blocked" /\ MayLock
  \/ pc[t] \in {"locked", "starting", "inside", "closure", "serving", "back"}

StallsOnlyReentered ==
  (\E t \in Threads : pc[t] \notin {"gone", "idle"})
    /\ (\A t \in Threads : ~MayAdvance(t))
  => \E t \in Reentrant : pc[t] = "wedged" /\ lock = t /\ IsRunning

(***************************************************************************)
(* The inductive invariant behind the safety properties.  The lock is held *)
(* exactly between lock_run and the end of the call; a CallbackState lives *)
(* exactly from EnterRun to FinishRun and records its closure's panic; the *)
(* library has a run in flight exactly while a thread is past StartRun, and*)
(* points at that thread; the Arc count is exact.                          *)
(***************************************************************************)
InRun == {"inside", "closure", "wedged"}

LockInv ==
  \A t \in Threads : pc[t] \in InLibrary \cup {"locked", "back"} <=> lock = t

FrameInv ==
  \A t \in Threads :
    /\ pc[t] \in InRun \cup {"starting"} => call[t] \in RunCalls
    /\ pc[t] = "serving" => call[t] \notin RunCalls
    /\ frame[t] # "none" <=> \/ pc[t] \in InRun \cup {"starting"}
                             \/ pc[t] = "back" /\ call[t] \in RunCalls
    /\ frame[t] = "panicked" <=> frame[t] # "none" /\ t \in unwound
    /\ pc[t] = "closure" => frame[t] = "clean"

RunInv ==
  /\ \A t \in Threads : pc[t] \in InRun => running /\ userdata = t
  /\ running => userdata \in Threads /\ pc[userdata] \in InRun

HolderInv ==
  /\ \A t \in Threads : pc[t] # "gone" <=> t \in holders
  /\ destroyed <=> holders = {}

SessionInv ==
  TypeOK /\ LockInv /\ FrameInv /\ RunInv /\ HolderInv /\ ReadsWhatWasWritten

(***************************************************************************)
(* Whoever takes the lock gives it back, however its run ends, unless its  *)
(* closure called a lock-taking method of the session.                     *)
(***************************************************************************)
LockHandedOn ==
  \A t \in Threads : (lock = t) ~> (lock # t \/ pc[t] = "wedged")

(***************************************************************************)
(* Every queued call returns, also after a panic poisoned the lock, as     *)
(* long as its competitors make finitely many calls.                       *)
(***************************************************************************)
CallsReturn == \A t \in Threads : (pc[t] = "blocked") ~> (pc[t] = "idle")

(***************************************************************************)
(* The session serves its callers one at a time: SerialSession.            *)
(***************************************************************************)
Stage(place) ==
  CASE place \in {"gone", "idle"} -> place
    [] place \in {"blocked", "locked"} -> "pending"
    [] OTHER -> "served"

Serial == INSTANCE SerialSession WITH
  stage <- [t \in Threads |-> Stage(pc[t])],
  fed <- {t \in Threads : pc[t] \in {"closure", "wedged"}},
  broken <- {t \in Threads : frame[t] = "panicked"},
  closed <- destroyed

ImplementsSerial == Serial!Spec
=============================================================================
