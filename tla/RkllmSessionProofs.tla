------------------------- MODULE RkllmSessionProofs -------------------------
(***************************************************************************)
(* Theorems about RkllmSession, for any threads, batch size, set of calls  *)
(* and bounds: its type invariant, the inductive invariant SessionInv and  *)
(* the safety properties that follow from it.                              *)
(***************************************************************************)
EXTENDS RkllmSession, TLAPS

(***************************************************************************)
(* The actions of a step of the session, with the parameters they are      *)
(* called with: every call either is refused or is queued.                 *)
(***************************************************************************)
CallStep(t) ==
  \/ \E why \in Refusals : Refuse(t, why)
  \/ \E c \in Calls : Queue(t, c)

TrampolineStep(t) ==
  \E raw \in RawStates :
    \/ TrampolineNull(t, raw)
    \/ TrampolineRefuses(t, raw)
    \/ \E written \in ResultsWritten(CallState(raw)) :
         TrampolineCalls(t, raw, written)

LEMMA BeginCallCases ==
  ASSUME NEW t \in Threads, BeginCall(t)
  PROVE  CallStep(t)
<1>1. CASE RunLlm(t)
  BY <1>1 DEF RunLlm, CallStep, Refusals, Calls, RunCalls
<1>2. ASSUME NEW n \in Lens, RunLlmBatch(t, n)
      PROVE  CallStep(t)
  BY <1>2 DEF RunLlmBatch, CallStep, Refusals, Calls, RunCalls
<1>3. ASSUME NEW op \in Ops, StringCall(t, op)
      PROVE  CallStep(t)
  BY <1>3 DEF StringCall, CallStep, Refusals, Calls
<1>4. ASSUME NEW op \in Ops, NEW n \in Lens, RangeCall(t, op, n)
      PROVE  CallStep(t)
  BY <1>4 DEF RangeCall, CallStep, Refusals, Calls
<1>5. ASSUME NEW op \in Ops, PlainCall(t, op)
      PROVE  CallStep(t)
  BY <1>5 DEF PlainCall, CallStep, Calls
<1> QED  BY <1>1, <1>2, <1>3, <1>4, <1>5 DEF BeginCall

(***************************************************************************)
(* The trampoline hands the closure a slice of the type of arg, and never  *)
(* more results than the library wrote.                                    *)
(***************************************************************************)
LEMMA OutputsOfType ==
  ASSUME NEW raw \in RawStates, NEW written \in ResultsWritten(CallState(raw))
  PROVE  /\ OutputsOf(CallState(raw), written) \in Outputs
         /\ OutputsOf(CallState(raw), written).width >= 1
         /\ OutputsOf(CallState(raw), written).written # 0 =>
              OutputsOf(CallState(raw), written).width
                <= OutputsOf(CallState(raw), written).written
<1>1. CallState(raw) \in CallStates
  BY DEF CallState, CallStates
<1>2. CASE IsFinal(CallState(raw))
  BY <1>1, <1>2, NBatchAssumption
     DEF ResultsWritten, ResultsRead, OutputsOf, Outputs
<1>3. CASE ~IsFinal(CallState(raw))
  BY <1>1, <1>3, NBatchAssumption
     DEF ResultsWritten, ResultsRead, OutputsOf, Outputs
<1> QED  BY <1>2, <1>3
-----------------------------------------------------------------------------
(***************************************************************************)
(* A run starts and ends with a budget in the range of the type.           *)
(***************************************************************************)
LEMMA BudgetRange == Budget \in 0..Budget /\ 0 \in 0..Budget
  BY BoundsAssumption

LEMMA NoOutputsType == NoOutputs \in Outputs
  BY DEF NoOutputs, Outputs, CallStates

LEMMA InitTypeOK == Init => TypeOK
<1> SUFFICES ASSUME Init
             PROVE  TypeOK
  OBVIOUS
<1> USE DEF Init
<1>1. /\ pc \in [Threads -> Places]
      /\ holders \subseteq Threads
      /\ arg \in [Threads -> Outputs]
      /\ budget \in 0..Budget
  BY ThreadsAssumption, NoOutputsType, BudgetRange DEF Places
<1> QED  BY <1>1 DEF TypeOK, Outcomes

LEMMA NextTypeOK == TypeOK /\ [Next]_vars => TypeOK'
<1> SUFFICES ASSUME TypeOK, [Next]_vars
             PROVE  TypeOK'
  OBVIOUS
<1> USE DEF TypeOK, GoTo
<1>1. ASSUME NEW t \in Threads, CallStep(t)
      PROVE  TypeOK'
  <2>1. ASSUME NEW why \in Refusals, Refuse(t, why)
        PROVE  TypeOK'
    BY <2>1 DEF Refuse, Count, Outcomes, arcVars, lockVars, closureVars,
                libraryVars
  <2>2. ASSUME NEW c \in Calls, Queue(t, c)
        PROVE  TypeOK'
    BY <2>2 DEF Queue, Count, Places, Outcomes, arcVars, lockVars,
                closureVars, libraryVars
  <2> QED  BY <1>1, <2>1, <2>2 DEF CallStep
<1>2. ASSUME NEW t \in Threads, LockRun(t)
      PROVE  TypeOK'
  BY <1>2 DEF LockRun, Places, callVars, arcVars, closureVars, libraryVars
<1>3. ASSUME NEW t \in Threads, EnterRun(t)
      PROVE  TypeOK'
  BY <1>3 DEF EnterRun, GuardDuringRun, Places, callVars, arcVars, libraryVars
<1>4. ASSUME NEW t \in Threads, StartRun(t)
      PROVE  TypeOK'
  BY <1>4, BudgetRange
     DEF StartRun, Places, callVars, arcVars, lockVars, closureVars
<1>5. ASSUME NEW t \in Threads, TrampolineStep(t)
      PROVE  TypeOK'
  <2> PICK raw \in RawStates :
        \/ TrampolineNull(t, raw)
        \/ TrampolineRefuses(t, raw)
        \/ \E w \in ResultsWritten(CallState(raw)) :
             TrampolineCalls(t, raw, w)
    BY <1>5 DEF TrampolineStep
  <2>1. ASSUME MakesCallback(t, CallState(raw))
        PROVE  /\ finished' \in BOOLEAN /\ budget' \in 0..Budget
               /\ UNCHANGED <<running, userdata>>
    BY <2>1, BoundsAssumption DEF MakesCallback, IsFinal
  <2>2. CASE TrampolineNull(t, raw) \/ TrampolineRefuses(t, raw)
    BY <2>1, <2>2 DEF TrampolineNull, TrampolineRefuses, callVars, arcVars,
                      lockVars, closureVars
  <2>3. ASSUME NEW w \in ResultsWritten(CallState(raw)),
               TrampolineCalls(t, raw, w)
        PROVE  TypeOK'
    BY <2>1, <2>3, OutputsOfType
       DEF TrampolineCalls, Places, callVars, arcVars, lockVars
  <2> QED  BY <2>2, <2>3
<1>6. NoOutputs \in Outputs
  BY NoOutputsType
<1>7. ASSUME NEW t \in Threads, ClosureStep(t)
      PROVE  TypeOK'
  <2>1. ASSUME NEW control \in Controls, ClosureReturns(t, control)
        PROVE  TypeOK'
    BY <1>6, <2>1 DEF ClosureReturns, Places, callVars, arcVars, lockVars
  <2>2. CASE ClosurePanics(t)
    BY <1>6, <2>2 DEF ClosurePanics, Places, callVars, arcVars, lockVars
  <2> QED  BY <1>7, <2>1, <2>2 DEF ClosureStep
<1>8. ASSUME NEW t \in Threads, ClosureReenters(t)
      PROVE  TypeOK'
  BY <1>8 DEF ClosureReenters, Places, callVars, arcVars, lockVars,
              closureVars, libraryVars
<1>9. ASSUME NEW t \in Threads, NEW status \in {0, -1}, ReturnRun(t, status)
      PROVE  TypeOK'
  BY <1>9, BudgetRange
     DEF ReturnRun, Places, arcVars, lockVars, closureVars
<1>10. ASSUME NEW t \in Threads, FinishRun(t)
       PROVE  TypeOK'
  BY <1>10 DEF FinishRun, RunOutcome, Check, LockAfterRun, HasPanicked,
               Places, Outcomes, arcVars, libraryVars
<1>11. ASSUME NEW t \in Threads, OpStep(t)
       PROVE  TypeOK'
  <2>1. CASE EnterOp(t)
    BY <2>1 DEF EnterOp, Places, callVars, arcVars, lockVars, closureVars,
                libraryVars
  <2>2. ASSUME NEW status \in {0, -1}, ReturnOp(t, status)
        PROVE  TypeOK'
    BY <2>2 DEF ReturnOp, Places, arcVars, lockVars, closureVars, libraryVars
  <2>3. CASE FinishOp(t)
    BY <2>3 DEF FinishOp, Check, Places, Outcomes, arcVars, closureVars,
                libraryVars
  <2> QED  BY <1>11, <2>1, <2>2, <2>3 DEF OpStep
<1>12. ASSUME NEW t \in Threads, Abort(t)
       PROVE  TypeOK'
  BY <1>12 DEF Abort, IsRunning, callVars, arcVars, lockVars, closureVars
<1>13. ASSUME NEW t \in Threads, NEW u \in Threads, CloneSession(t, u)
       PROVE  TypeOK'
  BY <1>13 DEF CloneSession, Places, callVars, lockVars, closureVars,
               libraryVars
<1>14. ASSUME NEW t \in Threads, DropSession(t)
       PROVE  TypeOK'
  BY <1>14 DEF DropSession, IsLastHolder, Places, callVars, lockVars,
               closureVars, libraryVars
<1>15. CASE UNCHANGED vars
  BY <1>15 DEF vars, callVars, arcVars, lockVars, closureVars, libraryVars
<1> QED
  BY <1>1, <1>2, <1>3, <1>4, <1>5, <1>7, <1>8, <1>9, <1>10, <1>11, <1>12,
     <1>13, <1>14, <1>15, BeginCallCases
     DEF Next, LibraryStep, TrampolineStep, Terminated

(***************************************************************************)
(* Every variable of the session keeps its type.                           *)
(***************************************************************************)
THEOREM TypeCorrect == Spec => []TypeOK
  BY InitTypeOK, NextTypeOK, PTL DEF Spec
-----------------------------------------------------------------------------
(***************************************************************************)
(* The lock is held exactly from lock_run to the end of the call.          *)
(***************************************************************************)
LEMMA NextLockInv ==
  ASSUME TypeOK, LockInv, [Next]_vars
  PROVE  LockInv'
<1> USE DEF TypeOK, LockInv, InLibrary, GoTo, callVars, arcVars, lockVars,
           closureVars, libraryVars
<1>1. ASSUME NEW t \in Threads, CallStep(t)
     PROVE  LockInv'
  BY <1>1 DEF CallStep, Refuse, Queue
<1>2. ASSUME NEW t \in Threads, LockRun(t)
     PROVE  LockInv'
  BY <1>2, ThreadsAssumption DEF LockRun, MayLock
<1>3. ASSUME NEW t \in Threads, EnterRun(t)
     PROVE  LockInv'
  BY <1>3 DEF EnterRun, GuardDuringRun
<1>4. ASSUME NEW t \in Threads, StartRun(t)
     PROVE  LockInv'
  BY <1>4 DEF StartRun
<1>5. ASSUME NEW t \in Threads, TrampolineStep(t)
     PROVE  LockInv'
  BY <1>5 DEF TrampolineStep, TrampolineNull, TrampolineRefuses,
              TrampolineCalls, MakesCallback, HasPanicked
<1>6. ASSUME NEW t \in Threads, ClosureStep(t)
     PROVE  LockInv'
  BY <1>6 DEF ClosureStep, ClosureReturns, ClosurePanics
<1>7. ASSUME NEW t \in Threads, ClosureReenters(t)
     PROVE  LockInv'
  BY <1>7 DEF ClosureReenters
<1>8. ASSUME NEW t \in Threads, NEW status \in {0, -1}, ReturnRun(t, status)
     PROVE  LockInv'
  BY <1>8 DEF ReturnRun
<1>9. ASSUME NEW t \in Threads, FinishRun(t)
     PROVE  LockInv'
  BY <1>9, ThreadsAssumption DEF FinishRun, LockAfterRun
<1>10. ASSUME NEW t \in Threads, OpStep(t)
      PROVE  LockInv'
  BY <1>10, ThreadsAssumption DEF OpStep, EnterOp, ReturnOp, FinishOp
<1>11. ASSUME NEW t \in Threads, Abort(t)
      PROVE  LockInv'
  BY <1>11 DEF Abort, MayAbort, IsRunning
<1>12. ASSUME NEW t \in Threads, NEW u \in Threads, CloneSession(t, u)
      PROVE  LockInv'
  BY <1>12 DEF CloneSession
<1>13. ASSUME NEW t \in Threads, DropSession(t)
      PROVE  LockInv'
  BY <1>13 DEF DropSession, IsLastHolder
<1>14. CASE UNCHANGED vars
  BY <1>14 DEF vars
<1> QED
  BY <1>1, <1>2, <1>3, <1>4, <1>5, <1>6, <1>7, <1>8, <1>9, <1>10, <1>11,
     <1>12, <1>13, <1>14, BeginCallCases
     DEF Next, LibraryStep, TrampolineStep, Terminated

(***************************************************************************)
(* The Arc count is exact, and the handle dies with the last one.          *)
(***************************************************************************)
LEMMA NextHolderInv ==
  ASSUME TypeOK, HolderInv, [Next]_vars
  PROVE  HolderInv'
<1> USE DEF TypeOK, HolderInv, GoTo, callVars, arcVars, lockVars,
           closureVars, libraryVars
<1>1. ASSUME NEW t \in Threads, CallStep(t)
     PROVE  HolderInv'
  BY <1>1 DEF CallStep, Refuse, Queue
<1>2. ASSUME NEW t \in Threads, LockRun(t)
     PROVE  HolderInv'
  BY <1>2 DEF LockRun, MayLock
<1>3. ASSUME NEW t \in Threads, EnterRun(t)
     PROVE  HolderInv'
  BY <1>3 DEF EnterRun, GuardDuringRun
<1>4. ASSUME NEW t \in Threads, StartRun(t)
     PROVE  HolderInv'
  BY <1>4 DEF StartRun
<1>5. ASSUME NEW t \in Threads, TrampolineStep(t)
     PROVE  HolderInv'
  BY <1>5 DEF TrampolineStep, TrampolineNull, TrampolineRefuses,
              TrampolineCalls, MakesCallback, HasPanicked
<1>6. ASSUME NEW t \in Threads, ClosureStep(t)
     PROVE  HolderInv'
  BY <1>6 DEF ClosureStep, ClosureReturns, ClosurePanics
<1>7. ASSUME NEW t \in Threads, ClosureReenters(t)
     PROVE  HolderInv'
  BY <1>7 DEF ClosureReenters
<1>8. ASSUME NEW t \in Threads, NEW status \in {0, -1}, ReturnRun(t, status)
     PROVE  HolderInv'
  BY <1>8 DEF ReturnRun
<1>9. ASSUME NEW t \in Threads, FinishRun(t)
     PROVE  HolderInv'
  BY <1>9 DEF FinishRun, LockAfterRun
<1>10. ASSUME NEW t \in Threads, OpStep(t)
      PROVE  HolderInv'
  BY <1>10 DEF OpStep, EnterOp, ReturnOp, FinishOp
<1>11. ASSUME NEW t \in Threads, Abort(t)
      PROVE  HolderInv'
  BY <1>11 DEF Abort, MayAbort, IsRunning
<1>12. ASSUME NEW t \in Threads, NEW u \in Threads, CloneSession(t, u)
      PROVE  HolderInv'
  BY <1>12 DEF CloneSession
<1>13. ASSUME NEW t \in Threads, DropSession(t)
      PROVE  HolderInv'
  BY <1>13 DEF DropSession, IsLastHolder
<1>14. CASE UNCHANGED vars
  BY <1>14 DEF vars
<1> QED
  BY <1>1, <1>2, <1>3, <1>4, <1>5, <1>6, <1>7, <1>8, <1>9, <1>10, <1>11,
     <1>12, <1>13, <1>14, BeginCallCases
     DEF Next, LibraryStep, TrampolineStep, Terminated

(***************************************************************************)
(* The library has a run in flight exactly while a thread is in it, and    *)
(* points at that thread.                                                  *)
(***************************************************************************)
LEMMA NextRunInv ==
  ASSUME TypeOK, LockInv, RunInv, [Next]_vars
  PROVE  RunInv'
<1> USE DEF TypeOK, LockInv, RunInv, InRun, InLibrary, GoTo, callVars, arcVars, lockVars,
           closureVars, libraryVars
<1>1. ASSUME NEW t \in Threads, CallStep(t)
     PROVE  RunInv'
  BY <1>1 DEF CallStep, Refuse, Queue
<1>2. ASSUME NEW t \in Threads, LockRun(t)
     PROVE  RunInv'
  BY <1>2 DEF LockRun, MayLock
<1>3. ASSUME NEW t \in Threads, EnterRun(t)
     PROVE  RunInv'
  BY <1>3 DEF EnterRun, GuardDuringRun
<1>4. ASSUME NEW t \in Threads, StartRun(t)
     PROVE  RunInv'
  BY <1>4, ThreadsAssumption DEF StartRun
<1>5. ASSUME NEW t \in Threads, TrampolineStep(t)
     PROVE  RunInv'
  BY <1>5 DEF TrampolineStep, TrampolineNull, TrampolineRefuses,
              TrampolineCalls, MakesCallback, HasPanicked
<1>6. ASSUME NEW t \in Threads, ClosureStep(t)
     PROVE  RunInv'
  BY <1>6 DEF ClosureStep, ClosureReturns, ClosurePanics
<1>7. ASSUME NEW t \in Threads, ClosureReenters(t)
     PROVE  RunInv'
  BY <1>7 DEF ClosureReenters
<1>8. ASSUME NEW t \in Threads, NEW status \in {0, -1}, ReturnRun(t, status)
     PROVE  RunInv'
  BY <1>8 DEF ReturnRun
<1>9. ASSUME NEW t \in Threads, FinishRun(t)
     PROVE  RunInv'
  BY <1>9 DEF FinishRun, LockAfterRun
<1>10. ASSUME NEW t \in Threads, OpStep(t)
      PROVE  RunInv'
  BY <1>10 DEF OpStep, EnterOp, ReturnOp, FinishOp
<1>11. ASSUME NEW t \in Threads, Abort(t)
      PROVE  RunInv'
  BY <1>11 DEF Abort, MayAbort, IsRunning
<1>12. ASSUME NEW t \in Threads, NEW u \in Threads, CloneSession(t, u)
      PROVE  RunInv'
  BY <1>12 DEF CloneSession
<1>13. ASSUME NEW t \in Threads, DropSession(t)
      PROVE  RunInv'
  BY <1>13 DEF DropSession, IsLastHolder
<1>14. CASE UNCHANGED vars
  BY <1>14 DEF vars
<1> QED
  BY <1>1, <1>2, <1>3, <1>4, <1>5, <1>6, <1>7, <1>8, <1>9, <1>10, <1>11,
     <1>12, <1>13, <1>14, BeginCallCases
     DEF Next, LibraryStep, TrampolineStep, Terminated

(***************************************************************************)
(* A CallbackState lives exactly as long as its run, and remembers the     *)
(* panic of its closure.                                                   *)
(***************************************************************************)
LEMMA NextFrameInv ==
  ASSUME TypeOK, LockInv, RunInv, FrameInv, [Next]_vars
  PROVE  FrameInv'
<1> USE DEF TypeOK, RunInv, FrameInv, InRun, RunCalls, GoTo, callVars, arcVars, lockVars,
           closureVars, libraryVars
<1>1. ASSUME NEW t \in Threads, CallStep(t)
     PROVE  FrameInv'
  BY <1>1 DEF CallStep, Refuse, Queue
<1>2. ASSUME NEW t \in Threads, LockRun(t)
     PROVE  FrameInv'
  BY <1>2 DEF LockRun, MayLock
<1>3. ASSUME NEW t \in Threads, EnterRun(t)
     PROVE  FrameInv'
  BY <1>3 DEF EnterRun, GuardDuringRun
<1>4. ASSUME NEW t \in Threads, StartRun(t)
     PROVE  FrameInv'
  BY <1>4 DEF StartRun
<1>5. ASSUME NEW t \in Threads, TrampolineStep(t)
     PROVE  FrameInv'
  BY <1>5 DEF TrampolineStep, TrampolineNull, TrampolineRefuses,
              TrampolineCalls, MakesCallback, HasPanicked
<1>6. ASSUME NEW t \in Threads, ClosureStep(t)
     PROVE  FrameInv'
  BY <1>6 DEF ClosureStep, ClosureReturns, ClosurePanics
<1>7. ASSUME NEW t \in Threads, ClosureReenters(t)
     PROVE  FrameInv'
  BY <1>7 DEF ClosureReenters
<1>8. ASSUME NEW t \in Threads, NEW status \in {0, -1}, ReturnRun(t, status)
     PROVE  FrameInv'
  BY <1>8 DEF ReturnRun
<1>9. ASSUME NEW t \in Threads, FinishRun(t)
     PROVE  FrameInv'
  BY <1>9 DEF FinishRun, LockAfterRun
<1>10. ASSUME NEW t \in Threads, OpStep(t)
      PROVE  FrameInv'
  BY <1>10 DEF OpStep, EnterOp, ReturnOp, FinishOp
<1>11. ASSUME NEW t \in Threads, Abort(t)
      PROVE  FrameInv'
  BY <1>11 DEF Abort, MayAbort, IsRunning
<1>12. ASSUME NEW t \in Threads, NEW u \in Threads, CloneSession(t, u)
      PROVE  FrameInv'
  BY <1>12 DEF CloneSession
<1>13. ASSUME NEW t \in Threads, DropSession(t)
      PROVE  FrameInv'
  BY <1>13 DEF DropSession, IsLastHolder
<1>14. CASE UNCHANGED vars
  BY <1>14 DEF vars
<1> QED
  BY <1>1, <1>2, <1>3, <1>4, <1>5, <1>6, <1>7, <1>8, <1>9, <1>10, <1>11,
     <1>12, <1>13, <1>14, BeginCallCases
     DEF Next, LibraryStep, TrampolineStep, Terminated

(***************************************************************************)
(* The slice a closure is given was written by the library.                *)
(***************************************************************************)
LEMMA NextReads ==
  ASSUME TypeOK, ReadsWhatWasWritten, [Next]_vars
  PROVE  ReadsWhatWasWritten'
<1> USE DEF TypeOK, ReadsWhatWasWritten, GoTo, callVars, arcVars, lockVars,
           closureVars, libraryVars
<1>1. ASSUME NEW t \in Threads, CallStep(t)
     PROVE  ReadsWhatWasWritten'
  BY <1>1 DEF CallStep, Refuse, Queue
<1>2. ASSUME NEW t \in Threads, LockRun(t)
     PROVE  ReadsWhatWasWritten'
  BY <1>2 DEF LockRun, MayLock
<1>3. ASSUME NEW t \in Threads, EnterRun(t)
     PROVE  ReadsWhatWasWritten'
  BY <1>3 DEF EnterRun, GuardDuringRun
<1>4. ASSUME NEW t \in Threads, StartRun(t)
     PROVE  ReadsWhatWasWritten'
  BY <1>4 DEF StartRun
<1>5. ASSUME NEW t \in Threads, TrampolineStep(t)
     PROVE  ReadsWhatWasWritten'
  BY <1>5, OutputsOfType DEF TrampolineStep, TrampolineNull, TrampolineRefuses,
              TrampolineCalls, MakesCallback, HasPanicked
<1>6. ASSUME NEW t \in Threads, ClosureStep(t)
     PROVE  ReadsWhatWasWritten'
  BY <1>6 DEF ClosureStep, ClosureReturns, ClosurePanics
<1>7. ASSUME NEW t \in Threads, ClosureReenters(t)
     PROVE  ReadsWhatWasWritten'
  BY <1>7 DEF ClosureReenters
<1>8. ASSUME NEW t \in Threads, NEW status \in {0, -1}, ReturnRun(t, status)
     PROVE  ReadsWhatWasWritten'
  BY <1>8 DEF ReturnRun
<1>9. ASSUME NEW t \in Threads, FinishRun(t)
     PROVE  ReadsWhatWasWritten'
  BY <1>9 DEF FinishRun, LockAfterRun
<1>10. ASSUME NEW t \in Threads, OpStep(t)
      PROVE  ReadsWhatWasWritten'
  BY <1>10 DEF OpStep, EnterOp, ReturnOp, FinishOp
<1>11. ASSUME NEW t \in Threads, Abort(t)
      PROVE  ReadsWhatWasWritten'
  BY <1>11 DEF Abort, MayAbort, IsRunning
<1>12. ASSUME NEW t \in Threads, NEW u \in Threads, CloneSession(t, u)
      PROVE  ReadsWhatWasWritten'
  BY <1>12 DEF CloneSession
<1>13. ASSUME NEW t \in Threads, DropSession(t)
      PROVE  ReadsWhatWasWritten'
  BY <1>13 DEF DropSession, IsLastHolder
<1>14. CASE UNCHANGED vars
  BY <1>14 DEF vars
<1> QED
  BY <1>1, <1>2, <1>3, <1>4, <1>5, <1>6, <1>7, <1>8, <1>9, <1>10, <1>11,
     <1>12, <1>13, <1>14, BeginCallCases
     DEF Next, LibraryStep, TrampolineStep, Terminated

-----------------------------------------------------------------------------
(***************************************************************************)
(* SessionInv holds initially and is preserved by every step.              *)
(***************************************************************************)
LEMMA InitSessionInv == Init => SessionInv
<1> SUFFICES ASSUME Init
             PROVE  SessionInv
  OBVIOUS
<1>1. TypeOK
  BY InitTypeOK
<1>2. LockInv /\ FrameInv /\ RunInv /\ HolderInv /\ ReadsWhatWasWritten
  BY ThreadsAssumption
     DEF Init, LockInv, FrameInv, RunInv, HolderInv, ReadsWhatWasWritten,
         InLibrary, InRun
<1> QED  BY <1>1, <1>2 DEF SessionInv

LEMMA NextSessionInv == SessionInv /\ [Next]_vars => SessionInv'
<1> SUFFICES ASSUME SessionInv, [Next]_vars
             PROVE  SessionInv'
  OBVIOUS
<1> USE DEF SessionInv
<1> QED
  BY NextTypeOK, NextLockInv, NextFrameInv, NextRunInv, NextHolderInv,
     NextReads

(***************************************************************************)
(* The inductive invariant holds in every state of a session.              *)
(***************************************************************************)
THEOREM SessionInvariant == Spec => []SessionInv
  BY InitSessionInv, NextSessionInv, PTL DEF Spec

(***************************************************************************)
(* One lock-taking call at a time is in the library, however many threads  *)
(* share the session and however many panics poisoned its lock.            *)
(***************************************************************************)
THEOREM MutualExclusion == Spec => []OneCallInLibrary
<1>1. SessionInv => OneCallInLibrary
  BY ThreadsAssumption DEF SessionInv, LockInv, OneCallInLibrary, InLibrary
<1> QED  BY <1>1, SessionInvariant, PTL

(***************************************************************************)
(* The trampoline only ever calls the closure of the run it serves, below  *)
(* a live CallbackState, and never one that panicked.                      *)
(***************************************************************************)
THEOREM ClosureContained == Spec => []ClosureOfOwnRun
<1>1. SessionInv => ClosureOfOwnRun
  BY DEF SessionInv, TypeOK, FrameInv, RunInv, InRun, ClosureOfOwnRun
<1> QED  BY <1>1, SessionInvariant, PTL

(***************************************************************************)
(* A run that is_running reports is owned by the thread that holds the     *)
(* lock, and its userdata points at a live CallbackState.                  *)
(***************************************************************************)
THEOREM RunningOwned == Spec => []RunningHasOwner
<1>1. SessionInv => RunningHasOwner
  BY ThreadsAssumption
     DEF SessionInv, TypeOK, LockInv, FrameInv, RunInv, InRun, InLibrary,
         RunningHasOwner, IsRunning
<1> QED  BY <1>1, SessionInvariant, PTL

(***************************************************************************)
(* No thread can reach the handle once it is destroyed.                    *)
(***************************************************************************)
THEOREM DestroyedLast == Spec => []NoUseAfterDestroy
<1>1. SessionInv => NoUseAfterDestroy
  BY DEF SessionInv, HolderInv, NoUseAfterDestroy
<1> QED  BY <1>1, SessionInvariant, PTL

(***************************************************************************)
(* The trampoline reads only results that the library wrote.               *)
(***************************************************************************)
THEOREM ReadsInBounds == Spec => []ReadsWhatWasWritten
<1>1. SessionInv => ReadsWhatWasWritten
  BY DEF SessionInv
<1> QED  BY <1>1, SessionInvariant, PTL

(***************************************************************************)
(* A thread is wedged only by a closure of its own that reenters.          *)
(***************************************************************************)
WedgedInv == \A t \in Threads : pc[t] = "wedged" => t \in Reentrant

LEMMA NextWedgedInv ==
  ASSUME TypeOK, WedgedInv, [Next]_vars
  PROVE  WedgedInv'
<1> USE DEF TypeOK, WedgedInv, GoTo
<1>1. ASSUME NEW t \in Threads, CallStep(t)
      PROVE  WedgedInv'
  BY <1>1 DEF CallStep, Refuse, Queue
<1>2. ASSUME NEW t \in Threads, LockRun(t) \/ EnterRun(t) \/ StartRun(t) \/ FinishRun(t)
      PROVE  WedgedInv'
  BY <1>2 DEF LockRun, EnterRun, StartRun, FinishRun
<1>3. ASSUME NEW t \in Threads, TrampolineStep(t)
      PROVE  WedgedInv'
  BY <1>3 DEF TrampolineStep, TrampolineNull, TrampolineRefuses, TrampolineCalls
<1>4. ASSUME NEW t \in Threads, NEW status \in {0, -1}, ReturnRun(t, status)
      PROVE  WedgedInv'
  BY <1>4 DEF ReturnRun
<1>5. ASSUME NEW t \in Threads, ClosureStep(t) \/ ClosureReenters(t)
      PROVE  WedgedInv'
  BY <1>5 DEF ClosureStep, ClosureReturns, ClosurePanics, ClosureReenters
<1>6. ASSUME NEW t \in Threads, OpStep(t) \/ Abort(t)
      PROVE  WedgedInv'
  BY <1>6 DEF OpStep, EnterOp, ReturnOp, FinishOp, Abort
<1>7. ASSUME NEW t \in Threads, DropSession(t) \/ \E u \in Threads : CloneSession(t, u)
      PROVE  WedgedInv'
  BY <1>7 DEF DropSession, CloneSession
<1>8. CASE UNCHANGED vars
  BY <1>8 DEF vars
<1> QED
  BY <1>1, <1>2, <1>3, <1>4, <1>5, <1>6, <1>7, <1>8, BeginCallCases
  DEF Next, LibraryStep, TrampolineStep, Terminated

(***************************************************************************)
(* Only a closure that reenters stops the session: whoever else holds the  *)
(* lock has a step of its call to take, and whoever waits for a lock that  *)
(* nobody holds may take it, poisoned or not.                              *)
(***************************************************************************)
THEOREM OnlyReentryStalls == Spec => []StallsOnlyReentered
<1>1. SessionInv /\ WedgedInv => StallsOnlyReentered
  <2> SUFFICES ASSUME SessionInv, WedgedInv,
                      NEW t \in Threads, pc[t] \notin {"gone", "idle"},
                      \A u \in Threads : ~MayAdvance(u)
               PROVE  \E u \in Reentrant : pc[u] = "wedged" /\ lock = u /\ IsRunning
    BY DEF StallsOnlyReentered
  <2> USE DEF SessionInv, TypeOK
  <2>1. \A u \in Threads : pc[u] \in InLibrary \cup {"locked", "back"} => pc[u] = "wedged"
    BY DEF MayAdvance, InLibrary
  <2>2. PICK u \in Threads : pc[u] \in InLibrary \cup {"locked", "back"}
    <3>1. CASE pc[t] = "blocked"
      <4>1. lock \in Threads
        BY <3>1 DEF MayAdvance, MayLock
      <4> QED
        BY <4>1 DEF LockInv
    <3>2. CASE pc[t] # "blocked"
      BY <3>2 DEF Places, InLibrary
    <3> QED
      BY <3>1, <3>2
  <2>3. pc[u] = "wedged" /\ lock = u /\ u \in Reentrant
    BY <2>1, <2>2 DEF LockInv, WedgedInv, InLibrary
  <2>4. IsRunning
    BY <2>3 DEF RunInv, InRun, IsRunning
  <2> QED
    BY <2>3, <2>4
<1>2. Spec => []WedgedInv
  <2>1. Init => WedgedInv
    BY DEF Init, WedgedInv
  <2>2. TypeOK /\ WedgedInv /\ [Next]_vars => WedgedInv'
    BY NextWedgedInv
  <2> QED
    BY <2>1, <2>2, TypeCorrect, PTL DEF Spec
<1> QED
  BY <1>1, <1>2, SessionInvariant, PTL

(***************************************************************************)
(* A run ends in its closure's panic, if there was one, and otherwise in   *)
(* the status of rkllm_run.                                                *)
(***************************************************************************)
THEOREM PanicDelivered == Spec => PanicReachesCaller
<1> DEFINE Delivered ==
      \A t \in Threads :
        call[t] \in RunCalls /\ pc[t] = "back" /\ pc'[t] = "idle" =>
          /\ outcome'[t] = "panic" <=> t \in unwound
          /\ outcome'[t] = "Ok" <=> t \notin unwound /\ code[t] = 0
<1>1. SessionInv /\ [Next]_vars => [Delivered]_vars
  <2> SUFFICES ASSUME SessionInv, Next,
                      NEW t \in Threads, call[t] \in RunCalls,
                      pc[t] = "back", pc'[t] = "idle"
               PROVE  /\ outcome'[t] = "panic" <=> t \in unwound
                      /\ outcome'[t] = "Ok" <=> t \notin unwound /\ code[t] = 0
    OBVIOUS
  <2> USE DEF SessionInv, TypeOK, GoTo
  <2>1. FinishRun(t)
    <3>1. PICK u \in Threads :
            \/ CallStep(u) \/ LockRun(u) \/ EnterRun(u) \/ StartRun(u)
            \/ TrampolineStep(u) \/ ClosureStep(u) \/ ClosureReenters(u)
            \/ \E status \in {0, -1} : ReturnRun(u, status)
            \/ FinishRun(u) \/ OpStep(u) \/ Abort(u) \/ DropSession(u)
            \/ \E v \in Threads : CloneSession(u, v)
      BY BeginCallCases DEF Next, LibraryStep, TrampolineStep, Terminated, vars
    <3>2. ~CallStep(u)
      BY DEF CallStep, Refuse, Queue
    <3>3. /\ ~LockRun(u) /\ ~EnterRun(u) /\ ~StartRun(u)
          /\ ~ClosureReenters(u) /\ ~DropSession(u)
      BY DEF LockRun, EnterRun, StartRun, ClosureReenters, DropSession
    <3>4. ~TrampolineStep(u) /\ ~ClosureStep(u) /\ ~Abort(u)
      BY DEF TrampolineStep, TrampolineNull, TrampolineRefuses,
             TrampolineCalls, ClosureStep, ClosureReturns, ClosurePanics, Abort
    <3>5. ~(\E status \in {0, -1} : ReturnRun(u, status))
      BY DEF ReturnRun
    <3>6. ~(\E v \in Threads : CloneSession(u, v))
      BY DEF CloneSession
    <3>7. ~OpStep(u)
      BY DEF OpStep, EnterOp, ReturnOp, FinishOp
    <3>8. FinishRun(u)
      BY <3>1, <3>2, <3>3, <3>4, <3>5, <3>6, <3>7
    <3> QED  BY <3>8 DEF FinishRun
  <2>2. outcome'[t] = RunOutcome(t)
    BY <2>1 DEF FinishRun
  <2>3. frame[t] = "panicked" <=> t \in unwound
    BY DEF FrameInv
  <2> QED  BY <2>2, <2>3 DEF RunOutcome, HasPanicked, Check
<1> QED
  BY <1>1, SessionInvariant, PTL DEF Spec, PanicReachesCaller
=============================================================================
