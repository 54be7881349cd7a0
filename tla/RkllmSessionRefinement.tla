----------------------- MODULE RkllmSessionRefinement -----------------------
(***************************************************************************)
(* RkllmSession implements SerialSession: whatever the threads, the lock,  *)
(* the library and the closures do, callers see calls served one at a time.*)
(***************************************************************************)
EXTENDS RkllmSessionProofs

(***************************************************************************)
(* The variables of SerialSession, as the session shows them.              *)
(***************************************************************************)
stageBar == [t \in Threads |-> Stage(pc[t])]
fedBar == {t \in Threads : pc[t] \in {"closure", "wedged"}}
brokenBar == {t \in Threads : frame[t] = "panicked"}
barVars == <<stageBar, outcome, fedBar, brokenBar, destroyed>>

ServedPlaces == InLibrary \cup {"back"}

LEMMA StageOf ==
  ASSUME NEW place \in Places
  PROVE  /\ Stage(place) = "served" <=> place \in ServedPlaces
         /\ Stage(place) = "gone" <=> place = "gone"
         /\ Stage(place) = "idle" <=> place = "idle"
         /\ Stage(place) = "pending" <=> place \in {"blocked", "locked"}
  BY DEF Stage, Places, ServedPlaces, InLibrary

(***************************************************************************)
(* A move of one thread between two places is a move between their stages. *)
(***************************************************************************)
LEMMA StageMoves ==
  ASSUME TypeOK, NEW t \in Threads, NEW from \in Places, NEW to \in Places,
         GoTo(t, from, to)
  PROVE  /\ stageBar[t] = Stage(from)
         /\ stageBar' = [stageBar EXCEPT ![t] = Stage(to)]
  BY DEF TypeOK, GoTo, stageBar

(***************************************************************************)
(* Whoever holds the lock is the only thread that is served, that is fed   *)
(* or that broke.                                                          *)
(***************************************************************************)
LEMMA HolderIsServed ==
  ASSUME SessionInv, NEW t \in Threads, lock = t
  PROVE  /\ fedBar \subseteq {t} /\ brokenBar \subseteq {t}
         /\ \A u \in Threads : Stage(pc[u]) = "served" => u = t
<1> USE DEF SessionInv, TypeOK
<1>1. \A u \in Threads : pc[u] \in ServedPlaces => u = t
  BY DEF LockInv, ServedPlaces
<1>2. fedBar \subseteq {t}
  BY <1>1 DEF fedBar, ServedPlaces, InLibrary
<1>3. \A u \in Threads : frame[u] = "panicked" => pc[u] \in ServedPlaces
  BY DEF FrameInv, ServedPlaces, InLibrary, InRun
<1>4. brokenBar \subseteq {t}
  BY <1>1, <1>3 DEF brokenBar
<1> QED  BY <1>1, <1>2, <1>4, StageOf

LEMMA InitSerial == Init => Serial!Init
<1> SUFFICES ASSUME Init
             PROVE  Serial!Init
  OBVIOUS
<1>1. \A t \in Threads :
        Stage(pc[t]) = IF t \in Founders THEN "idle" ELSE "gone"
  BY DEF Init, Stage
<1>2. {t \in Threads : pc[t] \in {"closure", "wedged"}} = {}
      /\ {t \in Threads : frame[t] = "panicked"} = {}
  BY DEF Init
<1> QED  BY <1>1, <1>2 DEF Init, Serial!Init

(***************************************************************************)
(* The definitions of SerialSession under the mapping, one per action.     *)
(***************************************************************************)
SerialStep == [Serial!Next]_barVars

LEMMA CallSerial ==
  ASSUME SessionInv, NEW t \in Threads, CallStep(t)
  PROVE  SerialStep
<1> USE DEF SessionInv
<1>1. ASSUME NEW why \in Refusals, Refuse(t, why)
      PROVE  Serial!Refuse(t)
  <2>1. UNCHANGED <<stageBar, fedBar, brokenBar, destroyed>>
        /\ stageBar[t] = "idle"
    BY <1>1 DEF Refuse, arcVars, lockVars, closureVars, libraryVars,
                stageBar, fedBar, brokenBar, Stage
  <2> QED  BY <1>1, <2>1 DEF Refuse, Refusals, Serial!Refuse, Serial!Report,
                Serial!Refused, stageBar, fedBar, brokenBar
<1>2. ASSUME NEW c \in Calls, Queue(t, c)
      PROVE  Serial!Submit(t)
  <2>1. stageBar[t] = "idle" /\ stageBar' = [stageBar EXCEPT ![t] = "pending"]
    BY <1>2, StageMoves, StageOf DEF Queue, Places
  <2>2. UNCHANGED <<fedBar, brokenBar, destroyed>>
    BY <1>2 DEF Queue, GoTo, TypeOK, arcVars, closureVars, fedBar, brokenBar
  <2> QED  BY <1>2, <2>1, <2>2 DEF Queue, Serial!Submit, Serial!Move,
                Serial!Report, stageBar, fedBar, brokenBar
<1> QED  BY <1>1, <1>2 DEF CallStep, SerialStep, Serial!Next

LEMMA LockRunSerial ==
  ASSUME SessionInv, NEW t \in Threads, LockRun(t)
  PROVE  UNCHANGED barVars
<1> USE DEF SessionInv
<1>1. stageBar' = stageBar
  BY StageMoves, StageOf DEF LockRun, Places, TypeOK, stageBar, Stage, GoTo
<1>2. fedBar' = fedBar /\ brokenBar' = brokenBar
  BY DEF LockRun, GoTo, TypeOK, closureVars, fedBar, brokenBar
<1> QED  BY <1>1, <1>2 DEF LockRun, callVars, arcVars, barVars

LEMMA EnterSerial ==
  ASSUME SessionInv, NEW t \in Threads, EnterRun(t) \/ EnterOp(t)
  PROVE  Serial!Serve(t)
<1> USE DEF SessionInv, TypeOK
<1>1. pc[t] = "locked" /\ lock = t
  BY DEF EnterRun, EnterOp, GoTo, LockInv
<1>2. \A u \in Threads : stageBar[u] # "served"
  BY <1>1, HolderIsServed, StageOf DEF stageBar, Places, ServedPlaces, InLibrary
<1>3. stageBar[t] = "pending" /\ stageBar' = [stageBar EXCEPT ![t] = "served"]
  <2>1. \/ GoTo(t, "locked", "starting")
        \/ GoTo(t, "locked", "serving")
    BY DEF EnterRun, EnterOp
  <2>2. /\ Stage("locked") = "pending" /\ Stage("starting") = "served"
        /\ Stage("serving") = "served"
    BY DEF Stage
  <2>3. "locked" \in Places /\ "starting" \in Places /\ "serving" \in Places
    BY DEF Places
  <2> QED  BY <2>1, <2>2, <2>3, StageMoves
<1>4. fedBar' = fedBar /\ UNCHANGED <<outcome, destroyed>>
  BY DEF EnterRun, EnterOp, GoTo, fedBar, callVars, arcVars
<1>5. brokenBar' = brokenBar
  BY <1>1 DEF EnterRun, EnterOp, closureVars, FrameInv, InRun, brokenBar
<1> QED  BY <1>2, <1>3, <1>4, <1>5
            DEF Serial!Serve, Serial!Move, stageBar, fedBar, brokenBar

LEMMA StartRunSerial ==
  ASSUME SessionInv, NEW t \in Threads, StartRun(t)
  PROVE  UNCHANGED barVars
<1> USE DEF SessionInv, TypeOK
<1>1. stageBar' = stageBar
  BY DEF StartRun, GoTo, stageBar, Stage
<1>2. fedBar' = fedBar /\ brokenBar' = brokenBar
  BY DEF StartRun, GoTo, closureVars, fedBar, brokenBar
<1> QED  BY <1>1, <1>2 DEF StartRun, callVars, arcVars, barVars

LEMMA TrampolineSerial ==
  ASSUME SessionInv, NEW t \in Threads, TrampolineStep(t)
  PROVE  SerialStep
<1> USE DEF SessionInv, TypeOK
<1> PICK raw \in RawStates :
      \/ TrampolineNull(t, raw)
      \/ TrampolineRefuses(t, raw)
      \/ \E w \in ResultsWritten(CallState(raw)) : TrampolineCalls(t, raw, w)
  BY DEF TrampolineStep
<1>1. CASE TrampolineNull(t, raw) \/ TrampolineRefuses(t, raw)
  <2>1. UNCHANGED <<pc, callVars, arcVars, closureVars>>
    BY <1>1 DEF TrampolineNull, TrampolineRefuses
  <2>2. UNCHANGED barVars
    BY <2>1 DEF callVars, arcVars, closureVars, barVars, stageBar, fedBar,
                brokenBar
  <2> QED  BY <2>2 DEF SerialStep
<1>2. ASSUME NEW w \in ResultsWritten(CallState(raw)),
             TrampolineCalls(t, raw, w)
      PROVE  Serial!Feed(t)
  <2>1. pc[t] = "inside" /\ userdata = t /\ lock = t /\ frame[t] # "panicked"
    BY <1>2 DEF TrampolineCalls, GoTo, HasPanicked, RunInv, InRun, LockInv,
                InLibrary
  <2>2. fedBar = {} /\ t \notin brokenBar /\ stageBar[t] = "served"
    BY <2>1, HolderIsServed DEF fedBar, brokenBar, stageBar, Stage
  <2>3. stageBar' = stageBar
    BY <1>2 DEF TrampolineCalls, GoTo, stageBar, Stage
  <2>4. fedBar' = fedBar \cup {t}
    BY <1>2 DEF TrampolineCalls, GoTo, fedBar
  <2>5. brokenBar' = brokenBar /\ UNCHANGED <<outcome, destroyed>>
    BY <1>2 DEF TrampolineCalls, brokenBar, callVars, arcVars
  <2> QED  BY <2>2, <2>3, <2>4, <2>5
              DEF Serial!Feed, stageBar, fedBar, brokenBar
<1> QED  BY <1>1, <1>2 DEF SerialStep, Serial!Next

LEMMA ClosureSerial ==
  ASSUME SessionInv, NEW t \in Threads, ClosureStep(t)
  PROVE  Serial!Digest(t)
<1> USE DEF SessionInv, TypeOK
<1>1. GoTo(t, "closure", "inside") /\ UNCHANGED <<outcome, destroyed>>
  BY DEF ClosureStep, ClosureReturns, ClosurePanics, callVars, arcVars
<1>2. userdata = t /\ lock = t
  BY <1>1 DEF GoTo, RunInv, InRun, LockInv, InLibrary
<1>3. fedBar = {t} /\ brokenBar \subseteq {t} /\ fedBar' = fedBar \ {t}
  BY <1>1, <1>2, HolderIsServed DEF GoTo, fedBar
<1>4. stageBar' = stageBar
  BY <1>1 DEF GoTo, stageBar, Stage
<1>5. brokenBar' \in {brokenBar, {t}}
  <2>1. CASE frame' = frame
    BY <2>1 DEF brokenBar
  <2>2. CASE ClosurePanics(t)
    <3>1. frame' = [frame EXCEPT ![t] = "panicked"]
      BY <1>2, <2>2 DEF ClosurePanics
    <3>2. brokenBar' = brokenBar \cup {t}
      BY <3>1 DEF brokenBar
    <3> QED  BY <1>3, <3>2
  <2> QED  BY <2>1, <2>2 DEF ClosureStep, ClosureReturns
<1> QED  BY <1>1, <1>3, <1>4, <1>5
            DEF Serial!Digest, stageBar, fedBar, brokenBar

LEMMA ReentersSerial ==
  ASSUME SessionInv, NEW t \in Threads, ClosureReenters(t)
  PROVE  UNCHANGED barVars
<1> USE DEF SessionInv, TypeOK
<1>1. stageBar' = stageBar
  BY DEF ClosureReenters, GoTo, stageBar, Stage
<1>2. fedBar' = fedBar /\ brokenBar' = brokenBar
  BY DEF ClosureReenters, GoTo, closureVars, fedBar, brokenBar
<1> QED  BY <1>1, <1>2 DEF ClosureReenters, callVars, arcVars, barVars

LEMMA ReturnSerial ==
  ASSUME SessionInv, NEW t \in Threads, NEW status \in {0, -1},
         ReturnRun(t, status) \/ ReturnOp(t, status)
  PROVE  UNCHANGED barVars
<1> USE DEF SessionInv, TypeOK
<1>1. stageBar' = stageBar
  BY DEF ReturnRun, ReturnOp, GoTo, stageBar, Stage
<1>2. fedBar' = fedBar /\ brokenBar' = brokenBar
  BY DEF ReturnRun, ReturnOp, GoTo, closureVars, fedBar, brokenBar
<1> QED  BY <1>1, <1>2 DEF ReturnRun, ReturnOp, arcVars, barVars

LEMMA FinishSerial ==
  ASSUME SessionInv, NEW t \in Threads, FinishRun(t) \/ FinishOp(t)
  PROVE  Serial!Complete(t)
<1> USE DEF SessionInv, TypeOK
<1>1. pc[t] = "back" /\ lock = t /\ GoTo(t, "back", "idle")
  BY DEF FinishRun, FinishOp, GoTo, LockInv
<1>2. fedBar = {} /\ brokenBar \subseteq {t}
  BY <1>1, HolderIsServed DEF fedBar
<1>3. fedBar' = fedBar
  BY <1>1 DEF GoTo, fedBar
<1>4. stageBar[t] = "served" /\ stageBar' = [stageBar EXCEPT ![t] = "idle"]
  BY <1>1, StageMoves DEF Places, Stage
<1>5. brokenBar' = brokenBar \ {t}
  BY <1>1 DEF FinishRun, FinishOp, closureVars, FrameInv, InRun, brokenBar
<1>6. outcome' = [outcome EXCEPT ![t] = outcome'[t]]
      /\ IF t \in brokenBar THEN outcome'[t] = "panic"
                            ELSE outcome'[t] \in {"Ok", "Status"}
  BY <1>1 DEF FinishRun, FinishOp, RunOutcome, Check, HasPanicked, FrameInv,
              InRun, brokenBar
<1>7. destroyed' = destroyed
  BY DEF FinishRun, FinishOp, arcVars
<1> QED  BY <1>2, <1>3, <1>4, <1>5, <1>6, <1>7
            DEF Serial!Complete, Serial!Move, Serial!Report, stageBar, fedBar,
                brokenBar

LEMMA AbortSerial ==
  ASSUME NEW t \in Threads, Abort(t)
  PROVE  UNCHANGED barVars
  BY DEF Abort, callVars, arcVars, closureVars, barVars, stageBar, fedBar,
         brokenBar

LEMMA CloneSerial ==
  ASSUME SessionInv, NEW t \in Threads, NEW u \in Threads, CloneSession(t, u)
  PROVE  Serial!Join(u)
<1> USE DEF SessionInv, TypeOK
<1>1. GoTo(u, "gone", "idle") /\ pc[t] = "idle"
      /\ UNCHANGED <<outcome, destroyed, frame>>
  BY DEF CloneSession, callVars, closureVars
<1>2. stageBar[u] = "gone" /\ stageBar' = [stageBar EXCEPT ![u] = "idle"]
  BY <1>1, StageMoves DEF Places, Stage
<1>3. stageBar[t] = "idle"
  BY <1>1 DEF stageBar, Stage
<1>4. fedBar' = fedBar /\ brokenBar' = brokenBar
  BY <1>1 DEF GoTo, fedBar, brokenBar
<1> QED  BY <1>1, <1>2, <1>3, <1>4
            DEF Serial!Join, Serial!Move, stageBar, fedBar, brokenBar

LEMMA DropSerial ==
  ASSUME SessionInv, SessionInv', NEW t \in Threads, DropSession(t)
  PROVE  Serial!Leave(t)
<1> USE DEF SessionInv, TypeOK
<1>1. GoTo(t, "idle", "gone") /\ UNCHANGED <<outcome, frame>>
  BY DEF DropSession, callVars, closureVars
<1>2. stageBar[t] = "idle" /\ stageBar' = [stageBar EXCEPT ![t] = "gone"]
  BY <1>1, StageMoves DEF Places, Stage
<1>3. fedBar' = fedBar /\ brokenBar' = brokenBar
  BY <1>1 DEF GoTo, fedBar, brokenBar
<1>4. \A u \in Threads : stageBar'[u] = "gone" <=> pc'[u] = "gone"
  BY StageOf DEF stageBar
<1>5. destroyed' = (\A u \in Threads : stageBar'[u] = "gone")
  <2>1. destroyed' <=> \A u \in Threads : pc'[u] = "gone"
    BY DEF HolderInv
  <2> QED  BY <1>4, <2>1
<1> QED  BY <1>1, <1>2, <1>3, <1>5
            DEF Serial!Leave, Serial!Move, stageBar, fedBar, brokenBar

(***************************************************************************)
(* Every step of the session is a step of SerialSession or shows nothing.  *)
(***************************************************************************)
LEMMA NextSerial == SessionInv /\ SessionInv' /\ [Next]_vars => SerialStep
<1> SUFFICES ASSUME SessionInv, SessionInv', [Next]_vars
             PROVE  SerialStep
  OBVIOUS
<1>1. ASSUME NEW t \in Threads, BeginCall(t)
      PROVE  SerialStep
  BY <1>1, BeginCallCases, CallSerial
<1>2. ASSUME NEW t \in Threads, LockRun(t) \/ StartRun(t) \/ ClosureReenters(t)
                                \/ Abort(t)
      PROVE  SerialStep
  BY <1>2, LockRunSerial, StartRunSerial, ReentersSerial, AbortSerial
     DEF SerialStep
<1>3. ASSUME NEW t \in Threads, EnterRun(t) \/ EnterOp(t)
      PROVE  SerialStep
  BY <1>3, EnterSerial DEF SerialStep, Serial!Next
<1>4. ASSUME NEW t \in Threads, LibraryStep(t)
      PROVE  SerialStep
  BY <1>4, TrampolineSerial, ReturnSerial
     DEF LibraryStep, TrampolineStep, SerialStep
<1>5. ASSUME NEW t \in Threads, ClosureStep(t)
      PROVE  SerialStep
  BY <1>5, ClosureSerial DEF SerialStep, Serial!Next
<1>6. ASSUME NEW t \in Threads, FinishRun(t) \/ FinishOp(t)
      PROVE  SerialStep
  BY <1>6, FinishSerial DEF SerialStep, Serial!Next
<1>7. ASSUME NEW t \in Threads, OpStep(t)
      PROVE  SerialStep
  BY <1>3, <1>6, <1>7, ReturnSerial DEF OpStep, SerialStep
<1>8. ASSUME NEW t \in Threads, NEW u \in Threads, CloneSession(t, u)
      PROVE  SerialStep
  BY <1>8, CloneSerial DEF SerialStep, Serial!Next
<1>9. ASSUME NEW t \in Threads, DropSession(t)
      PROVE  SerialStep
  BY <1>9, DropSerial DEF SerialStep, Serial!Next
<1>10. CASE UNCHANGED vars
  BY <1>10 DEF vars, callVars, arcVars, closureVars, barVars, stageBar,
               fedBar, brokenBar, SerialStep
<1> QED
  BY <1>1, <1>2, <1>3, <1>4, <1>5, <1>6, <1>7, <1>8, <1>9, <1>10
     DEF Next, Terminated

(***************************************************************************)
(* The session implements SerialSession, for any number of threads, batch  *)
(* size and bounds: calls are refused or served one at a time, only the    *)
(* closure of the call being served is fed, never after it panicked, its   *)
(* call ends in that panic, and the handle dies with the last owner.       *)
(***************************************************************************)
THEOREM SessionImplementsSerial == Spec => ImplementsSerial
<1>1. SerialStep = [Serial!Next]_Serial!vars
  BY DEF SerialStep, barVars, stageBar, fedBar, brokenBar, Serial!vars
<1>2. SessionInv /\ SessionInv' /\ [Next]_vars => [Serial!Next]_Serial!vars
  BY <1>1, NextSerial
<1> QED  BY <1>2, InitSerial, SessionInvariant, PTL
            DEF Spec, ImplementsSerial, Serial!Spec
=============================================================================
