--------------------------- MODULE MCRkllmSession ---------------------------
(***************************************************************************)
(* Instances of RkllmSession for TLC.                                      *)
(***************************************************************************)
EXTENDS RkllmSession

CONSTANTS t1, t2, t3, Watchdogs

TwoThreads == {t1, t2}
ThreeThreads == {t1, t2, t3}
OneThread == {t1}
SomeOps == {"load_lora", "clear_kv_cache_ranges", "kv_cache_size"}
OneOp == {"kv_cache_size"}
AllRawStates == 0..4
NormalAndFinal == {0, 2}

(***************************************************************************)
(* A watchdog makes no call of its own and keeps its Arc; it only aborts   *)
(* the run it sees, again and again, when that run has no token budget.    *)
(* Abort is of a run that holds the lock, so fairness is asked of an abort *)
(* taken while one of the unbounded runs does.  Every thread owns the      *)
(* session from the start, and no closure re-enters it.                    *)
(***************************************************************************)
WatchedNext ==
  \/ \E t \in Threads \ Watchdogs :
       \/ BeginCall(t)
       \/ LockRun(t)
       \/ EnterRun(t)
       \/ StartRun(t)
       \/ LibraryStep(t)
       \/ ClosureStep(t)
       \/ FinishRun(t)
       \/ OpStep(t)
       \/ DropSession(t)
  \/ \E t \in Threads : Abort(t)
WatchedSpec ==
  /\ Init /\ [][WatchedNext]_vars
  /\ Fairness
  /\ \A w \in Watchdogs : WF_vars(lock \in Unlimited /\ Abort(w))

(***************************************************************************)
(* A run ends: by its token budget, or, where it has none, because somebody*)
(* keeps calling abort, although the lock is held all along.               *)
(***************************************************************************)
WatchedRunsEnd ==
  \A t \in Threads : (pc[t] = "inside") ~> (pc[t] = "idle")
=============================================================================
