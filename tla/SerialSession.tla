--------------------------- MODULE SerialSession ----------------------------
(***************************************************************************)
(* What a session promises its callers, with no lock, no library and no    *)
(* pointers: calls are refused or served one at a time, only the closure   *)
(* of the call being served is fed, a closure that broke is fed no more    *)
(* and its call ends in its panic, and the session closes when its last    *)
(* owner leaves.                                                           *)
(***************************************************************************)
CONSTANTS Threads, Founders

VARIABLES
  stage,    \* "gone", "idle", "pending" or "served"
  outcome,  \* how the last call of each thread ended
  fed,      \* the threads whose closure is looking at outputs
  broken,   \* the threads whose closure panicked in the call being served
  closed    \* the session is destroyed

vars == <<stage, outcome, fed, broken, closed>>

Refused == {"NotSingleBatch", "BatchSizeMismatch", "InteriorNul"}

Init ==
  /\ stage = [t \in Threads |-> IF t \in Founders THEN "idle" ELSE "gone"]
  /\ outcome = [t \in Threads |-> "none"]
  /\ fed = {}
  /\ broken = {}
  /\ closed = FALSE

Move(t, from, to) == stage[t] = from /\ stage' = [stage EXCEPT ![t] = to]
Report(t, what) == outcome' = [outcome EXCEPT ![t] = what]

Refuse(t) ==
  /\ stage[t] = "idle"
  /\ \E why \in Refused : Report(t, why)
  /\ UNCHANGED <<stage, fed, broken, closed>>

Submit(t) ==
  /\ Move(t, "idle", "pending")
  /\ Report(t, "none")
  /\ UNCHANGED <<fed, broken, closed>>

Serve(t) ==
  /\ \A u \in Threads : stage[u] # "served"
  /\ Move(t, "pending", "served")
  /\ UNCHANGED <<outcome, fed, broken, closed>>

Feed(t) ==
  /\ stage[t] = "served"
  /\ t \notin broken
  /\ fed = {}
  /\ fed' = {t}
  /\ UNCHANGED <<stage, outcome, broken, closed>>

Digest(t) ==
  /\ fed = {t}
  /\ fed' = {}
  /\ broken' \in {broken, {t}}
  /\ UNCHANGED <<stage, outcome, closed>>

Complete(t) ==
  /\ fed = {}
  /\ Move(t, "served", "idle")
  /\ IF t \in broken THEN Report(t, "panic")
                      ELSE \E what \in {"Ok", "Status"} : Report(t, what)
  /\ broken' = broken \ {t}
  /\ UNCHANGED <<fed, closed>>

Join(t) ==
  /\ \E u \in Threads : stage[u] = "idle"
  /\ Move(t, "gone", "idle")
  /\ UNCHANGED <<outcome, fed, broken, closed>>

Leave(t) ==
  /\ Move(t, "idle", "gone")
  /\ closed' = (\A u \in Threads : stage'[u] = "gone")
  /\ UNCHANGED <<outcome, fed, broken>>

Next ==
  \E t \in Threads :
    \/ Refuse(t) \/ Submit(t) \/ Serve(t) \/ Feed(t) \/ Digest(t)
    \/ Complete(t) \/ Join(t) \/ Leave(t)

Spec == Init /\ [][Next]_vars
=============================================================================
