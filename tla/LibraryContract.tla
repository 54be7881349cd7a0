-------------------------- MODULE LibraryContract ---------------------------
(***************************************************************************)
(* What a C library that calls back asks of those who use it, with no      *)
(* builder, no batch size and no results in sight: a handle is created and *)
(* destroyed once, by calls that are made while the library is open; the   *)
(* memory of the hooks is lent before it can be called and taken back only *)
(* when it can be called no more; and nobody closes the library, or takes  *)
(* the hooks back, below a call, a hook or a handle that is alive.         *)
(***************************************************************************)
CONSTANT Users

VARIABLES
  open,    \* the users that hold the library open
  lent,    \* those whose hooks can be called
  inside,  \* those that wait for init or destroy to return
  busy,    \* those whose hook the library is running
  handle   \* the handle of each: "none", "live" or "destroyed"

vars == <<open, lent, inside, busy, handle>>

Init ==
  /\ open = {} /\ lent = {} /\ inside = {} /\ busy = {}
  /\ handle = [u \in Users |-> "none"]

(***************************************************************************)
(* The library can call the hooks of a user whose handle it is making, has *)
(* made or is destroying; otherwise the user may take everything away.     *)
(***************************************************************************)
Reachable(u) == u \in inside \/ handle[u] = "live"

Open(u) ==
  /\ u \notin open
  /\ open' = open \cup {u}
  /\ UNCHANGED <<lent, inside, busy, handle>>

Lend(u) ==
  /\ u \notin lent
  /\ lent' = lent \cup {u}
  /\ UNCHANGED <<open, inside, busy, handle>>

BeginInit(u) ==
  /\ u \in open \cap lent
  /\ u \notin inside
  /\ handle[u] = "none"
  /\ inside' = inside \cup {u}
  /\ UNCHANGED <<open, lent, busy, handle>>

BeginDestroy(u) ==
  /\ u \notin inside
  /\ handle[u] = "live"
  /\ inside' = inside \cup {u}
  /\ UNCHANGED <<open, lent, busy, handle>>

Return(u) ==
  /\ u \in inside \ busy
  /\ inside' = inside \ {u}
  /\ \/ handle[u] = "none" /\ handle' = handle
     \/ handle[u] = "none" /\ handle' = [handle EXCEPT ![u] = "live"]
     \/ handle[u] = "live" /\ handle' = [handle EXCEPT ![u] = "destroyed"]
  /\ UNCHANGED <<open, lent, busy>>

Call(u) ==
  /\ u \in open \cap lent
  /\ Reachable(u)
  /\ u \notin busy
  /\ busy' = busy \cup {u}
  /\ UNCHANGED <<open, lent, inside, handle>>

Answer(u) ==
  /\ u \in busy
  /\ busy' = busy \ {u}
  /\ UNCHANGED <<open, lent, inside, handle>>

TakeBack(u) ==
  /\ u \in lent \ busy
  /\ ~Reachable(u)
  /\ lent' = lent \ {u}
  /\ UNCHANGED <<open, inside, busy, handle>>

Close(u) ==
  /\ u \in open \ busy
  /\ ~Reachable(u)
  /\ open' = open \ {u}
  /\ UNCHANGED <<lent, inside, busy, handle>>

Next ==
  \E u \in Users :
    \/ Open(u) \/ Lend(u) \/ BeginInit(u) \/ BeginDestroy(u) \/ Return(u)
    \/ Call(u) \/ Answer(u) \/ TakeBack(u) \/ Close(u)

Spec == Init /\ [][Next]_vars
=============================================================================
