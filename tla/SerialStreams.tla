--------------------------- MODULE SerialStreams ----------------------------
(***************************************************************************)
(* What the streams of one session promise their consumers, with no task,  *)
(* no channel, no lock and no waker in sight: runs are served one after    *)
(* another; a consumer gets the chunks of its own run in the order they    *)
(* were made, and the run is at most Capacity chunks ahead of it; a stream *)
(* that is closed gives out what was made before, one that is dropped      *)
(* nothing more, and either stops its run at the next chunk; and the end   *)
(* of a stream is the verdict on its run, once, after its last chunk.      *)
(***************************************************************************)
EXTENDS Integers, Sequences

CONSTANTS
  Streams,
  Capacity  \* how many chunks a run may be ahead of its consumer

VARIABLES
  phase,     \* the stream: "none", "open", "closed" or "dropped"
  run,       \* its run: "none", "waiting", "served", "over", or the verdict
  made,      \* how many chunks the run made for it
  refused,   \* how many it made for nobody
  received,  \* the chunks the consumer got
  ended      \* the ends it got after them

vars == <<phase, run, made, refused, received, ended>>

Verdicts == {"Ok", "Err"}

Init ==
  /\ phase = [s \in Streams |-> "none"]
  /\ run = [s \in Streams |-> "none"]
  /\ made = [s \in Streams |-> 0]
  /\ refused = [s \in Streams |-> 0]
  /\ received = [s \in Streams |-> <<>>]
  /\ ended = [s \in Streams |-> <<>>]

Becomes(s, from, to) == run[s] \in from /\ run' = [run EXCEPT ![s] = to]

(***************************************************************************)
(* The run of a stream.                                                    *)
(***************************************************************************)
Open(s) ==
  /\ phase[s] = "none"
  /\ phase' = [phase EXCEPT ![s] = "open"]
  /\ Becomes(s, {"none"}, "waiting")
  /\ UNCHANGED <<made, refused, received, ended>>

Serve(s) ==
  /\ \A other \in Streams : run[other] # "served"
  /\ Becomes(s, {"waiting"}, "served")
  /\ UNCHANGED <<phase, made, refused, received, ended>>

Make(s) ==
  /\ run[s] = "served"
  /\ phase[s] = "open"
  /\ made[s] < Len(received[s]) + Capacity
  /\ made' = [made EXCEPT ![s] = @ + 1]
  /\ UNCHANGED <<phase, run, refused, received, ended>>

Refuse(s) ==
  /\ run[s] = "served"
  /\ phase[s] \in {"closed", "dropped"}
  /\ refused[s] = 0
  /\ refused' = [refused EXCEPT ![s] = 1]
  /\ UNCHANGED <<phase, run, made, received, ended>>

RunEnds(s) ==
  /\ Becomes(s, {"waiting", "served"}, "over")
  /\ UNCHANGED <<phase, made, refused, received, ended>>

Judge(s) ==
  /\ \/ \E verdict \in Verdicts : Becomes(s, {"over"}, verdict)
     \/ Becomes(s, {"waiting"}, "Err")
  /\ UNCHANGED <<phase, made, refused, received, ended>>

(***************************************************************************)
(* Its consumer.                                                           *)
(***************************************************************************)
Receive(s) ==
  /\ phase[s] \in {"open", "closed"}
  /\ Len(received[s]) < made[s]
  /\ received' = [received EXCEPT ![s] = Append(@, Len(@) + 1)]
  /\ UNCHANGED <<phase, run, made, refused, ended>>

End(s) ==
  /\ phase[s] \in {"open", "closed"}
  /\ Len(received[s]) = made[s]
  /\ run[s] \in Verdicts
  /\ \/ ended[s] = <<>> /\ run[s] = "Ok" /\ ended' = [ended EXCEPT ![s] = <<"None">>]
     \/ ended[s] = <<>> /\ run[s] = "Err" /\ ended' = [ended EXCEPT ![s] = <<"Err">>]
     \/ ended[s] = <<"Err">> /\ ended' = [ended EXCEPT ![s] = <<"Err", "None">>]
  /\ UNCHANGED <<phase, run, made, refused, received>>

Close(s) ==
  /\ phase[s] = "open"
  /\ phase' = [phase EXCEPT ![s] = "closed"]
  /\ UNCHANGED <<run, made, refused, received, ended>>

Drop(s) ==
  /\ phase[s] \in {"open", "closed"}
  /\ phase' = [phase EXCEPT ![s] = "dropped"]
  /\ UNCHANGED <<run, made, refused, received, ended>>

Next ==
  \E s \in Streams :
    \/ Open(s) \/ Serve(s) \/ Make(s) \/ Refuse(s) \/ RunEnds(s) \/ Judge(s)
    \/ Receive(s) \/ End(s) \/ Close(s) \/ Drop(s)

Spec == Init /\ [][Next]_vars
=============================================================================
