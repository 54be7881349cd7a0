---------------------------- MODULE MCChunkStream ---------------------------
(***************************************************************************)
(* Instances of ChunkStream for TLC: one or two streams beside one caller. *)
(***************************************************************************)
EXTENDS ChunkStream, TLC

CONSTANTS c1, s1, s2

OneStream == {s1}
TwoStreams == {s1, s2}
OneCaller == {c1}
CallerAndStream == {c1, s1}
CallerAndStreams == {c1, s1, s2}
OneOp == {"kv_cache_size"}
NormalAndFinal == {0, 2}
NormalOnly == {0}
Symmetry == Permutations(TwoStreams)

(***************************************************************************)
(* Callers that only spawn streams, abort runs and leave.                  *)
(***************************************************************************)
QuietNext == StreamNext /\ \A c \in Callers : pc'[c] \in {"idle", "gone"}
QuietSpec == StreamInit /\ [][QuietNext]_<<sessionVars, streamVars>>
=============================================================================
