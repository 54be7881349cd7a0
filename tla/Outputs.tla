------------------------------ MODULE Outputs -------------------------------
(***************************************************************************)
(* What the runtime hands back (crates/rkllm/src/output.rs): the states of *)
(* a callback, the Output that borrows one RKLLMResult, and the Chunk that *)
(* copies it.  A buffer of the runtime is the number of floats it holds;   *)
(* the lengths beside it are signed.                                       *)
(***************************************************************************)
EXTENDS Inputs

CONSTANT Garbled  \* texts that are not UTF-8

-----------------------------------------------------------------------------
CallStateOf(raw) ==
  CASE raw = 0 -> "Normal" [] raw = 1 -> "Waiting"
    [] raw = 2 -> "Finish" [] raw = 3 -> "Error" [] OTHER -> "Unknown"

IsFinalState(state) == state \in {"Finish", "Error"}

Control == [Continue |-> 0, Pause |-> 1, ReleaseBuffer |-> 2]

PerfStat(raw) == [generate_tokens |-> raw.generate_tokens]

-----------------------------------------------------------------------------
(***************************************************************************)
(* checked_len: both lengths positive and their product a length.          *)
(***************************************************************************)
\* Mutant: the product wraps around.
CheckedLen_Wrapping(num_tokens, width) ==
  IF num_tokens < 0 \/ width < 0 THEN Unset
  ELSE (num_tokens * width) % (UsizeMax + 1)
CheckedLen(num_tokens, width) ==
  IF num_tokens < 0 \/ width < 0 THEN Unset
  ELSE IF CheckedMul(num_tokens, width) \in {Failed, 0} THEN Unset
  ELSE num_tokens * width

(***************************************************************************)
(* Output: everything is None without a result.  A slice is the number of  *)
(* floats the closure may read.                                            *)
(***************************************************************************)
NewOutput(state, result) == [state |-> state, result |-> result]

TextBytes(output) ==
  IF output.result = Unset THEN Unset ELSE output.result.text

Text(output) == IF TextBytes(output) \in Garbled THEN Unset ELSE TextBytes(output)

TokenId(output) ==
  IF output.result = Unset THEN Unset ELSE output.result.token_id

HiddenStates(output) ==
  IF output.result = Unset THEN Unset
  ELSE LET layer == output.result.last_hidden_layer
       IN  IF layer.hidden_states = Unset THEN Unset
           ELSE CheckedLen(layer.num_tokens, layer.embd_size)

Logits(output) ==
  IF output.result = Unset THEN Unset
  ELSE LET logits == output.result.logits
       IN  IF logits.logits = Unset THEN Unset
           ELSE CheckedLen(logits.num_tokens, logits.vocab_size)

IsFinished(output) ==
  IF TokenId(output) = Unset THEN FALSE ELSE TokenId(output) < 0

Perf(output) ==
  IF output.result = Unset THEN Unset ELSE PerfStat(output.result.perf)

ToChunk(output) ==
  [state |-> output.state, text |-> Text(output),
   token_id |-> TokenId(output), perf |-> Perf(output)]

ChunkText(chunk) == IF chunk.text = Unset THEN "" ELSE chunk.text
=============================================================================
