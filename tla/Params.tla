------------------------------- MODULE Params -------------------------------
(***************************************************************************)
(* Configuration of a session and of a run (crates/rkllm/src/param.rs,     *)
(* infer.rs): what the builders keep and what the C structs made from them *)
(* say.  A text is a model value; Broken are the texts with a NUL inside,  *)
(* which no CString can hold.                                              *)
(***************************************************************************)
EXTENDS Integers

CONSTANTS
  Unset,    \* None, a null pointer
  Failed,   \* the Err of a builder method
  Broken    \* the texts CString::new refuses

ASSUME ParamsAssumption == Unset \notin Broken /\ Failed \notin Broken
\* None and Err are no numbers.
ASSUME UnsetAssumption == Unset \notin Int /\ Failed \notin Int

-----------------------------------------------------------------------------
(***************************************************************************)
(* Param: a path and the settings that were made.  enabled_cpus is a count *)
(* and a mask; n_batch refuses zero.                                       *)
(***************************************************************************)
Settings ==
  {"max_context_len", "max_new_tokens", "n_keep", "top_k", "top_p",
   "temperature", "repeat_penalty", "frequency_penalty", "presence_penalty",
   "mirostat", "mirostat_tau", "mirostat_eta", "skip_special_token",
   "ignore_eos_token", "enabled_cpus", "n_batch", "embed_flash",
   "use_cross_attn"}

NewParam(path) ==
  IF path \in Broken THEN Failed
  ELSE [f \in Settings \cup {"model_path"} |->
          IF f = "model_path" THEN path ELSE Unset]

\* Mutant: a batch of none is accepted.
SetParam_Zero(param, f, v) == [param EXCEPT ![f] = v]
SetParam(param, f, v) ==
  IF f = "n_batch" /\ v = 0 THEN Failed ELSE [param EXCEPT ![f] = v]

(***************************************************************************)
(* apply_to: the settings laid over what rkllm_createDefaultParam returned.*)
(***************************************************************************)
Flag(b) == IF b THEN 1 ELSE 0

PlainFields ==
  Settings \ {"enabled_cpus", "embed_flash", "use_cross_attn"}
RawFields ==
  PlainFields \cup {"model_path", "enabled_cpus_num", "enabled_cpus_mask",
                    "embed_flash", "use_cross_attn"}

\* Mutant: what the caller left alone is reset.
ApplyTo_Reset(param, raw) ==
  [f \in RawFields |->
     CASE f = "model_path" -> param.model_path
       [] f \in PlainFields -> IF param[f] = Unset THEN 0 ELSE param[f]
       [] OTHER -> raw[f]]
ApplyTo(param, raw) ==
  [f \in RawFields |->
     CASE f = "model_path" -> param.model_path
       [] f \in PlainFields -> IF param[f] = Unset THEN raw[f] ELSE param[f]
       [] f \in {"embed_flash", "use_cross_attn"} ->
            IF param[f] = Unset THEN raw[f] ELSE Flag(param[f])
       [] f = "enabled_cpus_num" ->
            IF param.enabled_cpus = Unset THEN raw[f] ELSE param.enabled_cpus[1]
       [] OTHER ->
            IF param.enabled_cpus = Unset THEN raw[f] ELSE param.enabled_cpus[2]]

-----------------------------------------------------------------------------
(***************************************************************************)
(* InferParams: the derived Default, and new, which keeps the history.     *)
(***************************************************************************)
Modes == {"Generate", "LastHiddenLayer", "Logits"}

DefaultInfer ==
  [mode |-> "Generate", keep_history |-> FALSE, max_new_tokens |-> Unset,
   lora_adapter |-> Unset, prompt_cache |-> Unset, sampling |-> Unset]
NewInfer == [DefaultInfer EXCEPT !.keep_history = TRUE]

SetMode(infer, mode) == [infer EXCEPT !.mode = mode]
\* Mutant: the history is kept whatever is asked.
SetKeepHistory_Dropped(infer, keep) == [infer EXCEPT !.keep_history = TRUE]
SetKeepHistory(infer, keep) == [infer EXCEPT !.keep_history = keep]
SetMaxNewTokens(infer, n) == [infer EXCEPT !.max_new_tokens = n]
SetLora(infer, name) ==
  IF name \in Broken THEN Failed ELSE [infer EXCEPT !.lora_adapter = name]
SetCache(infer, path, save) ==
  IF path \in Broken THEN Failed
  ELSE [infer EXCEPT !.prompt_cache = [path |-> path, save |-> save]]
SetSampling(infer, sampling) == [infer EXCEPT !.sampling = sampling]

(***************************************************************************)
(* scratch and Scratch::as_raw: the mode's code, sub-structs behind        *)
(* pointers that are null where nothing was set, and flags as integers.    *)
(***************************************************************************)
RKLLMInferMode ==
  [RKLLM_INFER_GENERATE |-> 0, RKLLM_INFER_GET_LAST_HIDDEN_LAYER |-> 1,
   RKLLM_INFER_GET_LOGITS |-> 2]

\* Mutant: the two modes that do not generate change places.
ModeCode_Swapped == [m \in Modes |->
  CASE m = "Generate" -> RKLLMInferMode.RKLLM_INFER_GENERATE
    [] m = "LastHiddenLayer" -> RKLLMInferMode.RKLLM_INFER_GET_LOGITS
    [] m = "Logits" -> RKLLMInferMode.RKLLM_INFER_GET_LAST_HIDDEN_LAYER]
ModeCode == [m \in Modes |->
  CASE m = "Generate" -> RKLLMInferMode.RKLLM_INFER_GENERATE
    [] m = "LastHiddenLayer" -> RKLLMInferMode.RKLLM_INFER_GET_LAST_HIDDEN_LAYER
    [] m = "Logits" -> RKLLMInferMode.RKLLM_INFER_GET_LOGITS]

RawCache(cache) ==
  IF cache = Unset THEN Unset
  ELSE [prompt_cache_path |-> cache.path, save_prompt_cache |-> Flag(cache.save)]

RawInfer(infer) ==
  [mode |-> ModeCode[infer.mode],
   lora_params |-> infer.lora_adapter,
   prompt_cache_params |-> RawCache(infer.prompt_cache),
   sampling_params |-> infer.sampling,
   keep_history |-> Flag(infer.keep_history),
   max_new_tokens |-> IF infer.max_new_tokens = Unset THEN 0
                                                     ELSE infer.max_new_tokens]
=============================================================================
