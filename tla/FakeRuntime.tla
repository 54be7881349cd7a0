---------------------------- MODULE FakeRuntime -----------------------------
(***************************************************************************)
(* The stand-in for librkllmrt (crates/rkllm/src/fake_runtime.rs): an      *)
(* RkllmApi that keeps what it was told and walks every entry of a batch   *)
(* through the same chunks.  Each action is one call of the API, except    *)
(* rkllm_run, which starts, calls back once per step and returns when step *)
(* is Unset again.                                                         *)
(***************************************************************************)
EXTENDS Outputs

CONSTANT Beyond  \* what is read past the end of a buffer

VARIABLES
  fake,  \* the FakeState behind the handle, Unset when there is none
  step   \* of rkllm_run: the chunk to come, LastStep the final callback

At(buffer, i) == IF i \in DOMAIN buffer THEN buffer[i] ELSE Beyond

CHUNKS == <<"Hello", ", ", "world">>
Words == {CHUNKS[i] : i \in DOMAIN CHUNKS}
LastStep == Len(CHUNKS)

NoState ==
  [n_batch |-> 0, tokenizer |-> FALSE, embed |-> FALSE, tokenized |-> Unset,
   embedded |-> Unset, seen |-> <<>>, cleared |-> Unset, cleared_keep |-> 0]

\* What a callback may point at: a text, an id and what lies beside them.
RKLLMResult ==
  [text : Words \cup {Unset}, token_id : Int,
   last_hidden_layer :
     [hidden_states : {Unset, "buffer"}, embd_size : Int, num_tokens : Int],
   logits : [logits : {Unset, "buffer"}, vocab_size : Int, num_tokens : Int],
   perf : [generate_tokens : Int]]

EmptyResult ==
  [text |-> Unset, token_id |-> 0,
   last_hidden_layer |-> [hidden_states |-> Unset, embd_size |-> 0, num_tokens |-> 0],
   logits |-> [logits |-> Unset, vocab_size |-> 0, num_tokens |-> 0],
   perf |-> [generate_tokens |-> 0]]

CreateDefaultParam ==
  [f \in RawFields |-> IF f = "model_path" THEN Unset ELSE 0]

FakeInit(raw, tokenizer, embed) ==
  /\ fake = Unset
  /\ fake' = [NoState EXCEPT !.n_batch = IF raw.n_batch = 0 THEN 1 ELSE raw.n_batch,
                             !.tokenizer = tokenizer,
                             !.embed = embed]
  /\ UNCHANGED step

-----------------------------------------------------------------------------
(***************************************************************************)
(* read_input: the role, and the payloads the tag of which it knows.       *)
(***************************************************************************)
Unread ==
  [role |-> Unset, input_type |-> 0, prompt |-> "", embed |-> <<>>, n_image |-> 0,
   n_image_tokens |-> 0, tags |-> <<"", "", "">>, size |-> <<0, 0>>,
   video_zeroed |-> TRUE]

ReadInput(raw) ==
  LET seen == [Unread EXCEPT !.role = raw.role, !.input_type = raw.input_type]
  IN  CASE raw.input_type = RKLLMInputType.RKLLM_INPUT_PROMPT ->
             [seen EXCEPT !.prompt = raw.payload.prompt_input]
        [] raw.input_type = RKLLMInputType.RKLLM_INPUT_MULTIMODAL ->
             LET image == raw.payload.image
             IN  [seen EXCEPT
                    !.prompt = raw.payload.prompt,
                    !.n_image = image.n_image,
                    !.n_image_tokens = image.n_image_tokens,
                    !.embed = [i \in 1..(image.n_image * image.n_image_tokens) |->
                                 At(image.image_embed, i)],
                    !.tags = <<image.image_start, image.image_end,
                               image.image_content>>,
                    !.size = <<image.image_width, image.image_height>>,
                    !.video_zeroed = (raw.payload.video = NoVideo)]
        [] OTHER -> seen

(***************************************************************************)
(* rkllm_run: read one input per entry, call the hooks that were           *)
(* registered, whose answers to TEXT and TOKENS the caller supplies, then  *)
(* the result callback once per chunk.                                     *)
(***************************************************************************)
TEXT == "hello"
TOKENS == <<11, 22, 33>>
TokenRoom == 8
EmbedRoom == 6

RunStarts(raw_inputs, tokenized, embedded) ==
  /\ fake # Unset /\ step = Unset
  /\ fake' = [fake EXCEPT
       !.seen = [i \in 1..fake.n_batch |-> ReadInput(At(raw_inputs, i))],
       !.tokenized = IF fake.tokenizer THEN tokenized ELSE @,
       !.embedded = IF fake.embed THEN embedded ELSE @]
  /\ step' = 0

\* The result of entry b at a step: later entries stop sooner.
EntryResult(b, k) ==
  IF k + b < Len(CHUNKS)
  THEN [EmptyResult EXCEPT !.text = CHUNKS[k + 1], !.token_id = k + 1]
  ELSE [EmptyResult EXCEPT !.token_id = -(b + 1)]

Results(k) ==
  IF k = LastStep
  THEN <<[EmptyResult EXCEPT !.perf.generate_tokens = Len(CHUNKS)]>>
  ELSE [i \in 1..fake.n_batch |-> EntryResult(i - 1, k)]

RunState(k) == IF k = LastStep THEN 2 ELSE 0

CallbackAnswers(code) ==
  /\ step # Unset
  /\ step' = IF step = LastStep \/ code = Control.Pause THEN Unset ELSE step + 1
  /\ UNCHANGED fake

-----------------------------------------------------------------------------
\* rkllm_clear_kv_cache: one entry per batch from each array.
ClearKvCache(keep, start, end) ==
  /\ fake # Unset
  /\ fake' = [fake EXCEPT
       !.cleared_keep = keep,
       !.cleared = IF start = Unset \/ end = Unset THEN Unset
                   ELSE [i \in 1..fake.n_batch |-> <<At(start, i), At(end, i)>>]]
  /\ UNCHANGED step

\* rkllm_get_kv_cache_size: one entry per batch written over what was there.
KvCacheSizes(sizes) ==
  [i \in 1..fake.n_batch |-> IF i \in DOMAIN sizes THEN 6 + i ELSE Beyond]

Destroy == fake # Unset /\ fake' = Unset /\ UNCHANGED step
=============================================================================
