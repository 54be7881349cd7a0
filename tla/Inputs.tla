------------------------------- MODULE Inputs -------------------------------
(***************************************************************************)
(* What is fed into a run (crates/rkllm/src/input.rs): the payloads of an  *)
(* Input, the images that may be attached, and the C struct that points    *)
(* into them.  A buffer of floats or of token ids is a sequence; a usize   *)
(* holds 0..UsizeMax.                                                      *)
(***************************************************************************)
EXTENDS Params, Sequences

CONSTANT UsizeMax  \* the largest length

ASSUME UsizeMaxAssumption == UsizeMax \in Nat \ {0}

CheckedMul(a, b) == IF a * b > UsizeMax THEN Failed ELSE a * b

-----------------------------------------------------------------------------
(***************************************************************************)
(* ImageInput: embeddings for n_image images of n_image_tokens tokens,     *)
(* with tags and a size.  The product of the two counts must be a length,  *)
(* must not be zero and must divide the buffer.                            *)
(***************************************************************************)
\* Mutant: the product of the two counts wraps around.
PerImage_Wrapping(n_image, n_image_tokens) ==
  (n_image * n_image_tokens) % (UsizeMax + 1)
PerImage(n_image, n_image_tokens) ==
  IF CheckedMul(n_image, n_image_tokens) = Failed THEN 0
  ELSE n_image * n_image_tokens

NewImage(embed, n_image, n_image_tokens) ==
  LET per == PerImage(n_image, n_image_tokens)
  IN  IF per = 0 THEN Failed
      ELSE IF Len(embed) % per # 0 THEN Failed
      ELSE [embed |-> embed, n_image |-> n_image,
            n_image_tokens |-> n_image_tokens,
            start |-> "", end |-> "", content |-> "", width |-> 0, height |-> 0]

Tags(image, start, end, content) ==
  IF {start, end, content} \cap Broken # {} THEN Failed
  ELSE [image EXCEPT !.start = start, !.end = end, !.content = content]

Size(image, width, height) == [image EXCEPT !.width = width, !.height = height]

EmbedDim(image) ==
  Len(image.embed) \div ((image.n_image * image.n_image_tokens) % (UsizeMax + 1))

-----------------------------------------------------------------------------
(***************************************************************************)
(* Input: a payload, with no role and no thinking mode unless set.         *)
(***************************************************************************)
WithPayload(payload) ==
  [role |-> Unset, enable_thinking |-> FALSE, payload |-> payload]

Prompt(prompt) ==
  IF prompt \in Broken THEN Failed
  ELSE WithPayload([kind |-> "Prompt", prompt |-> prompt])
Tokens(tokens) == WithPayload([kind |-> "Tokens", tokens |-> tokens])
Embeddings(values, n_tokens) ==
  WithPayload([kind |-> "Embed", values |-> values, n_tokens |-> n_tokens])
Multimodal(prompt, image) ==
  IF prompt \in Broken \/ image = Failed THEN Failed
  ELSE WithPayload([kind |-> "Multimodal", prompt |-> prompt, image |-> image])

Role(input, role) ==
  IF role \in Broken THEN Failed ELSE [input EXCEPT !.role = role]
EnableThinking(input, enabled) == [input EXCEPT !.enable_thinking = enabled]

-----------------------------------------------------------------------------
(***************************************************************************)
(* as_raw: the tag and the union member of the payload, and a null role    *)
(* where none was set.  The video half of a multimodal input is zeroed.    *)
(***************************************************************************)
RKLLMInputType ==
  [RKLLM_INPUT_PROMPT |-> 0, RKLLM_INPUT_TOKEN |-> 1, RKLLM_INPUT_EMBED |-> 2,
   RKLLM_INPUT_MULTIMODAL |-> 3]

InputType == [kind \in {"Prompt", "Tokens", "Embed", "Multimodal"} |->
  CASE kind = "Prompt" -> RKLLMInputType.RKLLM_INPUT_PROMPT
    [] kind = "Tokens" -> RKLLMInputType.RKLLM_INPUT_TOKEN
    [] kind = "Embed" -> RKLLMInputType.RKLLM_INPUT_EMBED
    [] kind = "Multimodal" -> RKLLMInputType.RKLLM_INPUT_MULTIMODAL]

NoVideo ==
  [video_embed |-> Unset, n_frame_tokens |-> 0, n_frame_per_video |-> 0,
   n_video |-> 0, video_start |-> Unset, video_end |-> Unset,
   video_content |-> Unset, frame_width |-> 0, frame_height |-> 0]

\* Mutant: the two counts change places.
RawImage_Swapped(image) ==
  [image_embed |-> image.embed, n_image_tokens |-> image.n_image,
   n_image |-> image.n_image_tokens, image_start |-> image.start,
   image_end |-> image.end, image_content |-> image.content,
   image_width |-> image.width, image_height |-> image.height]
RawImage(image) ==
  [image_embed |-> image.embed, n_image_tokens |-> image.n_image_tokens,
   n_image |-> image.n_image, image_start |-> image.start,
   image_end |-> image.end, image_content |-> image.content,
   image_width |-> image.width, image_height |-> image.height]

RawPayload(payload) ==
  CASE payload.kind = "Prompt" -> [prompt_input |-> payload.prompt]
    [] payload.kind = "Tokens" ->
         [input_ids |-> payload.tokens, n_tokens |-> Len(payload.tokens)]
    [] payload.kind = "Embed" ->
         [embed |-> payload.values, n_tokens |-> payload.n_tokens]
    [] payload.kind = "Multimodal" ->
         [prompt |-> payload.prompt, image |-> RawImage(payload.image),
          video |-> NoVideo]

AsRaw(input) ==
  [role |-> input.role, enable_thinking |-> input.enable_thinking,
   input_type |-> InputType[input.payload.kind],
   payload |-> RawPayload(input.payload)]
=============================================================================
