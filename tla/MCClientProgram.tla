-------------------------- MODULE MCClientProgram ---------------------------
(***************************************************************************)
(* Instances of ClientProgram for TLC.                                     *)
(***************************************************************************)
EXTENDS ClientProgram

CONSTANTS p1, p2

Symmetry == Permutations({p1, p2})

SomePaths == {"model", "broken"}
BrokenTexts == {"broken"}

\* The stand-in's zeros, and a library that sets everything.
OtherDefault == [f \in RawFields |-> IF f = "n_batch" THEN 2 ELSE 9]
SomeDefaults == {CreateDefaultParam, OtherDefault}

SomeParamChoices ==
  {<<"n_batch", 0>>, <<"n_batch", 1>>, <<"n_batch", 2>>, <<"top_k", 1>>,
   <<"top_k", 2>>, <<"enabled_cpus", <<4, 240>>>>, <<"embed_flash", FALSE>>}
SomeInferChoices ==
  {<<"mode", "LastHiddenLayer">>, <<"mode", "Logits">>, <<"keep_history", FALSE>>,
   <<"max_new_tokens", 5>>, <<"lora_adapter", "lora">>, <<"lora_adapter", "broken">>,
   <<"prompt_cache", <<"cache", FALSE>>>>, <<"prompt_cache", <<"cache", TRUE>>>>,
   <<"sampling", "greedy">>}

JustNew == {NewInfer}
NewAndDefault == {NewInfer, DefaultInfer}

Buffer(n) == [i \in 1..n |-> i]
Tagged(image) ==
  IF image = Failed THEN Failed
  ELSE Size(Tags(image, "<start>", "<end>", "<pad>"), 392, 392)

PlainPrompts == {Prompt(p1), Prompt(p2)}
SomeInputs ==
  {Role(Prompt("hi"), "user"), EnableThinking(Prompt("hi"), TRUE),
   Prompt("broken"), Tokens(<<5, 6>>), Embeddings(Buffer(4), 2),
   Multimodal("describe", Tagged(NewImage(Buffer(6), 2, 3))),
   Multimodal("describe", NewImage(Buffer(12), 2, 3)),
   Multimodal("describe", NewImage(<<>>, 1, 2)),
   Multimodal("describe", NewImage(Buffer(7), 2, 3)),
   Multimodal("describe", NewImage(Buffer(4), 0, 4)),
   Multimodal("describe", NewImage(Buffer(17), 23, 23))}

SomeEncodings == {<<1, 2, 3>>, <<1, 2, 3, 4, 5, 6, 7, 8, 9>>, <<1, 200>>, Unset}
SomeFiles == {<<272, 2>>, <<184, 2>>, <<408, 3>>, <<273, 2>>, <<272, 0>>}
SomeLayers == {<<2, 3>>, <<23, 23>>, <<-1, 2>>, <<2, -1>>, <<0, 2>>, <<-2, -3>>}
SomeRanges == {<<<<1, 2>>>>, <<<<1, 2>>, <<3, 4>>>>}
=============================================================================
