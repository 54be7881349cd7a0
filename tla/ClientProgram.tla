--------------------------- MODULE ClientProgram ----------------------------
(***************************************************************************)
(* A program that uses the crate as its examples do, from the first        *)
(* builder call to the last callback, against the stand-in for the library *)
(* (crates/rkllm/src/{param,infer,input,session,output}.rs,                *)
(* crates/rkllm/examples, examples/external-hooks).                        *)
(*                                                                         *)
(* One thread configures a session, opens it, builds inputs and runs them; *)
(* what crosses the boundary in both directions is data, and the question  *)
(* is whether each side gets what the other one meant.  A real library may *)
(* differ from the stand-in in three ways, chosen freely here: its default *)
(* parameters, a run that fails with a null result, and the hidden states  *)
(* or logits it lends to a callback.                                       *)
(***************************************************************************)
EXTENDS FakeRuntime, SequencesExt

CONSTANTS
  Paths,          \* paths of models
  Defaults,       \* what rkllm_createDefaultParam may return
  ParamChoices,   \* <<setting, value>> pairs the program may make
  InferChoices,   \* the same for a run
  InferStarts,    \* the InferParams it starts from
  PlainInputs,    \* inputs the program may build
  OtherInputs,    \* inputs that count as a choice
  Encodings,      \* what its tokenizer makes of the text, Unset for an error
  EmbeddingFiles, \* <<bytes, hidden size>> of its embedding table
  Layers,         \* <<num_tokens, width>> the library may report
  Ranges,         \* arguments of clear_kv_cache_ranges
  I32Max,         \* the largest token id
  MaxChoices,     \* bound: choices a program makes
  MaxInputs,      \* bound: inputs a program builds
  MaxCalls        \* bound: calls of the session

\* An RKLLMParam: a path or a null pointer, and numbers.
RawParams == [RawFields -> Int \cup Paths \cup {Unset}]

\* What rkllm_createDefaultParam fills in and the setters take.
ASSUME SettingsAssumption ==
  /\ \A d \in Defaults :
       /\ d = [f \in RawFields |-> d[f]] /\ d.n_batch \in Nat
       /\ \A f \in RawFields : d[f] \in Int \/ d[f] \in Paths \cup {Unset}
  /\ \A c \in ParamChoices :
       /\ c[1] \in Settings /\ c[2] # Unset
       /\ c[1] \in PlainFields => c[2] \in Int
       /\ c[1] = "n_batch" => c[2] \in Nat
       /\ c[1] = "enabled_cpus" => c[2] \in Int \X Int

\* A file is as long as a Vec may be; ids, lengths and positions are integers.
ASSUME DataAssumption ==
  /\ EmbeddingFiles \subseteq (0..UsizeMax) \X Nat
  /\ \A ids \in Encodings : ids = Unset \/ ids \in Seq(Nat)
  /\ Unset \notin Seq(Int)
  /\ Layers \subseteq Int \X Int
  /\ Ranges \subseteq Seq(Int \X Int)

\* The bounds are numbers, and the stand-in's ids fit an i32.
ASSUME BoundsAssumption ==
  {MaxChoices, MaxInputs, MaxCalls, I32Max} \subseteq Nat /\ LastStep <= I32Max

\* What the builders of a run take, none of it None.
ASSUME InferAssumption ==
  /\ InferStarts \subseteq {DefaultInfer, NewInfer} \ {Failed}
  /\ \A c \in InferChoices :
       /\ c[1] \in DOMAIN DefaultInfer /\ c[2] # Unset
       /\ c[1] = "mode" => c[2] \in Modes
       /\ c[1] = "keep_history" => c[2] \in BOOLEAN
       /\ c[1] = "prompt_cache" =>
            c[2][2] \in BOOLEAN /\ [path |-> c[2][1], save |-> c[2][2]] # Unset

\* A null pointer is no struct, and the stand-in's chunks are UTF-8.
ASSUME ResultsAssumption ==
  /\ Unset \notin RKLLMResult /\ Unset \notin Seq(RKLLMResult)
  /\ Unset \notin Words /\ Garbled \cap Words = {}

GoodInputs == (PlainInputs \cup OtherInputs) \ {Failed}

\* An image of an input was accepted by ImageInput::new (the fields of
\* ImageInput are private, and it has no other constructor).
ASSUME InputsAssumption ==
  \A input \in GoodInputs :
    /\ input.payload.kind \in DOMAIN InputType
    /\ input.payload.kind = "Multimodal" =>
         LET image == input.payload.image
         IN  /\ image.embed \in Seq(Int)
             /\ image.n_image \in Nat /\ image.n_image_tokens \in Nat
             /\ NewImage(image.embed, image.n_image, image.n_image_tokens) # Failed

VARIABLES
  pc,        \* "configuring", "open", "running" or "failed"
  param,     \* the Param
  infer,     \* the InferParams
  inputs,    \* the inputs, built one by one
  hooks,     \* the hooks: an encoding and an embedding table, or Unset
  n_batch,   \* what the session read back
  call,      \* the run in flight or the last one
  result,    \* what the last call returned
  heard,     \* what the closure of that run has collected
  layer,     \* what the library reports beside the text in that run
  started,   \* history: the path and the InferParams it began with
  rawParam,  \* history: the defaults and what rkllm_init was given
  rawInfer,  \* history: what rkllm_run was given
  asked,     \* history: the settings made, in order
  said,      \* history: the callbacks of that run
  choices,   \* how many choices were made
  calls      \* how many calls of the session

setupVars == <<param, infer, inputs, hooks, n_batch, started, rawParam, asked>>
runVars == <<call, heard, layer, rawInfer, said>>
fakeVars == <<fake, step>>
vars == <<pc, setupVars, runVars, result, choices, calls, fakeVars>>

NoHooks == [encoding |-> Unset, table |-> Unset]
Nothing(n) ==
  [answers |-> [e \in 1..n |-> <<>>], finished |-> [e \in 1..n |-> FALSE],
   perf |-> Unset, generated |-> <<>>, slices |-> {}]

Init ==
  /\ fake = Unset /\ step = Unset
  /\ \E p \in Paths, start \in InferStarts :
       /\ started = [model_path |-> p, infer |-> start]
       /\ param = NewParam(p)
       /\ infer = start
  /\ pc = IF param = Failed THEN "failed" ELSE "configuring"
  /\ inputs = <<>>
  /\ hooks = NoHooks
  /\ n_batch = 0
  /\ call = Unset /\ result = Unset
  /\ heard = Nothing(0)
  /\ layer = Unset
  /\ rawParam = Unset /\ rawInfer = Unset
  /\ asked = <<>>
  /\ said = <<>>
  /\ choices = 0 /\ calls = 0

Chooses == choices < MaxChoices /\ choices' = choices + 1

-----------------------------------------------------------------------------
(***************************************************************************)
(* Builder calls.  One that fails ends the program, as ? does.  Calls on   *)
(* different values commute: those on InferParams come before the inputs.  *)
(***************************************************************************)
ConfigureParam(f, v) ==
  /\ pc = "configuring"
  /\ Chooses
  /\ LET next == SetParam(param, f, v)
     IN  /\ pc' = IF next = Failed THEN "failed" ELSE pc
         /\ param' = IF next = Failed THEN param ELSE next
  /\ asked' = Append(asked, <<"param", f, v>>)
  /\ UNCHANGED <<infer, inputs, hooks, n_batch, started, rawParam, runVars, result,
                 calls, fakeVars>>

SetInfer(f, v) ==
  CASE f = "mode" -> SetMode(infer, v)
    [] f = "keep_history" -> SetKeepHistory(infer, v)
    [] f = "max_new_tokens" -> SetMaxNewTokens(infer, v)
    [] f = "lora_adapter" -> SetLora(infer, v)
    [] f = "prompt_cache" -> SetCache(infer, v[1], v[2])
    [] f = "sampling" -> SetSampling(infer, v)

ConfigureInfer(f, v) ==
  /\ pc = "open" /\ inputs = <<>>
  /\ Chooses
  /\ pc' = IF SetInfer(f, v) = Failed THEN "failed" ELSE pc
  /\ infer' = IF SetInfer(f, v) = Failed THEN infer ELSE SetInfer(f, v)
  /\ asked' = Append(asked, <<"infer", f, v>>)
  /\ UNCHANGED <<param, inputs, hooks, n_batch, started, rawParam, runVars, result,
                 calls, fakeVars>>

PushInput(input) ==
  /\ pc = "open"
  /\ Len(inputs) < MaxInputs
  /\ IF input \in PlainInputs THEN UNCHANGED choices ELSE Chooses
  /\ pc' = IF input = Failed THEN "failed" ELSE pc
  /\ inputs' = IF input = Failed THEN inputs ELSE Append(inputs, input)
  /\ UNCHANGED <<param, infer, hooks, n_batch, started, rawParam, asked, runVars,
                 result, calls, fakeVars>>

-----------------------------------------------------------------------------
(***************************************************************************)
(* The hooks of the examples: an embedding table loaded from a file of     *)
(* floats, and a tokenizer's encoding of the text.  A value of the table   *)
(* is its place in the file.                                               *)
(***************************************************************************)
LoadTable(bytes, width) ==
  IF width = 0 THEN Failed
  ELSE IF bytes % (4 * width) # 0 THEN Failed
  ELSE [values |-> bytes \div 4, width |-> width]

Row(table, token) ==
  IF token < 0 \/ CheckedMul(token, table.width) = Failed THEN Unset
  ELSE IF token * table.width + table.width > table.values THEN Unset
  ELSE [i \in 1..table.width |-> token * table.width + i]

\* Mutant: the width of the table is not compared with the one wanted.
WidthWanted_Unchecked(table, tokens, room) == table.width <= room
WidthWanted(table, tokens, room) ==
  tokens # <<>> /\ room = table.width * Len(tokens)

\* The slots filled until a token has no row, and whether every slot was.
Embed(table, tokens, room) ==
  IF ~WidthWanted(table, tokens, room)
  THEN [code |-> -1, out |-> [i \in 1..room |-> 0]]
  ELSE LET width == room \div Len(tokens)
           known(k) == \A j \in 1..k : Row(table, tokens[j]) # Unset
           slot(i) == ((i - 1) \div width) + 1
       IN  [code |-> IF known(Len(tokens)) THEN 0 ELSE -1,
            out |-> [i \in 1..room |->
                       IF known(slot(i))
                       THEN At(Row(table, tokens[slot(i)]), ((i - 1) % width) + 1)
                       ELSE 0]]
EmbedHook(tokens, room) == Embed(hooks.table, tokens, room)

\* Ids go into the buffer until one does not fit an i32.
Tokenize(encoding, room) ==
  IF encoding = Unset THEN [code |-> -1, out |-> [i \in 1..room |-> 0]]
  ELSE IF Len(encoding) > room THEN [code |-> -1, out |-> [i \in 1..room |-> 0]]
  ELSE LET fits(k) == \A j \in 1..k : encoding[j] <= I32Max
       IN  [code |-> IF fits(Len(encoding)) THEN Len(encoding) ELSE -1,
            out |-> [i \in 1..room |-> IF i <= Len(encoding) /\ fits(i)
                                       THEN encoding[i] ELSE 0]]
TokenizeHook(text, room) == Tokenize(hooks.encoding.ids, room)

(***************************************************************************)
(* RkllmSession::with_api, and SessionBuilder where there are hooks: the   *)
(* settings over the library's defaults, rkllm_init, and the batch size    *)
(* read back.                                                              *)
(***************************************************************************)
OpenSession(default, supplied) ==
  /\ pc = "configuring"
  /\ IF supplied = NoHooks THEN UNCHANGED choices ELSE Chooses
  /\ IF supplied.table = Failed
     THEN /\ pc' = "failed"
          /\ UNCHANGED <<hooks, n_batch, rawParam, fakeVars>>
     ELSE LET raw == ApplyTo(param, default)
          IN  /\ FakeInit(raw, supplied.encoding # Unset, supplied.table # Unset)
              /\ pc' = "open"
              /\ hooks' = supplied
              /\ rawParam' = [default |-> default, given |-> raw]
              /\ n_batch' = IF raw.n_batch = 0 THEN 1 ELSE raw.n_batch
  /\ UNCHANGED <<param, infer, inputs, started, asked, runVars, result, calls>>

-----------------------------------------------------------------------------
(***************************************************************************)
(* Calls.  run_llm and a stream take one input and need a batch of one,    *)
(* run_llm_batch takes them all and needs one per entry.                   *)
(***************************************************************************)
Runs == {"run_llm", "run_llm_async", "run_llm_batch"}
InputsOf(c) == IF c = "run_llm_batch" THEN inputs ELSE SubSeq(inputs, 1, 1)

Calls(outcome) ==
  /\ pc = "open"
  /\ calls < MaxCalls /\ calls' = calls + 1
  /\ result' = outcome
  /\ UNCHANGED <<setupVars, choices>>

RefuseRun(c) ==
  /\ inputs # <<>>
  /\ \/ c # "run_llm_batch" /\ n_batch # 1 /\ Calls("NotSingleBatch")
     \/ c = "run_llm_batch" /\ Len(inputs) # n_batch /\ Calls("BatchSizeMismatch")
  /\ UNCHANGED <<pc, runVars, fakeVars>>

StartRun(c) ==
  /\ inputs # <<>>
  /\ c # "run_llm_batch" => n_batch = 1
  /\ Len(InputsOf(c)) = n_batch
  /\ Calls(Unset)
  /\ pc' = "running"
  /\ call' = c
  /\ rawInfer' = RawInfer(infer)
  /\ RunStarts([i \in 1..Len(InputsOf(c)) |-> AsRaw(inputs[i])],
               TokenizeHook(TEXT, TokenRoom), EmbedHook(TOKENS, EmbedRoom))
  /\ layer' \in IF rawInfer'.mode = RKLLMInferMode.RKLLM_INFER_GENERATE
                THEN {Unset} ELSE Layers
  /\ heard' = Nothing(n_batch)
  /\ said' = <<>>

(***************************************************************************)
(* What the library hands to the trampoline (external where it is not the  *)
(* stand-in's): a buffer is there when its lengths make one.               *)
(***************************************************************************)
Floats(l) ==
  IF l[1] <= 0 \/ l[2] <= 0 \/ l[1] * l[2] > UsizeMax THEN 0 ELSE l[1] * l[2]

WithLayer(r) ==
  IF layer = Unset THEN r
  ELSE IF rawInfer.mode = RKLLMInferMode.RKLLM_INFER_GET_LAST_HIDDEN_LAYER
  THEN [r EXCEPT !.last_hidden_layer =
          [hidden_states |-> "buffer", embd_size |-> layer[2], num_tokens |-> layer[1]]]
  ELSE [r EXCEPT !.logits =
          [logits |-> "buffer", vocab_size |-> layer[2], num_tokens |-> layer[1]]]

(***************************************************************************)
(* The trampoline: one Output per entry, one in a final state, and one     *)
(* without a result when the library passed none.                          *)
(***************************************************************************)
\* Mutant: only the first entry of a batch is looked at.
Width_One(state) == 1
Width(state) == IF IsFinalState(state) THEN 1 ELSE n_batch

Trampoline(results, raw) ==
  LET state == CallStateOf(raw)
  IN  IF results = Unset THEN <<NewOutput(state, Unset)>>
      ELSE [i \in 1..Width(state) |-> NewOutput(state, At(results, i))]

(***************************************************************************)
(* The closures of the examples: batch.rs over every entry, chat.rs and    *)
(* tokenizer-hook.rs over the one output, stream.rs over its chunk.        *)
(***************************************************************************)
Say(text, answer) == IF text \in {Unset, ""} THEN answer ELSE Append(answer, text)

BatchClosure(h, outputs) ==
  [h EXCEPT
     !.answers = [e \in DOMAIN @ |-> IF e \in DOMAIN outputs
                                     THEN Say(Text(outputs[e]), @[e]) ELSE @[e]],
     !.finished = [e \in DOMAIN @ |->
                     @[e] \/ (e \in DOMAIN outputs /\ IsFinished(outputs[e]))],
     !.perf = IF Last(outputs).state = "Finish" THEN Perf(Last(outputs)) ELSE @]

IsGenerated(id) == IF id = Unset THEN FALSE ELSE id >= 0

ChatClosure(h, output) ==
  [h EXCEPT
     !.answers = <<Say(Text(output), @[1])>>,
     !.generated = IF IsGenerated(TokenId(output)) THEN Append(@, TokenId(output))
                                                   ELSE @,
     !.perf = IF output.state = "Finish" THEN Perf(output) ELSE @]

StreamConsumer(h, chunk) ==
  [h EXCEPT
     !.answers = <<Say(ChunkText(chunk), @[1])>>,
     !.perf = IF chunk.state = "Finish" THEN chunk.perf ELSE @]

Collect(outputs) ==
  LET h == CASE call = "run_llm_batch" -> BatchClosure(heard, outputs)
             [] call = "run_llm" -> ChatClosure(heard, outputs[1])
             [] call = "run_llm_async" -> StreamConsumer(heard, ToChunk(outputs[1]))
  IN  [h EXCEPT !.slices = @ \cup
         {HiddenStates(outputs[i]) : i \in DOMAIN outputs} \cup
         {Logits(outputs[i]) : i \in DOMAIN outputs}]

(***************************************************************************)
(* One callback of the stand-in, and the control the closure returns.      *)
(***************************************************************************)
CallsBack(code) ==
  /\ pc = "running"
  /\ LET results == [i \in DOMAIN Results(step) |-> WithLayer(Results(step)[i])]
     IN  /\ heard' = Collect(Trampoline(results, RunState(step)))
         /\ said' = Append(said, [raw |-> RunState(step), results |-> results])
  /\ CallbackAnswers(code)
  /\ pc' = IF step' = Unset THEN "open" ELSE pc
  /\ result' = IF step' = Unset THEN "Ok" ELSE result
  /\ UNCHANGED <<setupVars, call, layer, rawInfer, choices, calls>>

\* A library's run that fails: one callback more, without a result.
LibraryFails ==
  /\ pc = "running"
  /\ Chooses
  /\ heard' = Collect(Trampoline(Unset, 3))
  /\ said' = Append(said, [raw |-> 3, results |-> Unset])
  /\ step' = Unset
  /\ pc' = "open"
  /\ result' = "Status"
  /\ UNCHANGED <<setupVars, call, layer, rawInfer, calls, fake>>

-----------------------------------------------------------------------------
ClearRanges(ranges) ==
  /\ IF Len(ranges) # n_batch
     THEN Calls("BatchSizeMismatch") /\ UNCHANGED fakeVars
     ELSE Calls("Ok") /\ ClearKvCache(0, [i \in DOMAIN ranges |-> ranges[i][1]],
                                         [i \in DOMAIN ranges |-> ranges[i][2]])
  /\ UNCHANGED <<pc, runVars>>

ClearAll(keep) ==
  /\ Calls("Ok")
  /\ ClearKvCache(Flag(keep), Unset, Unset)
  /\ UNCHANGED <<pc, runVars>>

KvCacheSize ==
  /\ Calls(KvCacheSizes([i \in 1..n_batch |-> 0]))
  /\ UNCHANGED <<pc, runVars, fakeVars>>

DropSession ==
  /\ pc = "open"
  /\ Destroy
  /\ pc' = "closed"
  /\ UNCHANGED <<setupVars, runVars, result, choices, calls>>

Next ==
  \/ \E c \in ParamChoices : ConfigureParam(c[1], c[2])
  \/ \E c \in InferChoices : ConfigureInfer(c[1], c[2])
  \/ \E input \in PlainInputs \cup OtherInputs : PushInput(input)
  \/ \E default \in Defaults :
       \/ OpenSession(default, NoHooks)
       \/ \E ids \in Encodings :
            OpenSession(default, [NoHooks EXCEPT !.encoding = [ids |-> ids]])
       \/ \E file \in EmbeddingFiles :
            OpenSession(default, [NoHooks EXCEPT !.table = LoadTable(file[1], file[2])])
  \/ \E c \in Runs : RefuseRun(c) \/ StartRun(c)
  \/ \E name \in DOMAIN Control : CallsBack(Control[name])
  \/ LibraryFails
  \/ \E ranges \in Ranges : ClearRanges(ranges)
  \/ \E keep \in BOOLEAN : ClearAll(keep)
  \/ KvCacheSize
  \/ DropSession

Spec == Init /\ [][Next]_vars

-----------------------------------------------------------------------------
Tables ==
  {[values |-> file[1] \div 4, width |-> file[2]] : file \in EmbeddingFiles}

FakeStates ==
  [n_batch : Nat \ {0}, tokenizer : BOOLEAN, embed : BOOLEAN,
   tokenized : {Tokenize(ids, TokenRoom) : ids \in Encodings} \cup {Unset},
   embedded : {Embed(table, TOKENS, EmbedRoom) : table \in Tables} \cup {Unset},
   seen : Seq({ReadInput(AsRaw(input)) : input \in GoodInputs}),
   cleared : Ranges \cup {Unset}, cleared_keep : {0, 1}]

GivenParams == [default : Defaults, given : RawParams]

\* None is neither of the two structs.
ASSUME StructsAssumption == Unset \notin FakeStates /\ Unset \notin GivenParams

Answers == Seq(Words)
ProgramTypeOK ==
  /\ pc \in {"configuring", "open", "running", "failed", "closed"}
  /\ param # Failed => param.n_batch # 0
  /\ infer # Failed /\ Failed \notin ToSet(inputs)
  /\ fake \in FakeStates \cup {Unset}
  /\ n_batch \in Nat
  /\ (n_batch = 0) <=> (rawParam = Unset)
  /\ call \in Runs \cup {Unset}
  /\ \A e \in DOMAIN heard.answers : heard.answers[e] \in Answers
  /\ heard.generated \in Seq(0..I32Max)
  /\ choices \in 0..MaxChoices /\ calls \in 0..MaxCalls
  /\ (step # Unset) <=> (pc = "running")
  /\ (fake # Unset) <=> (pc \in {"open", "running"} \/ (pc = "failed" /\ n_batch > 0))

(***************************************************************************)
(* Every setting the program made reaches the library with the value it    *)
(* was given last, however the builder calls were ordered.  Of one it did  *)
(* not make the library keeps its own default when the session is opened;  *)
(* a run generates, with the history exactly if it began with              *)
(* InferParams::new, with no budget of its own and with a null pointer for *)
(* every struct not asked for.  The model is the one whose path was given  *)
(* (Param::apply_to, InferParams::scratch).  Numbers are those of the      *)
(* library's header.                                                       *)
(***************************************************************************)
Asked(target, f) == {i \in DOMAIN asked : asked[i][1] = target /\ asked[i][2] = f}

LastAsked(target, f, otherwise) ==
  IF Asked(target, f) = {} THEN otherwise ELSE asked[Max(Asked(target, f))][3]

ParamsAsAsked ==
  LET told(f) == LastAsked("param", f, rawParam.default[f])
      cpus == <<rawParam.default.enabled_cpus_num, rawParam.default.enabled_cpus_mask>>
      flag(f) == LastAsked("param", f, Unset)
      wanted(f) == LastAsked("infer", f, Unset)
      cache == wanted("prompt_cache")
      mode == LastAsked("infer", "mode", "Generate")
      keeps == LastAsked("infer", "keep_history", started.infer = NewInfer)
  IN  /\ rawParam # Unset =>
           /\ rawParam.given.model_path = started.model_path
           /\ \A f \in PlainFields : rawParam.given[f] = told(f)
           /\ \A f \in {"embed_flash", "use_cross_attn"} :
                rawParam.given[f] = IF flag(f) = Unset THEN rawParam.default[f]
                                    ELSE IF flag(f) THEN 1 ELSE 0
           /\ <<rawParam.given.enabled_cpus_num, rawParam.given.enabled_cpus_mask>>
                = LastAsked("param", "enabled_cpus", cpus)
      /\ pc = "running" =>
           /\ rawInfer.mode = CASE mode = "Generate" -> 0
                                [] mode = "LastHiddenLayer" -> 1
                                [] mode = "Logits" -> 2
           /\ rawInfer.keep_history = IF keeps THEN 1 ELSE 0
           /\ rawInfer.lora_params = wanted("lora_adapter")
           /\ rawInfer.sampling_params = wanted("sampling")
           /\ rawInfer.max_new_tokens = LastAsked("infer", "max_new_tokens", 0)
           /\ IF cache = Unset THEN rawInfer.prompt_cache_params = Unset
              ELSE /\ rawInfer.prompt_cache_params.prompt_cache_path = cache[1]
                   /\ (rawInfer.prompt_cache_params.save_prompt_cache = 1) <=> cache[2]

(***************************************************************************)
(* The library reads the program's own inputs and ranges, one per entry    *)
(* and in their order, in the first run and when the same inputs run again:*)
(* the payload of the union member its tag names, every count at its place,*)
(* a null role only where none was set, and nothing past the end of an     *)
(* array (Input::as_raw, run_batch, clear_kv_cache_ranges, read_input).    *)
(* Of token ids and embeddings the stand-in reads the role and the tag     *)
(* alone, and of no input whether it may think: that they arrive is not    *)
(* part of this.                                                           *)
(* An image may hold no floats at all: a program has to compare embed_dim  *)
(* with the model's width, which is one for the stand-in.                  *)
(***************************************************************************)
ReadFrom(input, seen) ==
  LET payload == input.payload
  IN  /\ seen.role = input.role
      /\ seen.video_zeroed
      /\ payload.kind = "Prompt" =>
           seen.input_type = 0 /\ seen.prompt = payload.prompt
      /\ payload.kind = "Tokens" => seen.input_type = 1
      /\ payload.kind = "Embed" => seen.input_type = 2
      /\ payload.kind = "Multimodal" =>
           /\ seen.input_type = 3
           /\ seen.prompt = payload.prompt
           /\ <<seen.n_image, seen.n_image_tokens>>
                = <<payload.image.n_image, payload.image.n_image_tokens>>
           /\ EmbedDim(payload.image) > 0 =>
                seen.embed # <<>> /\ IsPrefix(seen.embed, payload.image.embed)
           /\ seen.tags
                = <<payload.image.start, payload.image.end, payload.image.content>>
           /\ seen.size = <<payload.image.width, payload.image.height>>

SeenIsAsked ==
  fake # Unset =>
    /\ pc = "running" =>
         /\ Len(fake.seen) = Len(InputsOf(call))
         /\ \A e \in DOMAIN fake.seen : ReadFrom(inputs[e], fake.seen[e])
    /\ fake.cleared \in Ranges \cup {Unset}

(***************************************************************************)
(* What a closure collects is what the library said: for every entry its   *)
(* texts in order and nothing of another entry's, finished exactly when    *)
(* the library reported it so, and the statistics of a run exactly when it *)
(* finished, whether the run was paused, failed or went to its end         *)
(* (trampoline, run_llm, batch.rs, chat.rs, stream.rs).                    *)
(***************************************************************************)
Spoken(e) ==
  {i \in DOMAIN said :
     /\ said[i].results # Unset
     /\ e \in DOMAIN said[i].results
     /\ said[i].results[e].text # Unset}
SaidBefore(e, i) == Cardinality({j \in Spoken(e) : j <= i})

AnswersComplete ==
  LET finish == {i \in DOMAIN said : said[i].raw = 2}
  IN  /\ \A e \in DOMAIN heard.answers :
           /\ Len(heard.answers[e]) = Cardinality(Spoken(e))
           /\ \A i \in Spoken(e) :
                heard.answers[e][SaidBefore(e, i)] = said[i].results[e].text
      /\ call = "run_llm_batch" => \A e \in DOMAIN heard.finished :
           heard.finished[e] <=>
             \E i \in DOMAIN said :
               said[i].raw = 0 /\ said[i].results[e].token_id < 0
      /\ IF finish = {} THEN heard.perf = Unset
         ELSE heard.perf = said[CHOOSE i \in finish : TRUE].results[1].perf

(***************************************************************************)
(* An image that was accepted is whole: its counts and the width that      *)
(* embed_dim reports multiply to the length of its buffer, so a model of   *)
(* that width reads nothing past its end, however large the counts are     *)
(* (ImageInput::new, embed_dim).                                           *)
(***************************************************************************)
ImagesFit ==
  \A i \in DOMAIN inputs : inputs[i].payload.kind = "Multimodal" =>
    LET image == inputs[i].payload.image
    IN  image.n_image * image.n_image_tokens * EmbedDim(image) = Len(image.embed)

(***************************************************************************)
(* A slice lent to a closure is the library's buffer, neither empty nor    *)
(* longer than it, whatever signed lengths the library reports             *)
(* (Output::hidden_states, Output::logits, checked_len).                   *)
(***************************************************************************)
SlicesInBuffer ==
  \A n \in heard.slices \ {Unset} : layer # Unset /\ n > 0 /\ n = Floats(layer)

(***************************************************************************)
(* The hooks tell the library of success only when it has everything: each *)
(* slot holds the row of its own token, from a table as wide as the slots, *)
(* and the ids are the whole encoding (embedding-hook.rs,                  *)
(* tokenizer-hook.rs).                                                     *)
(***************************************************************************)
HooksAnswerWhole ==
  fake # Unset =>
    /\ fake.embedded # Unset =>
         IF fake.embedded.code = 0
         THEN \A j \in DOMAIN TOKENS : \A c \in 1..2 :
                fake.embedded.out[2 * (j - 1) + c] = 2 * TOKENS[j] + c
         ELSE hooks.table.width # 2 \/ hooks.table.values < 2 * (TOKENS[3] + 1)
    /\ fake.tokenized # Unset /\ fake.tokenized.code >= 0 =>
         SubSeq(fake.tokenized.out, 1, fake.tokenized.code) = hooks.encoding.ids

(***************************************************************************)
(* What tokenizer-hook.rs reports: the ids it kept are the tokens the run  *)
(* generated.                                                              *)
(***************************************************************************)
GeneratedCounted ==
  call = "run_llm" /\ heard.perf # Unset =>
    Len(heard.generated) = heard.perf.generate_tokens

(***************************************************************************)
(* What InferParams documents: the default keeps the conversation history. *)
(***************************************************************************)
DefaultKeepsHistory ==
  rawInfer # Unset => rawInfer.keep_history = Flag(LastAsked("infer", "keep_history", TRUE))
=============================================================================
