------------------------- MODULE ClientProgramProofs -------------------------
(***************************************************************************)
(* Proofs about ClientProgram: what the checks of Inputs and Outputs       *)
(* guarantee a program, the invariant of its life, and what reaches the    *)
(* library -- the answers of its hooks, the inputs and the settings -- for *)
(* every size of usize, every buffer, batch and order of builder calls.    *)
(***************************************************************************)
EXTENDS ClientProgram, SequenceTheorems, TLAPS

(***************************************************************************)
(* A length is not changed by the wrap-around of a usize.                  *)
(***************************************************************************)
LEMMA LengthIsKept ==
  ASSUME NEW m \in Nat, m <= UsizeMax
  PROVE  m % (UsizeMax + 1) = m
  BY UsizeMaxAssumption

(***************************************************************************)
(* A length that a positive one divides is their quotient's multiple.      *)
(***************************************************************************)
LEMMA ExactQuotient ==
  ASSUME NEW l \in Nat, NEW d \in Nat \ {0}, l % d = 0
  PROVE  d * (l \div d) = l
  OBVIOUS

(***************************************************************************)
(* What ImageInput::new accepts is whole: the counts and the width that    *)
(* embed_dim reports multiply to the length of the buffer.                 *)
(***************************************************************************)
LEMMA AcceptedImageFits ==
  ASSUME NEW image, image.embed \in Seq(Int),
         image.n_image \in Nat, image.n_image_tokens \in Nat,
         NewImage(image.embed, image.n_image, image.n_image_tokens) # Failed
  PROVE  image.n_image * image.n_image_tokens * EmbedDim(image) = Len(image.embed)
<1> DEFINE embed == image.embed
           per   == image.n_image * image.n_image_tokens
           check == PerImage(image.n_image, image.n_image_tokens)
<1>1. per \in Nat /\ Len(embed) \in Nat
  OBVIOUS
<1>2. per <= UsizeMax /\ per # 0 /\ Len(embed) % per = 0
  <2>1. check # 0 /\ Len(embed) % check = 0
    BY DEF NewImage
  <2>2. CheckedMul(image.n_image, image.n_image_tokens) # Failed
    BY <2>1 DEF PerImage
  <2>3. check = per
    BY <2>2 DEF PerImage
  <2>4. ~(per > UsizeMax)
    BY <2>2 DEF CheckedMul
  <2> QED
    BY <1>1, <2>1, <2>3, <2>4, UsizeMaxAssumption
<1>3. EmbedDim(image) = Len(embed) \div per
  BY <1>1, <1>2, LengthIsKept DEF EmbedDim
<1>4. per * (Len(embed) \div per) = Len(embed)
  <2> HIDE DEF per
  <2> QED
    BY <1>1, <1>2, ExactQuotient
<1> QED
  BY <1>3, <1>4

(***************************************************************************)
(* Inputs are only pushed, each as its constructor returned it.            *)
(***************************************************************************)
InputsInv == inputs \in Seq(GoodInputs)

\* Every step keeps InputsInv: only PushInput changes the inputs.
LEMMA InputsStep == InputsInv /\ [Next]_vars => InputsInv'
<1> SUFFICES ASSUME InputsInv, [Next]_vars
             PROVE  InputsInv'
  OBVIOUS
<1> USE DEF InputsInv
<1>1. ASSUME NEW input \in PlainInputs \cup OtherInputs, PushInput(input)
      PROVE  InputsInv'
  BY <1>1 DEF PushInput, GoodInputs
<1>2. CASE UNCHANGED inputs
  BY <1>2
<1> QED
  BY <1>1, <1>2
  DEF Next, vars, setupVars, ConfigureParam, ConfigureInfer, OpenSession, RefuseRun,
      StartRun, Calls, CallsBack, LibraryFails, ClearRanges, ClearAll, KvCacheSize,
      DropSession

(***************************************************************************)
(* Every image of a program fits its buffer, whatever program it is and    *)
(* however large the counts are (ImageInput::new, embed_dim).              *)
(***************************************************************************)
THEOREM EveryImageFits == Spec => []ImagesFit
<1>1. Init => InputsInv
  BY DEF Init, InputsInv
<1>2. InputsInv => ImagesFit
  <2> SUFFICES ASSUME InputsInv, NEW i \in DOMAIN inputs,
                      inputs[i].payload.kind = "Multimodal"
               PROVE  LET image == inputs[i].payload.image
                      IN  image.n_image * image.n_image_tokens * EmbedDim(image)
                            = Len(image.embed)
    BY DEF ImagesFit
  <2> DEFINE image == inputs[i].payload.image
  <2>1. inputs[i] \in GoodInputs
    BY DEF InputsInv
  <2>2. /\ image.embed \in Seq(Int)
        /\ image.n_image \in Nat /\ image.n_image_tokens \in Nat
        /\ NewImage(image.embed, image.n_image, image.n_image_tokens) # Failed
    BY <2>1, InputsAssumption
  <2> HIDE DEF image
  <2>3. image.n_image * image.n_image_tokens * EmbedDim(image) = Len(image.embed)
    BY <2>2, AcceptedImageFits
  <2> QED
    BY <2>3 DEF image
<1> QED
  BY <1>1, <1>2, InputsStep, PTL DEF Spec

-----------------------------------------------------------------------------
FakeFields ==
  {"n_batch", "tokenizer", "embed", "tokenized", "embedded", "seen", "cleared",
   "cleared_keep"}

(***************************************************************************)
(* What the hooks answered is what they make of the encoding and of the    *)
(* table the session was opened with (tokenizer-hook.rs,                   *)
(* embedding-hook.rs, SessionBuilder).                                     *)
(***************************************************************************)
HooksInv ==
  /\ fake.tokenizer => hooks.encoding.ids \in Encodings
  /\ fake.embed => hooks.table \in Tables
  /\ fake.tokenized # Unset =>
       /\ fake.tokenizer
       /\ fake.tokenized = Tokenize(hooks.encoding.ids, TokenRoom)
  /\ fake.embedded # Unset =>
       /\ fake.embed
       /\ fake.embedded = Embed(hooks.table, TOKENS, EmbedRoom)

(***************************************************************************)
(* A session that is open: the batch size read back is the stand-in's own, *)
(* and what was cleared are ranges the program asked for (with_api,        *)
(* clear_kv_cache_ranges).                                                 *)
(***************************************************************************)
OpenInv ==
  /\ DOMAIN fake = FakeFields
  /\ fake.n_batch = n_batch /\ n_batch \in Nat \ {0}
  /\ HooksInv
  /\ fake.cleared \in Ranges \cup {Unset}

(***************************************************************************)
(* A run in flight was handed one input per entry, the program's own and   *)
(* in their order (run_llm, run_llm_batch, Input::as_raw).                 *)
(***************************************************************************)
RunInv ==
  /\ step \in 0..LastStep
  /\ call \in Runs
  /\ Len(InputsOf(call)) = n_batch /\ n_batch \in 1..Len(inputs)
  /\ fake.seen = [i \in 1..n_batch |-> ReadInput(AsRaw(inputs[i]))]

(***************************************************************************)
(* A Param being built keeps its fields, and its batch is one that         *)
(* SetParam took.                                                          *)
(***************************************************************************)
ParamInv ==
  /\ DOMAIN param = Settings \cup {"model_path"}
  /\ param.n_batch \in Nat \cup {Unset}

(***************************************************************************)
(* The inductive invariant of the whole program, on which every theorem of *)
(* this module and of ClientAnswersProofs rests.                           *)
(***************************************************************************)
ProgramInv ==
  /\ InputsInv
  /\ pc = "configuring" => ParamInv
  /\ fake = Unset \/ OpenInv
  /\ pc \in {"open", "running"} => OpenInv
  /\ pc = "running" => RunInv
  /\ pc # "running" => step = Unset

(***************************************************************************)
(* A program starts without a session.                                     *)
(***************************************************************************)
LEMMA ProgramInit == Init => ProgramInv
<1> SUFFICES ASSUME Init
             PROVE  ProgramInv
  OBVIOUS
<1>1. pc \in {"configuring", "failed"} /\ fake = Unset /\ step = Unset /\ inputs = <<>>
  BY DEF Init
<1>2. pc = "configuring" => ParamInv
  <2> SUFFICES ASSUME pc = "configuring"
               PROVE  ParamInv
    OBVIOUS
  <2>1. PICK p \in Paths : param = NewParam(p) /\ param # Failed
    BY DEF Init
  <2>2. param = [f \in Settings \cup {"model_path"} |->
                   IF f = "model_path" THEN p ELSE Unset]
    BY <2>1 DEF NewParam
  <2>3. "n_batch" \in Settings
    BY DEF Settings
  <2> QED
    BY <2>2, <2>3 DEF ParamInv
<1> QED
  BY <1>1, <1>2 DEF ProgramInv, InputsInv

(***************************************************************************)
(* A setting of Param keeps the invariant: it changes one field and does   *)
(* not touch the session.                                                  *)
(***************************************************************************)
LEMMA ConfigureStep ==
  ASSUME ProgramInv, NEW c \in ParamChoices, ConfigureParam(c[1], c[2])
  PROVE  ProgramInv'
<1> DEFINE next == SetParam(param, c[1], c[2])
<1>1. /\ pc = "configuring" /\ UNCHANGED <<fakeVars, inputs, hooks, n_batch>>
      /\ pc' = IF next = Failed THEN "failed" ELSE pc
      /\ param' = IF next = Failed THEN param ELSE next
  BY DEF ConfigureParam
<1>2. next # Failed => next = [param EXCEPT ![c[1]] = c[2]]
  BY DEF SetParam
<1>3. pc' = "configuring" => ParamInv'
  <2>1. /\ c[1] \in Settings /\ c[1] = "n_batch" => c[2] \in Nat
        /\ "n_batch" \in Settings
    BY SettingsAssumption DEF Settings
  <2>2. ParamInv
    BY <1>1 DEF ProgramInv
  <2> HIDE DEF next
  <2> QED
    BY <1>1, <1>2, <2>1, <2>2 DEF ParamInv
<1>4. UNCHANGED <<fake, step, inputs, hooks, n_batch>> /\ step = Unset
  BY <1>1 DEF fakeVars, ProgramInv
<1> QED
  BY <1>1, <1>3, <1>4 DEF ProgramInv, InputsInv, OpenInv, HooksInv

(***************************************************************************)
(* Opening a session establishes OpenInv: the defaults and the settings    *)
(* give a batch size, and no hook has answered yet.                        *)
(***************************************************************************)
LEMMA OpenStep ==
  ASSUME ProgramInv, NEW default \in Defaults, NEW supplied,
         \/ supplied = NoHooks
         \/ \E ids \in Encodings : supplied = [NoHooks EXCEPT !.encoding = [ids |-> ids]]
         \/ \E file \in EmbeddingFiles :
              supplied = [NoHooks EXCEPT !.table = LoadTable(file[1], file[2])],
         OpenSession(default, supplied)
  PROVE  ProgramInv'
<1>1. CASE supplied.table = Failed
  BY <1>1 DEF OpenSession, ProgramInv, InputsInv, OpenInv, HooksInv, fakeVars
<1>2. CASE supplied.table # Failed
  <2> DEFINE raw == ApplyTo(param, default)
  <2>1. /\ pc = "configuring" /\ step = Unset
        /\ FakeInit(raw, supplied.encoding # Unset, supplied.table # Unset)
        /\ pc' = "open" /\ hooks' = supplied /\ inputs' = inputs
        /\ n_batch' = IF raw.n_batch = 0 THEN 1 ELSE raw.n_batch
    BY <1>2 DEF OpenSession, ProgramInv
  <2>2. raw.n_batch \in Nat
    <3>1. raw.n_batch = IF param.n_batch = Unset THEN default.n_batch ELSE param.n_batch
      BY DEF ApplyTo, RawFields, PlainFields, Settings
    <3> QED
      BY <2>1, <3>1, SettingsAssumption DEF ProgramInv, ParamInv
  <2> HIDE DEF raw
  <2>3. /\ DOMAIN fake' = FakeFields
        /\ fake'.n_batch = n_batch' /\ n_batch' \in Nat \ {0}
        /\ fake'.tokenizer = (supplied.encoding # Unset)
        /\ fake'.embed = (supplied.table # Unset)
        /\ fake'.tokenized = Unset /\ fake'.embedded = Unset /\ fake'.cleared = Unset
        /\ step' = Unset
    BY <2>1, <2>2 DEF FakeInit, NoState, FakeFields
  <2>4. supplied.encoding # Unset => supplied.encoding.ids \in Encodings
    BY DEF NoHooks
  <2>5. supplied.table # Unset => supplied.table \in Tables
    <3>1. ASSUME NEW file \in EmbeddingFiles,
                 supplied = [NoHooks EXCEPT !.table = LoadTable(file[1], file[2])]
          PROVE  supplied.table \in Tables
      BY <1>2, <3>1 DEF NoHooks, LoadTable, Tables
    <3> QED
      BY <3>1 DEF NoHooks
  <2>6. HooksInv'
    BY <2>1, <2>3, <2>4, <2>5 DEF HooksInv
  <2> QED
    BY <2>1, <2>3, <2>6 DEF ProgramInv, InputsInv, OpenInv
<1> QED
  BY <1>1, <1>2

(***************************************************************************)
(* A step that leaves the session alone keeps the invariant.               *)
(***************************************************************************)
LEMMA FakeKept ==
  ASSUME ProgramInv, UNCHANGED <<fakeVars, hooks, n_batch>>,
         InputsInv', pc' \in {pc, "failed"}, pc = "running" => FALSE,
         pc' = "configuring" => ParamInv'
  PROVE  ProgramInv'
BY DEF ProgramInv, OpenInv, HooksInv, fakeVars

(***************************************************************************)
(* Inputs that do not change stay what their constructors returned.        *)
(***************************************************************************)
LEMMA InputsStayGood ==
  ASSUME UNCHANGED inputs, InputsInv
  PROVE  InputsInv'
BY DEF InputsInv

(***************************************************************************)
(* A call that is refused, that reads or clears the cache, or that drops   *)
(* the session keeps the invariant; the ranges that are cleared are the    *)
(* caller's, read back through the two arrays.                             *)
(***************************************************************************)
LEMMA CallStep ==
  ASSUME ProgramInv,
         \/ \E c \in Runs : RefuseRun(c)
         \/ \E ranges \in Ranges : ClearRanges(ranges)
         \/ \E keep \in BOOLEAN : ClearAll(keep)
         \/ KvCacheSize
         \/ DropSession
  PROVE  ProgramInv'
<1>1. /\ pc = "open" /\ OpenInv /\ InputsInv' /\ step = Unset
      /\ UNCHANGED <<hooks, n_batch, inputs>> /\ pc' \in {"open", "closed"}
  BY InputsStayGood
  DEF ProgramInv, RefuseRun, ClearRanges, ClearAll, KvCacheSize, DropSession, Calls,
      setupVars
<1>2. CASE (\E c \in Runs : RefuseRun(c)) \/ KvCacheSize
  BY <1>1, <1>2 DEF RefuseRun, KvCacheSize, ProgramInv, OpenInv, HooksInv, fakeVars
<1>3. ASSUME NEW cleared \in Ranges \cup {Unset}, NEW keep,
             fake' = [fake EXCEPT !.cleared_keep = keep, !.cleared = cleared],
             step' = step, pc' = "open"
      PROVE  ProgramInv'
  <2>1. /\ DOMAIN fake' = FakeFields
        /\ fake'.n_batch = fake.n_batch /\ fake'.tokenizer = fake.tokenizer
        /\ fake'.embed = fake.embed /\ fake'.tokenized = fake.tokenized
        /\ fake'.embedded = fake.embedded /\ fake'.cleared = cleared
    BY <1>1, <1>3 DEF OpenInv, FakeFields
  <2>2. OpenInv'
    BY <1>1, <2>1 DEF OpenInv, HooksInv
  <2> QED
    BY <1>1, <1>3, <2>2 DEF ProgramInv
<1>4. ASSUME NEW ranges \in Ranges, ClearRanges(ranges)
      PROVE  ProgramInv'
  <2>1. CASE Len(ranges) # n_batch
    BY <1>1, <1>4, <2>1 DEF ClearRanges, ProgramInv, OpenInv, HooksInv, fakeVars
  <2>2. CASE Len(ranges) = n_batch
    <3> DEFINE start == [i \in DOMAIN ranges |-> ranges[i][1]]
               end   == [i \in DOMAIN ranges |-> ranges[i][2]]
               read  == [i \in 1..n_batch |-> <<At(start, i), At(end, i)>>]
    <3>1. /\ ranges \in Seq(Int \X Int) /\ DOMAIN ranges = 1..n_batch
          /\ ranges \in [1..n_batch -> Int \X Int]
      BY <2>2, DataAssumption, LenProperties
    <3>2. \A i \in 1..n_batch : read[i] = ranges[i]
      BY <3>1 DEF At
    <3>3. read = ranges
      BY <3>1, <3>2
    <3>4. ClearKvCache(0, start, end) /\ pc' = "open"
      BY <1>1, <1>4, <2>2 DEF ClearRanges
    <3>5. fake.n_batch = n_batch
      BY <1>1 DEF OpenInv
    <3>6. /\ fake' = [fake EXCEPT !.cleared_keep = 0,
                        !.cleared = IF start = Unset \/ end = Unset THEN Unset
                                                                    ELSE read]
          /\ step' = step
      BY <3>4, <3>5 DEF ClearKvCache
    <3> HIDE DEF start, end, read
    <3> QED
      BY <1>3, <3>3, <3>4, <3>6
  <2> QED
    BY <2>1, <2>2
<1>5. ASSUME NEW keep \in BOOLEAN, ClearAll(keep)
      PROVE  ProgramInv'
  BY <1>1, <1>3, <1>5 DEF ClearAll, ClearKvCache
<1>6. CASE DropSession
  BY <1>1, <1>6 DEF DropSession, Destroy, ProgramInv
<1> QED
  BY <1>2, <1>4, <1>5, <1>6

(***************************************************************************)
(* Starting a run establishes RunInv: the array of raw inputs has one      *)
(* element per entry, and no element past its end is read.                 *)
(***************************************************************************)
LEMMA StartStep ==
  ASSUME ProgramInv, NEW c \in Runs, StartRun(c)
  PROVE  ProgramInv' /\ RunInv' /\ OpenInv'
<1> DEFINE given == [i \in 1..Len(InputsOf(c)) |-> AsRaw(inputs[i])]
<1>1. /\ pc = "open" /\ OpenInv /\ InputsInv /\ InputsInv'
      /\ UNCHANGED <<hooks, n_batch, inputs>>
      /\ pc' = "running" /\ call' = c /\ Len(InputsOf(c)) = n_batch /\ inputs # <<>>
  BY InputsStayGood DEF ProgramInv, StartRun, Calls, setupVars
<1>2. n_batch \in 1..Len(inputs)
  <2>1. n_batch \in Nat \ {0} /\ Len(inputs) \in Nat \ {0}
    BY <1>1 DEF OpenInv, InputsInv
  <2>2. CASE c = "run_llm_batch"
    BY <1>1, <2>1, <2>2 DEF InputsOf
  <2>3. CASE c # "run_llm_batch"
    BY <1>1, <2>1, <2>3 DEF StartRun
  <2> QED
    BY <2>2, <2>3
<1>3. RunStarts(given, Tokenize(hooks.encoding.ids, TokenRoom),
                Embed(hooks.table, TOKENS, EmbedRoom))
  BY DEF StartRun, TokenizeHook, EmbedHook
<1>4. \A i \in 1..n_batch : At(given, i) = AsRaw(inputs[i])
  BY <1>1 DEF At
<1>5. fake.n_batch = n_batch /\ DOMAIN fake = FakeFields
  BY <1>1 DEF OpenInv
<1> HIDE DEF given
<1>6. /\ step' = 0
      /\ DOMAIN fake' = FakeFields
      /\ fake'.n_batch = n_batch
      /\ fake'.tokenizer = fake.tokenizer /\ fake'.embed = fake.embed
      /\ fake'.cleared = fake.cleared
      /\ fake'.seen = [i \in 1..n_batch |-> ReadInput(At(given, i))]
      /\ fake'.tokenized = IF fake.tokenizer
                           THEN Tokenize(hooks.encoding.ids, TokenRoom)
                           ELSE fake.tokenized
      /\ fake'.embedded = IF fake.embed THEN Embed(hooks.table, TOKENS, EmbedRoom)
                                        ELSE fake.embedded
  BY <1>3, <1>5 DEF RunStarts, FakeFields
<1>7. fake'.seen = [i \in 1..n_batch |-> ReadInput(AsRaw(inputs[i]))]
  BY <1>4, <1>6
<1>8. OpenInv'
  BY <1>1, <1>6 DEF OpenInv, HooksInv
<1>9. RunInv'
  <2>1. InputsOf(c)' = InputsOf(c)
    BY <1>1 DEF InputsOf
  <2>2. 0 \in 0..LastStep
    BY DEF LastStep, CHUNKS
  <2> QED
    BY <1>1, <1>2, <1>6, <1>7, <2>1, <2>2 DEF RunInv
<1> QED
  BY <1>1, <1>8, <1>9 DEF ProgramInv

(***************************************************************************)
(* A callback walks to the next step or ends the run.                      *)
(***************************************************************************)
LEMMA CallbackStep ==
  ASSUME ProgramInv, LibraryFails \/ \E name \in DOMAIN Control : CallsBack(Control[name])
  PROVE  ProgramInv'
<1>1. /\ pc = "running" /\ OpenInv /\ RunInv /\ InputsInv'
      /\ UNCHANGED <<fake, hooks, n_batch, inputs, call>>
      /\ step' = Unset \/ (step # LastStep /\ step' = step + 1)
      /\ pc' = IF step' = Unset THEN "open" ELSE pc
  BY InputsStayGood
  DEF ProgramInv, LibraryFails, CallsBack, CallbackAnswers, setupVars
<1>2. OpenInv'
  BY <1>1 DEF OpenInv, HooksInv
<1>3. LastStep = 3
  BY DEF LastStep, CHUNKS
<1>4. step' # Unset => RunInv'
  BY <1>1, <1>3 DEF RunInv, InputsOf
<1> QED
  BY <1>1, <1>2, <1>4 DEF ProgramInv

(***************************************************************************)
(* Every step keeps the invariant.                                         *)
(***************************************************************************)
LEMMA ProgramStep == ProgramInv /\ [Next]_vars => ProgramInv'
<1> SUFFICES ASSUME ProgramInv, [Next]_vars
             PROVE  ProgramInv'
  OBVIOUS
<1>1. ASSUME NEW c \in InferChoices, ConfigureInfer(c[1], c[2])
      PROVE  ProgramInv'
  BY <1>1, InputsStayGood, FakeKept DEF ConfigureInfer, ProgramInv
<1>2. ASSUME NEW input \in PlainInputs \cup OtherInputs, PushInput(input)
      PROVE  ProgramInv'
  <2>1. InputsInv'
    BY InputsStep DEF ProgramInv
  <2> QED
    BY <1>2, <2>1, FakeKept DEF PushInput
<1>3. CASE UNCHANGED vars
  BY <1>3 DEF vars, setupVars, runVars, fakeVars, ProgramInv, InputsInv, OpenInv,
              HooksInv, RunInv, InputsOf, ParamInv
<1>4. ASSUME NEW default \in Defaults,
             \/ OpenSession(default, NoHooks)
             \/ \E ids \in Encodings :
                  OpenSession(default, [NoHooks EXCEPT !.encoding = [ids |-> ids]])
             \/ \E file \in EmbeddingFiles :
                  OpenSession(default,
                              [NoHooks EXCEPT !.table = LoadTable(file[1], file[2])])
      PROVE  ProgramInv'
  BY <1>4, OpenStep
<1> QED
  BY <1>1, <1>2, <1>3, <1>4, ConfigureStep, CallStep, StartStep, CallbackStep DEF Next

-----------------------------------------------------------------------------
(***************************************************************************)
(* A row of a table of the wanted width is there unless the file ends      *)
(* before it, whatever the token (EmbeddingTable::row).                    *)
(***************************************************************************)
LEMMA RowIsWhole ==
  ASSUME NEW table \in Tables, table.width = 2, NEW token \in Nat
  PROVE  IF Row(table, token) = Unset THEN table.values < 2 * (token + 1)
         ELSE Row(table, token) = [i \in 1..2 |-> 2 * token + i]
<1>1. table.values \in Nat /\ table.values <= UsizeMax
  <2>1. PICK file \in EmbeddingFiles : table = [values |-> file[1] \div 4, width |-> file[2]]
    BY DEF Tables
  <2>2. file[1] \in Nat /\ file[1] <= UsizeMax
    BY DataAssumption, UsizeMaxAssumption
  <2>3. table.values = file[1] \div 4
    BY <2>1
  <2> QED
    BY <2>2, <2>3, UsizeMaxAssumption
<1>2. CheckedMul(token, 2) = Failed => token * 2 > UsizeMax
  BY UnsetAssumption DEF CheckedMul
<1>3. [i \in 1..2 |-> token * 2 + i] # Unset
  <2>1. [i \in 1..2 |-> token * 2 + i] \in Seq(Int)
    OBVIOUS
  <2> QED
    BY <2>1, DataAssumption
<1>4. Row(table, token)
        = IF CheckedMul(token, 2) = Failed \/ token * 2 + 2 > table.values THEN Unset
          ELSE [i \in 1..2 |-> token * 2 + i]
  BY <1>1 DEF Row
<1>5. [i \in 1..2 |-> token * 2 + i] = [i \in 1..2 |-> 2 * token + i]
  OBVIOUS
<1>6. CASE CheckedMul(token, 2) = Failed
  BY <1>1, <1>2, <1>4, <1>6, UsizeMaxAssumption
<1>7. CASE CheckedMul(token, 2) # Failed
  BY <1>1, <1>3, <1>4, <1>5, <1>7
<1> QED
  BY <1>6, <1>7

(***************************************************************************)
(* The embedding hook answers zero only when each slot has the row of its  *)
(* own token; otherwise the width is not the wanted one or the table is    *)
(* too short for one of the tokens.                                        *)
(***************************************************************************)
LEMMA EmbedIsWhole ==
  ASSUME NEW table \in Tables
  PROVE  LET answer == Embed(table, TOKENS, EmbedRoom)
         IN  IF answer.code = 0
             THEN \A j \in DOMAIN TOKENS : \A c \in 1..2 :
                    answer.out[2 * (j - 1) + c] = 2 * TOKENS[j] + c
             ELSE table.width # 2 \/ table.values < 2 * (TOKENS[3] + 1)
<1> DEFINE answer == Embed(table, TOKENS, EmbedRoom)
           row(j) == Row(table, TOKENS[j])
           known(k) == \A j \in 1..k : row(j) # Unset
           slot(i) == ((i - 1) \div 2) + 1
           goal == IF answer.code = 0
                   THEN \A j \in DOMAIN TOKENS : \A c \in 1..2 :
                          answer.out[2 * (j - 1) + c] = 2 * TOKENS[j] + c
                   ELSE table.width # 2 \/ table.values < 2 * (TOKENS[3] + 1)
<1> SUFFICES goal
  OBVIOUS
<1>1. Len(TOKENS) = 3 /\ DOMAIN TOKENS = 1..3 /\ EmbedRoom = 6 /\ TOKENS # <<>>
  BY DEF TOKENS, EmbedRoom
<1>2. table.width \in Nat
  BY DataAssumption DEF Tables
<1>3. WidthWanted(table, TOKENS, EmbedRoom) <=> table.width = 2
  BY <1>1, <1>2 DEF WidthWanted
<1>4. ASSUME table.width # 2
      PROVE  goal
  <2>1. answer.code = -1
    BY <1>3, <1>4 DEF Embed
  <2> QED
    BY <1>4, <2>1
<1>5. ASSUME table.width = 2
      PROVE  goal
  <2>1. EmbedRoom \div Len(TOKENS) = 2
    BY <1>1
  <2>2. /\ answer.code = IF known(3) THEN 0 ELSE -1
        /\ answer.out = [i \in 1..6 |-> IF known(slot(i))
                                        THEN At(row(slot(i)), ((i - 1) % 2) + 1) ELSE 0]
    BY <1>1, <1>3, <1>5, <2>1 DEF Embed
  <2>3. TOKENS[1] = 11 /\ TOKENS[2] = 22 /\ TOKENS[3] = 33
    BY DEF TOKENS
  <2>4. \A j \in 1..3 : IF row(j) = Unset THEN table.values < 2 * (TOKENS[j] + 1)
                        ELSE row(j) = [i \in 1..2 |-> 2 * TOKENS[j] + i]
    <3>1. \A j \in 1..3 : TOKENS[j] \in Nat
      BY <2>3
    <3> QED
      BY <1>5, <3>1, RowIsWhole
  <2>5. table.values \in Nat
    <3>1. PICK file \in EmbeddingFiles : table = [values |-> file[1] \div 4, width |-> file[2]]
      BY DEF Tables
    <3>2. file[1] \in Nat /\ table.values = file[1] \div 4
      BY <3>1, DataAssumption, UsizeMaxAssumption
    <3> QED
      BY <3>2
  <2> HIDE DEF row, answer
  <2>6. ASSUME known(3)
        PROVE  goal
    <3> SUFFICES ASSUME NEW j \in 1..3, NEW c \in 1..2
                 PROVE  answer.out[2 * (j - 1) + c] = 2 * TOKENS[j] + c
      BY <1>1, <2>2, <2>6
    <3> DEFINE i == 2 * (j - 1) + c
    <3>1. i \in 1..6 /\ (i - 1) \div 2 = j - 1 /\ (i - 1) % 2 = c - 1
      <4>1. j \in {1, 2, 3} /\ c \in {1, 2}
        OBVIOUS
      <4> QED
        BY <4>1
    <3>2. known(slot(i)) /\ slot(i) = j /\ ((i - 1) % 2) + 1 = c
      BY <2>6, <3>1
    <3>3. answer.out[i] = At(row(j), c)
      BY <2>2, <3>1, <3>2
    <3>4. row(j) = [k \in 1..2 |-> 2 * TOKENS[j] + k]
      BY <2>4, <2>6
    <3> QED
      BY <3>3, <3>4 DEF At
  <2>7. ASSUME ~known(3)
        PROVE  goal
    <3>1. table.values < 2 * (TOKENS[3] + 1)
      BY <2>3, <2>4, <2>5, <2>7
    <3>2. answer.code = -1
      BY <2>2, <2>7
    <3>3. answer.code # 0
      BY <3>2
    <3> QED
      BY <3>1, <3>3
  <2> HIDE DEF goal
  <2> QED
    BY <2>6, <2>7
<1> HIDE DEF goal
<1> QED
  BY <1>4, <1>5

(***************************************************************************)
(* A number of ids the tokenizer hook reports is the whole encoding.       *)
(***************************************************************************)
LEMMA TokenizeIsWhole ==
  ASSUME NEW ids \in Encodings, NEW room \in Nat, Tokenize(ids, room).code >= 0
  PROVE  LET answer == Tokenize(ids, room)
         IN  SubSeq(answer.out, 1, answer.code) = ids
<1> DEFINE answer == Tokenize(ids, room)
           fits(k) == \A j \in 1..k : ids[j] <= I32Max
<1>1. ids # Unset /\ ~(Len(ids) > room)
  BY DEF Tokenize
<1>2. ids \in Seq(Nat)
  BY <1>1, DataAssumption
<1>3. /\ answer.code = IF fits(Len(ids)) THEN Len(ids) ELSE -1
      /\ answer.out = [i \in 1..room |-> IF i <= Len(ids) /\ fits(i) THEN ids[i] ELSE 0]
  BY <1>1 DEF Tokenize
<1> HIDE DEF answer
<1>4. fits(Len(ids)) /\ answer.code = Len(ids)
  BY <1>3 DEF answer
<1>5. Len(ids) \in Nat /\ Len(ids) <= room /\ DOMAIN ids = 1..Len(ids)
  BY <1>1, <1>2
<1>6. \A i \in 1..Len(ids) : i \in 1..room /\ answer.out[i] = ids[i]
  BY <1>3, <1>4, <1>5
<1>7. SubSeq(answer.out, 1, Len(ids)) = [i \in 1..Len(ids) |-> answer.out[i]]
  BY <1>5
<1>8. [i \in 1..Len(ids) |-> answer.out[i]] = ids
  BY <1>2, <1>5, <1>6
<1> QED
  BY <1>4, <1>7, <1>8 DEF answer

(***************************************************************************)
(* The hooks tell the library of success only when it has everything,      *)
(* for every file of floats, every encoding and every width of usize       *)
(* (embedding-hook.rs, tokenizer-hook.rs).                                 *)
(***************************************************************************)
THEOREM HooksAreWhole == Spec => []HooksAnswerWhole
<1>1. ProgramInv => HooksAnswerWhole
  <2> SUFFICES ASSUME OpenInv
               PROVE  HooksAnswerWhole
    BY DEF ProgramInv, HooksAnswerWhole
  <2>1. fake.embedded # Unset =>
          hooks.table \in Tables /\ fake.embedded = Embed(hooks.table, TOKENS, EmbedRoom)
    BY DEF OpenInv, HooksInv
  <2>2. fake.tokenized # Unset =>
          /\ hooks.encoding.ids \in Encodings
          /\ fake.tokenized = Tokenize(hooks.encoding.ids, TokenRoom)
    BY DEF OpenInv, HooksInv
  <2>3. TokenRoom \in Nat
    BY DEF TokenRoom
  <2> QED
    BY <2>1, <2>2, <2>3, EmbedIsWhole, TokenizeIsWhole DEF HooksAnswerWhole
<1> QED
  BY <1>1, ProgramInit, ProgramStep, PTL DEF Spec

-----------------------------------------------------------------------------
(***************************************************************************)
(* What read_input makes of an image, as a function of its parts.          *)
(***************************************************************************)
SeenImage(role, type, prompt, n, t, embed, tags, size, zeroed) ==
  LET seen == [Unread EXCEPT !.role = role, !.input_type = type]
  IN  [seen EXCEPT !.prompt = prompt, !.n_image = n, !.n_image_tokens = t,
                   !.embed = embed, !.tags = tags, !.size = size,
                   !.video_zeroed = zeroed]

(***************************************************************************)
(* read_input takes each part of a multimodal payload from its own place.  *)
(***************************************************************************)
LEMMA ImageIsRead ==
  ASSUME NEW raw, raw.input_type = 3
  PROVE  LET image == raw.payload.image
             per   == image.n_image * image.n_image_tokens
         IN  ReadInput(raw)
               = SeenImage(raw.role, 3, raw.payload.prompt, image.n_image,
                           image.n_image_tokens,
                           [i \in 1..per |-> At(image.image_embed, i)],
                           <<image.image_start, image.image_end, image.image_content>>,
                           <<image.image_width, image.image_height>>,
                           (raw.payload.video = NoVideo))
<1>1. /\ raw.input_type # RKLLMInputType.RKLLM_INPUT_PROMPT
      /\ raw.input_type = RKLLMInputType.RKLLM_INPUT_MULTIMODAL
  BY DEF RKLLMInputType
<1> QED
  BY <1>1, ZenonT(30) DEF ReadInput, SeenImage

(***************************************************************************)
(* The product of the counts ImageInput::new accepts is a length.          *)
(***************************************************************************)
LEMMA AcceptedCounts ==
  ASSUME NEW image, image.embed \in Seq(Int),
         image.n_image \in Nat, image.n_image_tokens \in Nat,
         NewImage(image.embed, image.n_image, image.n_image_tokens) # Failed
  PROVE  image.n_image * image.n_image_tokens \in 1..UsizeMax
<1> DEFINE per == image.n_image * image.n_image_tokens
<1>1. PerImage(image.n_image, image.n_image_tokens) # 0
  BY DEF NewImage
<1>2. CheckedMul(image.n_image, image.n_image_tokens) # Failed
  BY <1>1 DEF PerImage
<1>3. per \in Nat /\ ~(per > UsizeMax) /\ per # 0
  BY <1>1, <1>2 DEF CheckedMul, PerImage
<1> QED
  BY <1>3, UsizeMaxAssumption

(***************************************************************************)
(* The library reads of every input what the program put into it, and of   *)
(* an image of any width nothing past the end of its buffer.               *)
(***************************************************************************)
LEMMA InputIsRead ==
  ASSUME NEW input \in GoodInputs
  PROVE  ReadFrom(input, ReadInput(AsRaw(input)))
<1> DEFINE payload == input.payload
           raw == AsRaw(input)
           kept == [Unread EXCEPT !.role = raw.role, !.input_type = raw.input_type]
<1>1. payload.kind \in {"Prompt", "Tokens", "Embed", "Multimodal"}
  BY InputsAssumption DEF GoodInputs, InputType
<1>2. /\ raw.role = input.role /\ raw.input_type = InputType[payload.kind]
      /\ raw.payload = RawPayload(payload)
  BY DEF AsRaw
<1> HIDE DEF raw
<1>3. CASE payload.kind = "Prompt"
  <2>1. raw.input_type = 0 /\ raw.payload = [prompt_input |-> payload.prompt]
    BY <1>2, <1>3 DEF InputType, RKLLMInputType, RawPayload
  <2>2. ReadInput(raw) = [kept EXCEPT !.prompt = payload.prompt]
    BY <2>1 DEF ReadInput, RKLLMInputType
  <2> QED
    BY <1>2, <1>3, <2>1, <2>2 DEF ReadFrom, Unread, raw
<1>4. CASE payload.kind \in {"Tokens", "Embed"}
  <2>1. raw.input_type = IF payload.kind = "Tokens" THEN 1 ELSE 2
    BY <1>2, <1>4 DEF InputType, RKLLMInputType
  <2>2. ReadInput(raw) = kept
    BY <2>1 DEF ReadInput, RKLLMInputType
  <2> QED
    BY <1>2, <1>4, <2>1, <2>2 DEF ReadFrom, Unread, raw
<1>5. CASE payload.kind = "Multimodal"
  <2> DEFINE image == payload.image
             per == image.n_image * image.n_image_tokens
             embed == [i \in 1..per |-> At(image.embed, i)]
  <2>1. /\ raw.input_type = 3
        /\ raw.payload = [prompt |-> payload.prompt, image |-> RawImage(image),
                          video |-> NoVideo]
    BY <1>2, <1>5 DEF InputType, RKLLMInputType, RawPayload
  <2>2. LET seen == ReadInput(raw)
        IN  /\ seen.role = input.role /\ seen.video_zeroed /\ seen.input_type = 3
            /\ seen.prompt = payload.prompt /\ seen.embed = embed
            /\ seen.n_image = image.n_image
            /\ seen.n_image_tokens = image.n_image_tokens
            /\ seen.tags = <<image.start, image.end, image.content>>
            /\ seen.size = <<image.width, image.height>>
    <3> DEFINE given == raw.payload.image
    <3>1. /\ raw.payload.prompt = payload.prompt
          /\ given = RawImage(image)
          /\ (raw.payload.video = NoVideo) = TRUE
      BY <2>1
    <3>2. /\ given.image_embed = image.embed
          /\ given.n_image = image.n_image
          /\ given.n_image_tokens = image.n_image_tokens
          /\ given.image_start = image.start /\ given.image_end = image.end
          /\ given.image_content = image.content
          /\ given.image_width = image.width /\ given.image_height = image.height
      BY <3>1 DEF RawImage
    <3>3. ReadInput(raw)
            = SeenImage(raw.role, 3, raw.payload.prompt, given.n_image,
                        given.n_image_tokens,
                        [i \in 1..(given.n_image * given.n_image_tokens) |->
                           At(given.image_embed, i)],
                        <<given.image_start, given.image_end, given.image_content>>,
                        <<given.image_width, given.image_height>>,
                        (raw.payload.video = NoVideo))
      BY <2>1, ImageIsRead
    <3> HIDE DEF given
    <3>4. ReadInput(raw)
            = SeenImage(input.role, 3, payload.prompt, image.n_image,
                        image.n_image_tokens, embed,
                        <<image.start, image.end, image.content>>,
                        <<image.width, image.height>>, TRUE)
      BY <1>2, <3>1, <3>2, <3>3, Zenon
    <3> HIDE DEF embed
    <3> DEFINE tags == <<image.start, image.end, image.content>>
               size == <<image.width, image.height>>
               seen == SeenImage(input.role, 3, payload.prompt, image.n_image,
                                 image.n_image_tokens, embed, tags, size, TRUE)
    <3>5. /\ seen.role = input.role /\ seen.video_zeroed /\ seen.input_type = 3
          /\ seen.prompt = payload.prompt /\ seen.embed = embed
          /\ seen.n_image = image.n_image
          /\ seen.n_image_tokens = image.n_image_tokens
          /\ seen.tags = tags /\ seen.size = size
      <4> HIDE DEF tags, size, payload
      <4> QED
        BY SMTT(30) DEF SeenImage, Unread
    <3> QED
      BY <3>4, <3>5, Zenon
  <2>3. /\ image.embed \in Seq(Int)
        /\ image.n_image \in Nat /\ image.n_image_tokens \in Nat
        /\ per * EmbedDim(image) = Len(image.embed)
    BY <1>5, InputsAssumption, AcceptedImageFits DEF GoodInputs
  <2>4. ASSUME EmbedDim(image) > 0
        PROVE  embed # <<>> /\ IsPrefix(embed, image.embed)
    <3>1. per \in Nat \ {0} /\ EmbedDim(image) \in Nat \ {0}
      <4>1. per \in 1..UsizeMax
        BY <1>5, InputsAssumption, AcceptedCounts DEF GoodInputs
      <4>2. EmbedDim(image) \in Int
        <5>1. per % (UsizeMax + 1) = per
          BY <4>1, LengthIsKept, UsizeMaxAssumption
        <5>2. EmbedDim(image) = Len(image.embed) \div per
          BY <5>1 DEF EmbedDim
        <5>3. Len(image.embed) \in Nat
          BY <2>3
        <5> HIDE DEF per
        <5> QED
          BY <4>1, <5>2, <5>3, UsizeMaxAssumption
      <4> QED
        BY <2>4, <4>1, <4>2
    <3>2. per <= Len(image.embed)
      <4> HIDE DEF per
      <4> QED
        BY <2>3, <3>1
    <3>3. Len(embed) = per /\ embed # <<>>
      BY <3>1
    <3>4. \A i \in 1..per : embed[i] = image.embed[i]
      BY <2>3, <3>1, <3>2 DEF At
    <3>5. SubSeq(embed, 1, per) = [i \in 1..per |-> embed[i]]
      BY <3>1
    <3>6. SubSeq(image.embed, 1, per) = [i \in 1..per |-> image.embed[i]]
      BY <2>3, <3>1, <3>2
    <3>7. SubSeq(embed, 1, per) = SubSeq(image.embed, 1, per)
      BY <3>4, <3>5, <3>6
    <3> QED
      BY <3>2, <3>3, <3>7 DEF IsPrefix
  <2> QED
    BY <1>2, <1>5, <2>2, <2>4 DEF ReadFrom, Unread, raw
<1> QED
  BY <1>1, <1>3, <1>4, <1>5 DEF raw

(***************************************************************************)
(* The library reads the program's own inputs and ranges, one per entry    *)
(* and in their order, in the first run and in every later one, for every  *)
(* set of inputs a program may build (run_batch, Input::as_raw,            *)
(* clear_kv_cache_ranges).                                                 *)
(***************************************************************************)
THEOREM InputsAreRead == Spec => []SeenIsAsked
<1>1. ProgramInv => SeenIsAsked
  <2> SUFFICES ASSUME ProgramInv, fake # Unset
               PROVE  /\ pc = "running" =>
                           /\ Len(fake.seen) = Len(InputsOf(call))
                           /\ \A e \in DOMAIN fake.seen :
                                ReadFrom(inputs[e], fake.seen[e])
                      /\ fake.cleared \in Ranges \cup {Unset}
    BY DEF SeenIsAsked
  <2>1. fake.cleared \in Ranges \cup {Unset}
    BY DEF ProgramInv, OpenInv
  <2>2. ASSUME pc = "running"
        PROVE  /\ Len(fake.seen) = Len(InputsOf(call))
               /\ \A e \in DOMAIN fake.seen : ReadFrom(inputs[e], fake.seen[e])
    <3>1. RunInv /\ InputsInv
      BY <2>2 DEF ProgramInv
    <3>2. n_batch \in 1..Len(inputs) /\ inputs \in Seq(GoodInputs)
      BY <3>1 DEF RunInv, InputsInv, GoodInputs
    <3>3. fake.seen = [i \in 1..n_batch |-> ReadInput(AsRaw(inputs[i]))]
      BY <3>1 DEF RunInv
    <3>4. DOMAIN fake.seen = 1..n_batch /\ n_batch \in Nat
      BY <3>2, <3>3
    <3>5. Len(fake.seen) = n_batch
      BY <3>3, <3>4
    <3>6. \A e \in 1..n_batch : inputs[e] \in GoodInputs
      BY <3>2
    <3> QED
      BY <3>1, <3>3, <3>4, <3>5, <3>6, InputIsRead DEF RunInv
  <2> QED
    BY <2>1, <2>2
<1> QED
  BY <1>1, ProgramInit, ProgramStep, PTL DEF Spec

-----------------------------------------------------------------------------
(***************************************************************************)
(* What may stand in the history of settings, and LastAsked of any         *)
(* history: the value given last.                                          *)
(***************************************************************************)
Entries ==
  {<<"param", c[1], c[2]>> : c \in ParamChoices} \cup
  {<<"infer", c[1], c[2]>> : c \in InferChoices}

AskedIn(s, target, f) == {i \in DOMAIN s : s[i][1] = target /\ s[i][2] = f}

LastIn(s, target, f, otherwise) ==
  IF AskedIn(s, target, f) = {} THEN otherwise ELSE s[Max(AskedIn(s, target, f))][3]

(***************************************************************************)
(* A setting that was made has a last time it was made.                    *)
(***************************************************************************)
HasLast(s) ==
  \A target, f : AskedIn(s, target, f) # {} =>
    \E m \in AskedIn(s, target, f) : \A i \in AskedIn(s, target, f) : m >= i

(***************************************************************************)
(* LastAsked is LastIn of the history.                                     *)
(***************************************************************************)
LEMMA AskedNow ==
  \A target, f, otherwise :
    LastAsked(target, f, otherwise) = LastIn(asked, target, f, otherwise)
  BY DEF LastAsked, Asked, LastIn, AskedIn

(***************************************************************************)
(* The maximum of a set is the member that bounds it.                      *)
(***************************************************************************)
LEMMA MaxIs ==
  ASSUME NEW S \in SUBSET Int, NEW m \in S, \A i \in S : m >= i
  PROVE  Max(S) = m
<1> DEFINE M == CHOOSE x \in S : \A y \in S : x >= y
<1>1. M \in S /\ \A y \in S : M >= y
  OBVIOUS
<1>2. M = m
  <2>1. M \in Int /\ m \in Int /\ M >= m /\ m >= M
    BY <1>1
  <2> HIDE DEF M
  <2> QED
    BY <2>1
<1> QED
  BY <1>2 DEF Max

(***************************************************************************)
(* One more setting is the last one of its field and changes no other.     *)
(***************************************************************************)
LEMMA AppendAsked ==
  ASSUME NEW s \in Seq(Entries), HasLast(s), NEW entry \in Entries
  PROVE  /\ HasLast(Append(s, entry))
         /\ \A target, f, otherwise :
              LastIn(Append(s, entry), target, f, otherwise)
                = IF entry[1] = target /\ entry[2] = f THEN entry[3]
                  ELSE LastIn(s, target, f, otherwise)
<1> DEFINE t == Append(s, entry)
           n == Len(s)
<1>1. /\ n \in Nat /\ DOMAIN s = 1..n /\ DOMAIN t = 1..(n + 1)
      /\ t[n + 1] = entry /\ \A i \in 1..n : t[i] = s[i]
  OBVIOUS
<1> HIDE DEF t, n
<1> SUFFICES ASSUME NEW target, NEW f
             PROVE  /\ AskedIn(t, target, f) # {} =>
                         \E m \in AskedIn(t, target, f) :
                           \A i \in AskedIn(t, target, f) : m >= i
                    /\ \A otherwise :
                         LastIn(t, target, f, otherwise)
                           = IF entry[1] = target /\ entry[2] = f THEN entry[3]
                             ELSE LastIn(s, target, f, otherwise)
  BY DEF HasLast, t
<1> DEFINE old == AskedIn(s, target, f)
           new == AskedIn(t, target, f)
<1>2. \A i \in 1..(n + 1) : i \in 1..n \/ i = n + 1
  BY <1>1
<1>3. n + 1 \in 1..(n + 1) /\ 1..n \subseteq 1..(n + 1) /\ 1..(n + 1) \subseteq Int
  BY <1>1
<1>4. old \subseteq 1..n
      /\ new = old \cup (IF entry[1] = target /\ entry[2] = f THEN {n + 1} ELSE {})
  BY <1>1, <1>2, <1>3 DEF AskedIn
<1>5. old # {} => \E m \in old : \A i \in old : m >= i
  BY DEF HasLast
<1> HIDE DEF old, new
<1>6. CASE entry[1] = target /\ entry[2] = f
  <2>1. n + 1 \in new /\ new \in SUBSET Int /\ \A i \in new : n + 1 >= i
    BY <1>1, <1>3, <1>4, <1>6
  <2>2. Max(new) = n + 1
    BY <1>1, <2>1, MaxIs
  <2>3. \A otherwise : LastIn(t, target, f, otherwise) = entry[3]
    BY <1>1, <2>1, <2>2 DEF LastIn, new
  <2> QED
    BY <1>6, <2>1, <2>3 DEF new
<1>7. CASE ~(entry[1] = target /\ entry[2] = f)
  <2>1. new = old
    BY <1>4, <1>7
  <2>2. old # {} => Max(old) \in 1..n
    <3> SUFFICES ASSUME old # {}
                 PROVE  Max(old) \in 1..n
      OBVIOUS
    <3>1. PICK m \in old : \A i \in old : m >= i
      BY <1>5
    <3>2. Max(old) = m
      <4>1. old \in SUBSET Int
        BY <1>3, <1>4
      <4> QED
        BY <3>1, <4>1, MaxIs
    <3> QED
      BY <1>4, <3>1, <3>2
  <2>3. \A otherwise : LastIn(t, target, f, otherwise) = LastIn(s, target, f, otherwise)
    <3>1. old # {} => t[Max(old)] = s[Max(old)]
      BY <1>1, <2>2
    <3> QED
      BY <2>1, <3>1 DEF LastIn, old, new
  <2> QED
    BY <1>5, <1>7, <2>1, <2>3 DEF new
<1> QED
  BY <1>6, <1>7

(***************************************************************************)
(* A field was never set, or its last value is one that was given.         *)
(***************************************************************************)
LEMMA LastIsMade ==
  ASSUME NEW s \in Seq(Entries), HasLast(s), NEW target, NEW f
  PROVE  \/ \A otherwise : LastIn(s, target, f, otherwise) = otherwise
         \/ \E entry \in Entries :
              /\ entry[1] = target /\ entry[2] = f
              /\ \A otherwise : LastIn(s, target, f, otherwise) = entry[3]
<1> DEFINE made == AskedIn(s, target, f)
<1>1. CASE made = {}
  BY <1>1 DEF LastIn
<1>2. CASE made # {}
  <2>1. PICK m \in made : \A i \in made : m >= i
    BY <1>2 DEF HasLast
  <2>2. made \in SUBSET Int
    BY DEF AskedIn
  <2>3. Max(made) = m
    BY <2>1, <2>2, MaxIs
  <2>4. s[m] \in Entries /\ s[m][1] = target /\ s[m][2] = f
    BY DEF AskedIn
  <2>5. \A otherwise : LastIn(s, target, f, otherwise) = s[m][3]
    BY <1>2, <2>3 DEF LastIn
  <2> QED
    BY <2>4, <2>5
<1> QED
  BY <1>1, <1>2

(***************************************************************************)
(* What a setter of InferParams keeps of its argument.                     *)
(***************************************************************************)
Kept(f, v) == IF f = "prompt_cache" THEN [path |-> v[1], save |-> v[2]] ELSE v

RunSettings == {"max_new_tokens", "lora_adapter", "sampling", "prompt_cache"}

(***************************************************************************)
(* InferParams and Param hold the value each field was given last, and     *)
(* what they began with where none was given (the builder methods of       *)
(* infer.rs and param.rs).                                                 *)
(***************************************************************************)
InferTold ==
  /\ DOMAIN infer = DOMAIN DefaultInfer
  /\ infer.mode \in Modes
  /\ infer.mode = LastIn(asked, "infer", "mode", "Generate")
  /\ infer.keep_history \in BOOLEAN
  /\ infer.keep_history
       = LastIn(asked, "infer", "keep_history", started.infer = NewInfer)
  /\ \A f \in RunSettings :
       LET v == LastIn(asked, "infer", f, Unset)
       IN  infer[f] = IF v = Unset THEN Unset ELSE Kept(f, v)

ParamTold ==
  /\ rawParam = Unset
  /\ ParamInv
  /\ param.model_path = started.model_path
  /\ \A f \in Settings : param[f] = LastIn(asked, "param", f, Unset)

(***************************************************************************)
(* The two halves of ParamsAsAsked, of the struct rkllm_init was given and *)
(* of the one rkllm_run was given.                                         *)
(***************************************************************************)
RawParamTold ==
  LET told(f) == LastIn(asked, "param", f, rawParam.default[f])
      cpus == <<rawParam.default.enabled_cpus_num, rawParam.default.enabled_cpus_mask>>
      flag(f) == LastIn(asked, "param", f, Unset)
  IN  /\ rawParam.given.model_path = started.model_path
      /\ \A f \in PlainFields : rawParam.given[f] = told(f)
      /\ \A f \in {"embed_flash", "use_cross_attn"} :
           rawParam.given[f] = IF flag(f) = Unset THEN rawParam.default[f]
                               ELSE IF flag(f) THEN 1 ELSE 0
      /\ <<rawParam.given.enabled_cpus_num, rawParam.given.enabled_cpus_mask>>
           = LastIn(asked, "param", "enabled_cpus", cpus)

RawInferTold ==
  LET wanted(f) == LastIn(asked, "infer", f, Unset)
      cache == wanted("prompt_cache")
      mode == LastIn(asked, "infer", "mode", "Generate")
      keeps == LastIn(asked, "infer", "keep_history", started.infer = NewInfer)
  IN  /\ rawInfer.mode = CASE mode = "Generate" -> 0
                           [] mode = "LastHiddenLayer" -> 1
                           [] mode = "Logits" -> 2
      /\ rawInfer.keep_history = IF keeps THEN 1 ELSE 0
      /\ rawInfer.lora_params = wanted("lora_adapter")
      /\ rawInfer.sampling_params = wanted("sampling")
      /\ rawInfer.max_new_tokens = LastIn(asked, "infer", "max_new_tokens", 0)
      /\ IF cache = Unset THEN rawInfer.prompt_cache_params = Unset
         ELSE /\ rawInfer.prompt_cache_params.prompt_cache_path = cache[1]
              /\ (rawInfer.prompt_cache_params.save_prompt_cache = 1) <=> cache[2]

(***************************************************************************)
(* The inductive invariant of ParamsAsAsked: the builders hold what was    *)
(* asked, the session was opened with it, and a run was started with the   *)
(* InferParams as they still are.                                          *)
(***************************************************************************)
AskedInv ==
  /\ asked \in Seq(Entries) /\ HasLast(asked)
  /\ pc = "configuring" => ParamTold
  /\ rawParam # Unset => RawParamTold
  /\ pc \in {"configuring", "open", "running"} => InferTold
  /\ pc = "running" => rawInfer = RawInfer(infer)

(***************************************************************************)
(* apply_to over any defaults gives rkllm_init the settings that were made *)
(* and the library's defaults where none was.                              *)
(***************************************************************************)
LEMMA ApplyTold ==
  ASSUME NEW default \in Defaults, asked \in Seq(Entries), HasLast(asked), ParamTold,
         rawParam' = [default |-> default, given |-> ApplyTo(param, default)],
         asked' = asked, started' = started
  PROVE  RawParamTold'
<1> DEFINE given == ApplyTo(param, default)
<1>1. rawParam'.default = default /\ rawParam'.given = given
  OBVIOUS
<1>2. \A f \in Settings :
        param[f] # Unset => \A otherwise : LastIn(asked, "param", f, otherwise) = param[f]
  <2> SUFFICES ASSUME NEW f \in Settings, param[f] # Unset
               PROVE  \A otherwise : LastIn(asked, "param", f, otherwise) = param[f]
    OBVIOUS
  <2>1. param[f] = LastIn(asked, "param", f, Unset)
    BY DEF ParamTold
  <2>2. PICK entry \in Entries : \A otherwise : LastIn(asked, "param", f, otherwise) = entry[3]
    BY <2>1, LastIsMade
  <2> QED
    BY <2>1, <2>2
<1>3. \A f \in Settings :
        param[f] = Unset => \A otherwise : LastIn(asked, "param", f, otherwise) = otherwise
  <2> SUFFICES ASSUME NEW f \in Settings, param[f] = Unset
               PROVE  \A otherwise : LastIn(asked, "param", f, otherwise) = otherwise
    OBVIOUS
  <2>1. LastIn(asked, "param", f, Unset) = Unset
    BY DEF ParamTold
  <2>2. \A entry \in Entries : entry[3] # Unset
    BY SettingsAssumption, InferAssumption DEF Entries
  <2> QED
    BY <2>1, <2>2, LastIsMade
<1>4. PlainFields \subseteq Settings /\ PlainFields \subseteq RawFields
      /\ {"embed_flash", "use_cross_attn", "enabled_cpus"} \subseteq Settings
      /\ {"embed_flash", "use_cross_attn", "enabled_cpus_num", "enabled_cpus_mask"}
           \subseteq RawFields
  BY DEF PlainFields, RawFields, Settings
<1>5. \A f \in PlainFields : given[f] = LastIn(asked, "param", f, default[f])
  <2>1. \A f \in PlainFields : given[f] = IF param[f] = Unset THEN default[f] ELSE param[f]
    <3> SUFFICES ASSUME NEW f \in PlainFields
                 PROVE  given[f] = IF param[f] = Unset THEN default[f] ELSE param[f]
      OBVIOUS
    <3>1. f \in RawFields /\ f # "model_path"
          /\ f \notin {"embed_flash", "use_cross_attn"} /\ f # "enabled_cpus_num"
      BY <1>4 DEF PlainFields, Settings
    <3> QED
      BY <3>1 DEF ApplyTo
  <2> QED
    BY <1>2, <1>3, <1>4, <2>1
<1>6. \A f \in {"embed_flash", "use_cross_attn"} :
        given[f] = IF LastIn(asked, "param", f, Unset) = Unset THEN default[f]
                   ELSE IF LastIn(asked, "param", f, Unset) THEN 1 ELSE 0
  <2>1. \A f \in {"embed_flash", "use_cross_attn"} :
          given[f] = IF param[f] = Unset THEN default[f]
                     ELSE IF param[f] THEN 1 ELSE 0
    BY <1>4 DEF ApplyTo, PlainFields, Flag
  <2> QED
    BY <1>4, <2>1 DEF ParamTold
<1>7. <<given.enabled_cpus_num, given.enabled_cpus_mask>>
        = LastIn(asked, "param", "enabled_cpus",
                 <<default.enabled_cpus_num, default.enabled_cpus_mask>>)
  <2>1. /\ given.enabled_cpus_num = IF param.enabled_cpus = Unset
                                    THEN default.enabled_cpus_num
                                    ELSE param.enabled_cpus[1]
        /\ given.enabled_cpus_mask = IF param.enabled_cpus = Unset
                                     THEN default.enabled_cpus_mask
                                     ELSE param.enabled_cpus[2]
    BY <1>4 DEF ApplyTo, PlainFields, Settings
  <2>2. CASE param.enabled_cpus = Unset
    BY <1>3, <1>4, <2>1, <2>2
  <2>3. CASE param.enabled_cpus # Unset
    <3>1. \A otherwise :
            LastIn(asked, "param", "enabled_cpus", otherwise) = param.enabled_cpus
      BY <1>2, <1>4, <2>3
    <3>2. param.enabled_cpus \in Int \X Int
      <4>1. PICK entry \in Entries :
              /\ entry[1] = "param" /\ entry[2] = "enabled_cpus"
              /\ \A otherwise :
                   LastIn(asked, "param", "enabled_cpus", otherwise) = entry[3]
        <5>1. LastIn(asked, "param", "enabled_cpus", Unset) # Unset
          BY <2>3, <3>1
        <5> QED
          BY <5>1, LastIsMade
      <4>2. PICK c \in ParamChoices : entry = <<"param", c[1], c[2]>>
        BY <4>1 DEF Entries
      <4>3. c[1] = "enabled_cpus" /\ entry[3] = c[2]
        BY <4>1, <4>2
      <4>4. c[2] \in Int \X Int
        BY <4>3, SettingsAssumption
      <4> QED
        BY <3>1, <4>1, <4>3, <4>4
    <3>3. param.enabled_cpus = <<param.enabled_cpus[1], param.enabled_cpus[2]>>
      BY <3>2
    <3> QED
      BY <2>1, <2>3, <3>1, <3>3
  <2> QED
    BY <2>2, <2>3
<1>8. given.model_path = started.model_path
  <2>1. given.model_path = param.model_path
    BY DEF ApplyTo, RawFields, PlainFields, Settings
  <2> QED
    BY <2>1 DEF ParamTold
<1> HIDE DEF given
<1> QED
  BY <1>1, <1>5, <1>6, <1>7, <1>8 DEF RawParamTold

(***************************************************************************)
(* scratch and as_raw give rkllm_run the settings that were made, and null *)
(* pointers where none was.                                                *)
(***************************************************************************)
LEMMA RunTold ==
  ASSUME asked \in Seq(Entries), HasLast(asked), InferTold, rawInfer = RawInfer(infer)
  PROVE  RawInferTold
<1> DEFINE wanted(f) == LastIn(asked, "infer", f, Unset)
           cache == wanted("prompt_cache")
<1>1. \A f \in RunSettings : infer[f] = IF wanted(f) = Unset THEN Unset ELSE Kept(f, wanted(f))
  BY DEF InferTold
<1>2. /\ infer.lora_adapter = wanted("lora_adapter")
      /\ infer.sampling = wanted("sampling")
      /\ infer.max_new_tokens = wanted("max_new_tokens")
      /\ infer.prompt_cache = IF cache = Unset THEN Unset
                              ELSE [path |-> cache[1], save |-> cache[2]]
  BY <1>1 DEF RunSettings, Kept
<1>3. /\ rawInfer.lora_params = infer.lora_adapter
      /\ rawInfer.sampling_params = infer.sampling
      /\ rawInfer.max_new_tokens = IF infer.max_new_tokens = Unset THEN 0
                                                                 ELSE infer.max_new_tokens
      /\ rawInfer.prompt_cache_params = RawCache(infer.prompt_cache)
  BY DEF RawInfer
<1>4. LastIn(asked, "infer", "max_new_tokens", 0)
        = IF wanted("max_new_tokens") = Unset THEN 0 ELSE wanted("max_new_tokens")
  <2>1. \A entry \in Entries : entry[3] # Unset
    BY SettingsAssumption, InferAssumption DEF Entries
  <2> QED
    BY <2>1, LastIsMade
<1>5. cache # Unset => cache[2] \in BOOLEAN /\ [path |-> cache[1], save |-> cache[2]] # Unset
  <2> SUFFICES ASSUME cache # Unset
               PROVE  cache[2] \in BOOLEAN /\ [path |-> cache[1], save |-> cache[2]] # Unset
    OBVIOUS
  <2>1. PICK entry \in Entries :
          entry[1] = "infer" /\ entry[2] = "prompt_cache" /\ cache = entry[3]
    BY LastIsMade
  <2>2. PICK c \in InferChoices : entry = <<"infer", c[1], c[2]>>
    BY <2>1 DEF Entries
  <2>3. c[1] = "prompt_cache" /\ cache = c[2]
    BY <2>1, <2>2
  <2> HIDE DEF cache
  <2> QED
    BY <2>3, InferAssumption
<1>6. IF cache = Unset THEN rawInfer.prompt_cache_params = Unset
      ELSE /\ rawInfer.prompt_cache_params.prompt_cache_path = cache[1]
           /\ (rawInfer.prompt_cache_params.save_prompt_cache = 1) <=> cache[2]
  <2> HIDE DEF cache
  <2> QED
    BY <1>2, <1>3, <1>5 DEF RawCache, Flag
<1>7. rawInfer.mode = CASE infer.mode = "Generate" -> 0
                        [] infer.mode = "LastHiddenLayer" -> 1
                        [] infer.mode = "Logits" -> 2
  BY DEF InferTold, RawInfer, ModeCode, Modes, RKLLMInferMode
<1>8. rawInfer.keep_history = IF infer.keep_history THEN 1 ELSE 0
  BY DEF RawInfer, Flag
<1>9. /\ infer.mode = LastIn(asked, "infer", "mode", "Generate")
      /\ infer.keep_history
           = LastIn(asked, "infer", "keep_history", started.infer = NewInfer)
  BY DEF InferTold
<1> HIDE DEF wanted
<1> QED
  BY <1>2, <1>3, <1>4, <1>6, <1>7, <1>8, <1>9 DEF RawInferTold, wanted

(***************************************************************************)
(* A call of Param's builder keeps the invariant, also one that fails.     *)
(***************************************************************************)
LEMMA ParamAsked ==
  ASSUME ProgramInv, AskedInv, NEW c \in ParamChoices, ConfigureParam(c[1], c[2])
  PROVE  AskedInv'
<1> DEFINE entry == <<"param", c[1], c[2]>>
           next  == SetParam(param, c[1], c[2])
<1>1. /\ pc = "configuring" /\ asked \in Seq(Entries) /\ HasLast(asked)
      /\ ParamTold /\ InferTold /\ UNCHANGED <<rawParam, infer, started>>
      /\ asked' = Append(asked, entry)
      /\ pc' = IF next = Failed THEN "failed" ELSE pc
      /\ param' = IF next = Failed THEN param ELSE next
  BY DEF ConfigureParam, AskedInv
<1>2. entry \in Entries /\ entry[1] = "param" /\ entry[2] = c[1] /\ entry[3] = c[2]
  BY DEF Entries
<1> HIDE DEF entry
<1>3. /\ asked' \in Seq(Entries) /\ HasLast(asked')
      /\ \A target, f, otherwise :
           LastIn(asked', target, f, otherwise)
             = IF entry[1] = target /\ entry[2] = f THEN entry[3]
               ELSE LastIn(asked, target, f, otherwise)
  <2>1. asked' \in Seq(Entries)
    BY <1>1, <1>2
  <2> QED
    BY <1>1, <1>2, <2>1, AppendAsked
<1>4. InferTold'
  <2>1. \A f, otherwise :
          LastIn(asked', "infer", f, otherwise) = LastIn(asked, "infer", f, otherwise)
    BY <1>2, <1>3
  <2> QED
    BY <1>1, <2>1 DEF InferTold
<1>5. rawParam = Unset
  BY <1>1 DEF ParamTold
<1>6. ASSUME pc' = "configuring"
      PROVE  ParamTold'
  <2>1. param' = [param EXCEPT ![c[1]] = c[2]]
    BY <1>1, <1>6 DEF SetParam
  <2>2. DOMAIN param = Settings \cup {"model_path"} /\ c[1] \in Settings
    BY <1>1, SettingsAssumption DEF ParamTold, ParamInv
  <2>3. \A f \in Settings : param'[f] = LastIn(asked', "param", f, Unset)
    <3>1. \A f : LastIn(asked', "param", f, Unset)
                   = IF f = c[1] THEN c[2] ELSE LastIn(asked, "param", f, Unset)
      BY <1>2, <1>3
    <3>2. \A f \in Settings : param[f] = LastIn(asked, "param", f, Unset)
      BY <1>1 DEF ParamTold
    <3> QED
      BY <2>1, <2>2, <3>1, <3>2
  <2>4. ParamInv'
    <3>1. ProgramInv'
      BY ConfigureStep
    <3> QED
      BY <1>6, <3>1 DEF ProgramInv
  <2>5. param'.model_path = started'.model_path
    <3>1. "model_path" \notin Settings
      BY DEF Settings
    <3> QED
      BY <1>1, <2>1, <2>2, <3>1 DEF ParamTold
  <2> QED
    BY <1>1, <1>5, <2>3, <2>4, <2>5 DEF ParamTold
<1> QED
  BY <1>1, <1>3, <1>4, <1>5, <1>6 DEF AskedInv

(***************************************************************************)
(* The same for a call of InferParams' builder.                            *)
(***************************************************************************)
LEMMA InferAsked ==
  ASSUME AskedInv, NEW c \in InferChoices, ConfigureInfer(c[1], c[2])
  PROVE  AskedInv'
<1> DEFINE entry == <<"infer", c[1], c[2]>>
<1>1. /\ pc = "open" /\ asked \in Seq(Entries) /\ HasLast(asked) /\ InferTold
      /\ rawParam' = rawParam /\ started' = started
      /\ rawParam # Unset => RawParamTold
      /\ asked' = Append(asked, entry)
      /\ pc' = IF SetInfer(c[1], c[2]) = Failed THEN "failed" ELSE pc
      /\ infer' = IF SetInfer(c[1], c[2]) = Failed THEN infer ELSE SetInfer(c[1], c[2])
  BY DEF ConfigureInfer, AskedInv
<1>2. entry \in Entries /\ entry[1] = "infer" /\ entry[2] = c[1] /\ entry[3] = c[2]
  BY DEF Entries
<1> HIDE DEF entry
<1>3. /\ asked' \in Seq(Entries) /\ HasLast(asked')
      /\ \A target, f, otherwise :
           LastIn(asked', target, f, otherwise)
             = IF entry[1] = target /\ entry[2] = f THEN entry[3]
               ELSE LastIn(asked, target, f, otherwise)
  <2>1. asked' \in Seq(Entries)
    BY <1>1, <1>2
  <2> QED
    BY <1>1, <1>2, <2>1, AppendAsked
<1>4. rawParam' # Unset => RawParamTold'
  <2>1. \A f, otherwise :
          LastIn(asked', "param", f, otherwise) = LastIn(asked, "param", f, otherwise)
    BY <1>2, <1>3
  <2> SUFFICES ASSUME rawParam' # Unset
               PROVE  RawParamTold'
    OBVIOUS
  <2>2. RawParamTold /\ rawParam' = rawParam /\ started' = started
    BY <1>1
  <2> QED
    BY <2>1, <2>2 DEF RawParamTold
<1>5. ASSUME pc' # "failed"
      PROVE  InferTold'
  <2>1. c[1] \in DOMAIN DefaultInfer /\ c[2] # Unset
    BY InferAssumption
  <2>2. DOMAIN DefaultInfer = {"mode", "keep_history"} \cup RunSettings
    BY DEF DefaultInfer, RunSettings
  <2>3. infer' = [infer EXCEPT ![c[1]] = Kept(c[1], c[2])]
    <3>1. infer' = SetInfer(c[1], c[2]) /\ SetInfer(c[1], c[2]) # Failed
      BY <1>1, <1>5
    <3>2. c[1] \in {"mode", "keep_history", "max_new_tokens", "lora_adapter",
                    "prompt_cache", "sampling"}
      BY <2>1, <2>2 DEF RunSettings
    <3> QED
      BY <3>1, <3>2 DEF SetInfer, SetMode, SetKeepHistory, SetMaxNewTokens, SetLora,
                        SetCache, SetSampling, Kept
  <2>4. DOMAIN infer' = DOMAIN infer
    BY <2>3
  <2>5. \A f \in RunSettings :
          infer'[f] = IF f = c[1] THEN Kept(c[1], c[2]) ELSE infer[f]
    BY <1>1, <2>2, <2>3 DEF InferTold
  <2>6. \A f : LastIn(asked', "infer", f, Unset)
                 = IF f = c[1] THEN c[2] ELSE LastIn(asked, "infer", f, Unset)
    BY <1>2, <1>3
  <2>7. /\ infer'.mode \in Modes
        /\ infer'.mode = LastIn(asked', "infer", "mode", "Generate")
    <3>1. c[1] = "mode" => c[2] \in Modes
      BY InferAssumption
    <3>2. infer'.mode = IF c[1] = "mode" THEN c[2] ELSE infer.mode
      BY <1>1, <2>2, <2>3 DEF InferTold, Kept
    <3>3. LastIn(asked', "infer", "mode", "Generate")
            = IF c[1] = "mode" THEN c[2] ELSE LastIn(asked, "infer", "mode", "Generate")
      BY <1>2, <1>3
    <3> QED
      BY <1>1, <3>1, <3>2, <3>3 DEF InferTold
  <2>8. /\ infer'.keep_history \in BOOLEAN
        /\ infer'.keep_history
             = LastIn(asked', "infer", "keep_history", started'.infer = NewInfer)
    <3> DEFINE old == LastIn(asked, "infer", "keep_history", started.infer = NewInfer)
    <3>1. c[1] = "keep_history" => c[2] \in BOOLEAN
      BY InferAssumption
    <3>2. infer'.keep_history = IF c[1] = "keep_history" THEN c[2] ELSE infer.keep_history
      BY <1>1, <2>2, <2>3 DEF InferTold, Kept
    <3>3. LastIn(asked', "infer", "keep_history", started'.infer = NewInfer)
            = IF c[1] = "keep_history" THEN c[2] ELSE old
      BY <1>1, <1>2, <1>3
    <3>4. infer.keep_history \in BOOLEAN /\ infer.keep_history = old
      BY <1>1 DEF InferTold
    <3> QED
      BY <3>1, <3>2, <3>3, <3>4
  <2> QED
    BY <1>1, <2>1, <2>4, <2>5, <2>6, <2>7, <2>8 DEF InferTold
<1> QED
  BY <1>1, <1>3, <1>4, <1>5 DEF AskedInv

(***************************************************************************)
(* The session is opened with what was asked.                              *)
(***************************************************************************)
LEMMA OpenAsked ==
  ASSUME AskedInv, NEW default \in Defaults, NEW supplied, OpenSession(default, supplied)
  PROVE  AskedInv'
<1>1. /\ pc = "configuring" /\ asked \in Seq(Entries) /\ HasLast(asked)
      /\ ParamTold /\ InferTold /\ UNCHANGED <<infer, asked, param, started>>
      /\ \/ pc' = "failed" /\ rawParam' = rawParam
         \/ /\ pc' = "open"
            /\ rawParam' = [default |-> default, given |-> ApplyTo(param, default)]
  BY DEF OpenSession, AskedInv
<1>2. InferTold'
  BY <1>1 DEF InferTold
<1>3. rawParam' # Unset => RawParamTold'
  BY <1>1, ApplyTold DEF ParamTold
<1> QED
  BY <1>1, <1>2, <1>3 DEF AskedInv

(***************************************************************************)
(* A run starts with what was asked.                                       *)
(***************************************************************************)
LEMMA StartAsked ==
  ASSUME AskedInv, NEW c \in Runs, StartRun(c)
  PROVE  AskedInv'
<1>1. /\ pc = "open" /\ pc' = "running" /\ rawInfer' = RawInfer(infer)
      /\ UNCHANGED <<infer, asked, rawParam, param, started>>
  BY DEF StartRun, Calls, setupVars
<1> QED
  BY <1>1 DEF AskedInv, InferTold, RawParamTold

(***************************************************************************)
(* A step that makes no setting and starts nothing keeps the invariant.    *)
(***************************************************************************)
LEMMA AskedKept ==
  ASSUME AskedInv, UNCHANGED <<param, infer, started, rawParam, rawInfer, asked>>,
         pc' = pc \/ (pc' \in {"open", "closed", "failed"} /\ pc \in {"open", "running"})
  PROVE  AskedInv'
BY DEF AskedInv, ParamTold, ParamInv, InferTold, RawParamTold

(***************************************************************************)
(* Every step keeps the invariant.                                         *)
(***************************************************************************)
LEMMA AskedStep ==
  ASSUME ProgramInv, AskedInv, [Next]_vars
  PROVE  AskedInv'
<1>1. CASE UNCHANGED vars
  BY <1>1, AskedKept DEF vars, setupVars, runVars
<1>2. ASSUME NEW input, PushInput(input)
      PROVE  AskedInv'
  BY <1>2, AskedKept DEF PushInput, runVars
<1>3. ASSUME \/ \E c \in Runs : RefuseRun(c)
             \/ \E ranges \in Ranges : ClearRanges(ranges)
             \/ \E keep \in BOOLEAN : ClearAll(keep)
             \/ KvCacheSize
             \/ DropSession
      PROVE  AskedInv'
  BY <1>3, AskedKept
  DEF RefuseRun, ClearRanges, ClearAll, KvCacheSize, DropSession, Calls, setupVars, runVars
<1>4. ASSUME LibraryFails \/ \E name \in DOMAIN Control : CallsBack(Control[name])
      PROVE  AskedInv'
  BY <1>4, AskedKept DEF LibraryFails, CallsBack, setupVars
<1> QED
  BY <1>1, <1>2, <1>3, <1>4, ParamAsked, InferAsked, OpenAsked, StartAsked DEF Next

(***************************************************************************)
(* Nothing is asked for at the start.                                      *)
(***************************************************************************)
LEMMA AskedInit == Init => AskedInv
<1> SUFFICES ASSUME Init
             PROVE  AskedInv
  OBVIOUS
<1>1. /\ asked = <<>> /\ rawParam = Unset /\ pc \in {"configuring", "failed"}
      /\ infer \in {DefaultInfer, NewInfer} /\ started.infer = infer
  BY InferAssumption DEF Init
<1>2. \A target, f : AskedIn(asked, target, f) = {}
  BY <1>1 DEF AskedIn
<1>3. HasLast(asked) /\ \A target, f : LastIn(asked, target, f, Unset) = Unset
  BY <1>2 DEF HasLast, LastIn
<1>4. InferTold
  <2>1. DOMAIN infer = DOMAIN DefaultInfer /\ \A f \in RunSettings : infer[f] = Unset
    BY <1>1 DEF DefaultInfer, NewInfer, RunSettings
  <2>2. infer.mode = "Generate" /\ infer.mode \in Modes
    BY <1>1 DEF DefaultInfer, NewInfer, Modes
  <2>3. infer.keep_history \in BOOLEAN /\ infer.keep_history = (infer = NewInfer)
    <3>1. NewInfer.keep_history = TRUE /\ DefaultInfer.keep_history = FALSE
      BY DEF DefaultInfer, NewInfer
    <3>2. CASE infer = NewInfer
      BY <3>1, <3>2
    <3>3. CASE infer = DefaultInfer
      <4>1. infer # NewInfer
        BY <3>1, <3>3
      <4> QED
        BY <3>1, <3>3, <4>1
    <3> QED
      BY <1>1, <3>2, <3>3
  <2>4. \A target, f, otherwise : LastIn(asked, target, f, otherwise) = otherwise
    BY <1>2 DEF LastIn
  <2> QED
    BY <1>1, <1>3, <2>1, <2>2, <2>3, <2>4 DEF InferTold
<1>5. ASSUME pc = "configuring"
      PROVE  ParamTold
  <2>1. PICK p \in Paths :
          started.model_path = p /\ param = NewParam(p) /\ param # Failed
    BY <1>5 DEF Init
  <2>2. param.model_path = started.model_path /\ \A f \in Settings : param[f] = Unset
    BY <2>1 DEF NewParam, Settings
  <2>3. ParamInv
    BY <1>5, ProgramInit DEF ProgramInv
  <2> QED
    BY <1>1, <1>3, <2>2, <2>3 DEF ParamTold
<1> QED
  BY <1>1, <1>3, <1>4, <1>5 DEF AskedInv

(***************************************************************************)
(* Every setting reaches the library with the value it was given last:     *)
(* the model's path, each field of Param, the mode and the history of a    *)
(* run and its structs.  What was not set is the library's own default,    *)
(* what InferParams began with or a null pointer, for every order of       *)
(* builder calls, every value and every set of defaults (Param::apply_to,  *)
(* InferParams::scratch).                                                  *)
(***************************************************************************)
THEOREM ParamsReachLibrary == Spec => []ParamsAsAsked
<1>1. AskedInv => ParamsAsAsked
  <2> SUFFICES ASSUME AskedInv
               PROVE  ParamsAsAsked
    OBVIOUS
  <2>1. rawParam # Unset => RawParamTold
    BY DEF AskedInv
  <2>2. pc = "running" => RawInferTold
    BY RunTold DEF AskedInv
  <2> QED
    BY <2>1, <2>2, AskedNow DEF ParamsAsAsked, RawParamTold, RawInferTold
<1> QED
  BY <1>1, ProgramInit, ProgramStep, AskedInit, AskedStep, PTL DEF Spec
=============================================================================
