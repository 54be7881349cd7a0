------------------------- MODULE ClientAnswersProofs -------------------------
(***************************************************************************)
(* Proofs about ClientProgram: what comes back from the library -- the     *)
(* slices it lends and the answers a closure collects -- and the types of  *)
(* the whole program, for every batch size and every library.              *)
(***************************************************************************)
EXTENDS ClientProgramProofs, FiniteSetTheorems

(***************************************************************************)
(* What checked_len accepts is the library's buffer, neither empty nor     *)
(* longer than it, for all signed lengths.                                 *)
(***************************************************************************)
LEMMA SliceIsBuffer ==
  ASSUME NEW l \in Int \X Int
  PROVE  LET n == CheckedLen(l[1], l[2])
         IN  n = Unset \/ (n > 0 /\ n = Floats(l))
<1> DEFINE tokens == l[1]
           width  == l[2]
           len    == tokens * width
           n      == CheckedLen(tokens, width)
<1> SUFFICES ASSUME n # Unset
             PROVE  n > 0 /\ n = Floats(l)
  OBVIOUS
<1>1. tokens \in Int /\ width \in Int /\ len \in Int
  OBVIOUS
<1>2. tokens >= 0 /\ width >= 0
  BY <1>1 DEF CheckedLen
<1>3. n = len /\ ~(len > UsizeMax) /\ len # 0
  BY <1>1, <1>2, UsizeMaxAssumption DEF CheckedLen, CheckedMul
<1>4. tokens # 0 /\ width # 0
  BY <1>1, <1>3
<1>5. len > 0
  BY <1>1, <1>2, <1>3
<1> QED
  BY <1>1, <1>2, <1>3, <1>4, <1>5 DEF Floats

(***************************************************************************)
(* A result of the stand-in has nothing beside the text and the id.        *)
(***************************************************************************)
Plain(r) ==
  /\ r \in RKLLMResult
  /\ r.last_hidden_layer.hidden_states = Unset
  /\ r.logits.logits = Unset

(***************************************************************************)
(* The zeroed result is one (fake_runtime.rs).                             *)
(***************************************************************************)
LEMMA EmptyIsPlain == Plain(EmptyResult)
  BY DEF Plain, RKLLMResult, EmptyResult

(***************************************************************************)
(* It stays one when a text and an id are set.                             *)
(***************************************************************************)
LEMMA TextResult ==
  ASSUME NEW r, Plain(r), NEW text \in Words \cup {Unset}, NEW id \in Int
  PROVE  Plain([r EXCEPT !.text = text, !.token_id = id])
  BY DEF Plain, RKLLMResult

(***************************************************************************)
(* It stays one when only an id is set.                                    *)
(***************************************************************************)
LEMMA IdResult ==
  ASSUME NEW r, Plain(r), NEW id \in Int
  PROVE  Plain([r EXCEPT !.token_id = id])
  BY DEF Plain, RKLLMResult

(***************************************************************************)
(* The result of every entry at every step is one.                         *)
(***************************************************************************)
LEMMA EntryIsPlain ==
  ASSUME NEW b \in Nat, NEW k \in 0..LastStep
  PROVE  Plain(EntryResult(b, k))
<1>1. Len(CHUNKS) = 3 /\ DOMAIN CHUNKS = 1..3 /\ k \in Nat
  BY DEF LastStep, CHUNKS
<1>2. CASE k + b < 3
  <2>1. k + 1 \in 1..3 /\ k + 1 \in Int
    BY <1>1, <1>2
  <2> DEFINE word == CHUNKS[k + 1]
             id   == k + 1
  <2>2. word \in Words \cup {Unset} /\ id \in Int
    BY <1>1, <2>1 DEF Words
  <2>3. EntryResult(b, k) = [EmptyResult EXCEPT !.text = word, !.token_id = id]
    BY <1>1, <1>2 DEF EntryResult
  <2> HIDE DEF word, id
  <2>4. Plain([EmptyResult EXCEPT !.text = word, !.token_id = id])
    BY <2>2, EmptyIsPlain, TextResult, Zenon
  <2> QED
    BY <2>3, <2>4, Zenon
<1>3. CASE ~(k + b < 3)
  <2>1. EntryResult(b, k) = [EmptyResult EXCEPT !.token_id = -(b + 1)]
    BY <1>1, <1>3 DEF EntryResult
  <2>2. -(b + 1) \in Int
    OBVIOUS
  <2> QED
    BY <2>1, <2>2, EmptyIsPlain, IdResult
<1> QED
  BY <1>2, <1>3

(***************************************************************************)
(* Hidden states or logits lie beside the text and the id and change       *)
(* neither, and what an Output reports of them is what checked_len says of *)
(* the library's lengths.                                                  *)
(***************************************************************************)
LEMMA LayerIsBeside ==
  ASSUME NEW r, Plain(r), layer \in Layers \cup {Unset}, NEW state
  PROVE  LET given == WithLayer(r)
             out   == NewOutput(state, given)
         IN  /\ given \in RKLLMResult
             /\ given.text = r.text /\ given.token_id = r.token_id
             /\ given.perf = r.perf
             /\ \A n \in {HiddenStates(out), Logits(out)} :
                  n # Unset => layer # Unset /\ n = CheckedLen(layer[1], layer[2])
<1> DEFINE given == WithLayer(r)
           out   == NewOutput(state, given)
<1>1. /\ DOMAIN r = {"text", "token_id", "last_hidden_layer", "logits", "perf"}
      /\ r \in RKLLMResult
  BY DEF Plain, RKLLMResult
<1>2. CASE layer = Unset
  BY <1>1, <1>2 DEF WithLayer, Plain, HiddenStates, Logits, NewOutput
<1>3. CASE layer # Unset
  <2>1. layer[1] \in Int /\ layer[2] \in Int
    BY <1>3, DataAssumption
  <2> DEFINE hidden == [hidden_states |-> "buffer", embd_size |-> layer[2],
                        num_tokens |-> layer[1]]
             logits == [logits |-> "buffer", vocab_size |-> layer[2],
                        num_tokens |-> layer[1]]
  <2>2. CASE rawInfer.mode = RKLLMInferMode.RKLLM_INFER_GET_LAST_HIDDEN_LAYER
    <3>1. given = [r EXCEPT !.last_hidden_layer = hidden]
      BY <1>3, <2>2 DEF WithLayer
    <3>2. hidden \in [hidden_states : {Unset, "buffer"}, embd_size : Int, num_tokens : Int]
      BY <2>1
    <3>3. given \in RKLLMResult
      BY <1>1, <3>1, <3>2 DEF RKLLMResult
    <3>4. /\ given.last_hidden_layer = hidden /\ given.logits = r.logits
          /\ given.text = r.text /\ given.token_id = r.token_id /\ given.perf = r.perf
      BY <1>1, <3>1
    <3> HIDE DEF given
    <3>5. Logits(out) = Unset /\ HiddenStates(out) \in {Unset, CheckedLen(layer[1], layer[2])}
      BY <3>4 DEF Logits, HiddenStates, NewOutput, Plain
    <3> QED
      BY <1>3, <3>3, <3>4, <3>5 DEF given
  <2>3. CASE rawInfer.mode # RKLLMInferMode.RKLLM_INFER_GET_LAST_HIDDEN_LAYER
    <3>1. given = [r EXCEPT !.logits = logits]
      BY <1>3, <2>3 DEF WithLayer
    <3>2. logits \in [logits : {Unset, "buffer"}, vocab_size : Int, num_tokens : Int]
      BY <2>1
    <3>3. given \in RKLLMResult
      BY <1>1, <3>1, <3>2 DEF RKLLMResult
    <3>4. /\ given.logits = logits /\ given.last_hidden_layer = r.last_hidden_layer
          /\ given.text = r.text /\ given.token_id = r.token_id /\ given.perf = r.perf
      BY <1>1, <3>1
    <3> HIDE DEF given
    <3>5. HiddenStates(out) = Unset /\ Logits(out) \in {Unset, CheckedLen(layer[1], layer[2])}
      BY <3>4 DEF Logits, HiddenStates, NewOutput, Plain
    <3> QED
      BY <1>3, <3>3, <3>4, <3>5 DEF given
  <2> QED
    BY <2>2, <2>3
<1> QED
  BY <1>2, <1>3

(***************************************************************************)
(* The result of the final callback is one.                                *)
(***************************************************************************)
LEMMA FinalIsPlain ==
  Plain([EmptyResult EXCEPT !.perf.generate_tokens = Len(CHUNKS)])
<1>1. Len(CHUNKS) \in Int
  BY DEF CHUNKS
<1> HIDE DEF CHUNKS
<1> QED
  BY <1>1 DEF EmptyResult, Plain, RKLLMResult

(***************************************************************************)
(* The entries of a callback: all of the batch, or one in the final state. *)
(***************************************************************************)
StepWidth == IF step = LastStep THEN 1 ELSE n_batch

(***************************************************************************)
(* A callback of the stand-in has one plain result per entry.              *)
(***************************************************************************)
LEMMA ResultsArePlain ==
  ASSUME OpenInv, step \in 0..LastStep
  PROVE  /\ DOMAIN Results(step) = 1..StepWidth /\ StepWidth \in Nat \ {0}
         /\ \A i \in 1..StepWidth : Plain(Results(step)[i])
<1>1. n_batch \in Nat \ {0} /\ fake.n_batch = n_batch
  BY DEF OpenInv
<1>2. CASE step = LastStep
  <2> DEFINE final == [EmptyResult EXCEPT !.perf.generate_tokens = Len(CHUNKS)]
  <2>1. Results(step) = <<final>> /\ StepWidth = 1
    BY <1>2 DEF Results, StepWidth
  <2>2. Plain(final)
    BY FinalIsPlain
  <2> HIDE DEF final
  <2> QED
    BY <2>1, <2>2
<1>3. CASE step # LastStep
  <2>1. Results(step) = [i \in 1..n_batch |-> EntryResult(i - 1, step)]
        /\ StepWidth = n_batch
    BY <1>1, <1>3 DEF Results, StepWidth
  <2>2. \A i \in 1..n_batch : i - 1 \in Nat
    BY <1>1
  <2> QED
    BY <1>1, <2>1, <2>2, EntryIsPlain
<1> QED
  BY <1>2, <1>3

(***************************************************************************)
(* The results the trampoline gets, and the state it reports.              *)
(***************************************************************************)
Given == [i \in DOMAIN Results(step) |-> WithLayer(Results(step)[i])]
StepState == CallStateOf(RunState(step))

(***************************************************************************)
(* The trampoline makes one Output per entry of what it was given, of all  *)
(* of it and of nothing past its end.                                      *)
(***************************************************************************)
LEMMA OutputsOfStep ==
  ASSUME OpenInv, step \in 0..LastStep, layer \in Layers \cup {Unset}
  PROVE  LET outputs == Trampoline(Given, RunState(step))
         IN  /\ Given \in [1..StepWidth -> RKLLMResult] /\ Given # Unset
             /\ StepWidth \in Nat \ {0}
             /\ outputs = [i \in 1..StepWidth |-> NewOutput(StepState, Given[i])]
             /\ StepState = IF step = LastStep THEN "Finish" ELSE "Normal"
<1>1. /\ DOMAIN Results(step) = 1..StepWidth /\ StepWidth \in Nat \ {0}
      /\ \A i \in 1..StepWidth : Plain(Results(step)[i])
  BY ResultsArePlain
<1>2. Given = [i \in 1..StepWidth |-> WithLayer(Results(step)[i])]
  BY <1>1 DEF Given
<1>3. \A i \in 1..StepWidth : WithLayer(Results(step)[i]) \in RKLLMResult
  BY <1>1, LayerIsBeside
<1>4. Given \in [1..StepWidth -> RKLLMResult]
  BY <1>2, <1>3
<1>5. Given # Unset
  <2>1. Given \in Seq(RKLLMResult)
    BY <1>1, <1>4
  <2> QED
    BY <2>1, ResultsAssumption
<1>6. StepState = IF step = LastStep THEN "Finish" ELSE "Normal"
  BY DEF StepState, RunState, CallStateOf
<1>7. Width(StepState) = StepWidth
  BY <1>6 DEF Width, IsFinalState, StepWidth
<1>8. \A i \in 1..StepWidth : At(Given, i) = Given[i]
  BY <1>4 DEF At
<1>9. Trampoline(Given, RunState(step))
        = [i \in 1..StepWidth |-> NewOutput(StepState, At(Given, i))]
  BY <1>5, <1>7 DEF Trampoline, StepState
<1> QED
  BY <1>1, <1>4, <1>5, <1>6, <1>8, <1>9

(***************************************************************************)
(* What the closures keep has always the same fields, and a run has one    *)
(* layer from its start to its end.                                        *)
(***************************************************************************)
HeardFields == {"answers", "finished", "perf", "generated", "slices"}

HeardInv ==
  /\ DOMAIN heard = HeardFields
  /\ layer \in Layers \cup {Unset}

(***************************************************************************)
(* Whatever a closure collects, its slices are the library's.              *)
(***************************************************************************)
LEMMA SliceStep ==
  ASSUME SlicesInBuffer, HeardInv, NEW outputs,
         call \in Runs, layer' = layer, heard' = Collect(outputs),
         \A i \in DOMAIN outputs : \A n \in {HiddenStates(outputs[i]), Logits(outputs[i])} :
            n # Unset => layer # Unset /\ n = CheckedLen(layer[1], layer[2])
  PROVE  SlicesInBuffer' /\ HeardInv'
<1> DEFINE lent == {HiddenStates(outputs[i]) : i \in DOMAIN outputs} \cup
                   {Logits(outputs[i]) : i \in DOMAIN outputs}
<1>1. DOMAIN heard' = HeardFields /\ heard'.slices = heard.slices \cup lent
  BY DEF Collect, HeardInv, HeardFields, Runs, BatchClosure, ChatClosure, StreamConsumer
<1>2. HeardInv'
  BY <1>1 DEF HeardInv
<1>3. ASSUME NEW n \in lent, n # Unset
      PROVE  layer # Unset /\ n > 0 /\ n = Floats(layer)
  <2>1. layer # Unset /\ n = CheckedLen(layer[1], layer[2])
    BY <1>3
  <2>2. layer \in Int \X Int
    BY <2>1, DataAssumption DEF HeardInv
  <2> QED
    BY <1>3, <2>1, <2>2, SliceIsBuffer
<1>4. SlicesInBuffer'
  BY <1>1, <1>3 DEF SlicesInBuffer
<1> QED
  BY <1>2, <1>4

(***************************************************************************)
(* Every step keeps the slices inside the buffer.                          *)
(***************************************************************************)
LEMMA SlicesStep ==
  ASSUME ProgramInv, HeardInv, SlicesInBuffer, [Next]_vars
  PROVE  HeardInv' /\ SlicesInBuffer'
<1>1. CASE UNCHANGED <<heard, layer>>
  BY <1>1 DEF HeardInv, SlicesInBuffer
<1>2. ASSUME NEW c \in Runs, StartRun(c)
      PROVE  HeardInv' /\ SlicesInBuffer'
  BY <1>2 DEF StartRun, Nothing, HeardInv, HeardFields, SlicesInBuffer
<1>3. ASSUME NEW code, CallsBack(code)
      PROVE  HeardInv' /\ SlicesInBuffer'
  <2> DEFINE outputs == Trampoline(Given, RunState(step))
  <2>1. OpenInv /\ step \in 0..LastStep /\ call \in Runs /\ layer' = layer
    BY <1>3 DEF CallsBack, ProgramInv, RunInv
  <2>2. heard' = Collect(outputs)
    BY <1>3 DEF CallsBack, Given
  <2>3. /\ outputs = [i \in 1..StepWidth |-> NewOutput(StepState, Given[i])]
        /\ \A i \in 1..StepWidth : Plain(Results(step)[i])
        /\ Given = [i \in 1..StepWidth |-> WithLayer(Results(step)[i])]
    BY <2>1, OutputsOfStep, ResultsArePlain DEF HeardInv, Given
  <2> HIDE DEF outputs
  <2>4. \A i \in DOMAIN outputs : \A n \in {HiddenStates(outputs[i]), Logits(outputs[i])} :
            n # Unset => layer # Unset /\ n = CheckedLen(layer[1], layer[2])
    <3> SUFFICES ASSUME NEW i \in DOMAIN outputs
                 PROVE  \A n \in {HiddenStates(outputs[i]), Logits(outputs[i])} :
                          n # Unset => layer # Unset /\ n = CheckedLen(layer[1], layer[2])
      OBVIOUS
    <3> DEFINE r == Results(step)[i]
    <3>1. outputs[i] = NewOutput(StepState, WithLayer(r)) /\ Plain(r)
      BY <2>3
    <3> HIDE DEF r
    <3> QED
      BY <3>1, LayerIsBeside DEF HeardInv
  <2> QED
    BY <2>1, <2>2, <2>4, SliceStep
<1>4. CASE LibraryFails
  <2> DEFINE outputs == <<NewOutput("Error", Unset)>>
  <2>1. call \in Runs /\ layer' = layer
    BY <1>4 DEF LibraryFails, ProgramInv, RunInv
  <2>2. heard' = Collect(outputs)
    BY <1>4 DEF LibraryFails, Trampoline, CallStateOf
  <2>3. HiddenStates(outputs[1]) = Unset /\ Logits(outputs[1]) = Unset /\ DOMAIN outputs = {1}
    BY DEF HiddenStates, Logits, NewOutput
  <2> HIDE DEF outputs
  <2> QED
    BY <2>1, <2>2, <2>3, SliceStep
<1> QED
  BY <1>1, <1>2, <1>3, <1>4
  DEF Next, vars, setupVars, runVars, ConfigureParam, ConfigureInfer, PushInput, OpenSession,
      RefuseRun, ClearRanges, ClearAll, KvCacheSize, DropSession

(***************************************************************************)
(* A slice lent to a closure is the library's buffer, neither empty nor    *)
(* longer than it, for all lengths a library may report and every width    *)
(* of usize (Output::hidden_states, Output::logits, checked_len).          *)
(***************************************************************************)
THEOREM SlicesAreWhole == Spec => []SlicesInBuffer
<1>1. Init => HeardInv /\ SlicesInBuffer
  BY DEF Init, HeardInv, HeardFields, Nothing, SlicesInBuffer
<1> QED
  BY <1>1, ProgramInit, ProgramStep, SlicesStep, PTL DEF Spec

-----------------------------------------------------------------------------
(***************************************************************************)
(* One callback in the history of a run; Speaks when it has a text for an  *)
(* entry, and Tells when an answer is the texts of a history in order.     *)
(***************************************************************************)
SaidEntries ==
  [raw : {0, 2, 3}, results : Seq(RKLLMResult) \cup {Unset}]

Speaks(entry, e) ==
  /\ entry.results # Unset
  /\ e \in DOMAIN entry.results
  /\ entry.results[e].text # Unset

SpokenIn(s, e) == {i \in DOMAIN s : Speaks(s[i], e)}

Tells(s, e, answer) ==
  /\ Len(answer) = Cardinality(SpokenIn(s, e))
  /\ \A i \in SpokenIn(s, e) :
       answer[Cardinality({j \in SpokenIn(s, e) : j <= i})] = s[i].results[e].text

(***************************************************************************)
(* An answer that tells a history still does when both get the next text,  *)
(* or neither does.                                                        *)
(***************************************************************************)
LEMMA AppendTells ==
  ASSUME NEW s \in Seq(SaidEntries), NEW entry \in SaidEntries, NEW e,
         NEW answer \in Seq(Words), Tells(s, e, answer)
  PROVE  Tells(Append(s, entry), e,
               IF Speaks(entry, e) THEN Append(answer, entry.results[e].text)
                                   ELSE answer)
<1> DEFINE t    == Append(s, entry)
           n    == Len(s)
           old  == SpokenIn(s, e)
           new  == SpokenIn(t, e)
           upto(S, i) == {j \in S : j <= i}
           text == entry.results[e].text
           next == IF Speaks(entry, e) THEN Append(answer, text) ELSE answer
<1>1. /\ n \in Nat /\ DOMAIN s = 1..n /\ DOMAIN t = 1..(n + 1)
      /\ t[n + 1] = entry /\ \A i \in 1..n : t[i] = s[i]
  OBVIOUS
<1> HIDE DEF t, n
<1>2. old \subseteq 1..n /\ new = old \cup (IF Speaks(entry, e) THEN {n + 1} ELSE {})
  <2>1. old = {i \in 1..n : Speaks(s[i], e)} /\ new = {i \in 1..(n + 1) : Speaks(t[i], e)}
    BY <1>1 DEF SpokenIn
  <2>2. \A i \in 1..(n + 1) : i \in 1..n \/ i = n + 1
    BY <1>1
  <2>3. n + 1 \in 1..(n + 1) /\ 1..n \subseteq 1..(n + 1)
    BY <1>1
  <2> HIDE DEF old, new
  <2> QED
    BY <1>1, <2>1, <2>2, <2>3
<1>3. \A i \in 1..n : t[i].results[e].text = s[i].results[e].text
  BY <1>1
<1>4. IsFiniteSet(old) /\ Cardinality(old) \in Nat
  <2>1. IsFiniteSet(1..n)
    BY <1>1, FS_Interval
  <2>2. old \in SUBSET (1..n)
    BY <1>2
  <2> HIDE DEF old
  <2>3. IsFiniteSet(old)
    BY <2>1, <2>2, FS_Subset
  <2> QED
    BY <2>3, FS_CardinalityType
<1>5. /\ Len(answer) = Cardinality(old)
      /\ \A i \in old : answer[Cardinality(upto(old, i))] = s[i].results[e].text
  BY DEF Tells
<1> HIDE DEF old, new
<1>6. \A i \in old : upto(new, i) = upto(old, i)
  BY <1>1, <1>2
<1>7. \A i \in old : Cardinality(upto(old, i)) \in 1..Len(answer)
  <2> SUFFICES ASSUME NEW i \in old
               PROVE  Cardinality(upto(old, i)) \in 1..Len(answer)
    OBVIOUS
  <2>1. upto(old, i) \subseteq old /\ i \in upto(old, i)
    BY <1>1, <1>2
  <2>2. /\ IsFiniteSet(upto(old, i)) /\ Cardinality(upto(old, i)) \in Nat
        /\ Cardinality(upto(old, i)) <= Cardinality(old)
    BY <1>4, <2>1, FS_Subset, FS_CardinalityType
  <2>3. Cardinality(upto(old, i)) # 0
    BY <2>1, <2>2, FS_EmptySet
  <2> HIDE DEF upto
  <2> QED
    BY <1>4, <1>5, <2>2, <2>3
<1>8. CASE ~Speaks(entry, e)
  <2>1. new = old /\ next = answer
    BY <1>2, <1>8
  <2>2. \A i \in new : next[Cardinality(upto(new, i))] = t[i].results[e].text
    BY <1>2, <1>3, <1>5, <2>1
  <2>3. Len(next) = Cardinality(new)
    BY <1>5, <2>1
  <2> HIDE DEF next
  <2> QED
    BY <2>2, <2>3 DEF Tells, new, next, t
<1>9. CASE Speaks(entry, e)
  <2>1. new = old \cup {n + 1} /\ n + 1 \notin old /\ next = Append(answer, text)
    BY <1>1, <1>2, <1>9
  <2>2. Cardinality(new) = Cardinality(old) + 1
    BY <1>4, <2>1, FS_AddElement
  <2>3. text \in Words
    <3>1. entry.results \in Seq(RKLLMResult)
      BY <1>9 DEF SaidEntries, Speaks
    <3>2. entry.results[e] \in RKLLMResult
      BY <1>9, <3>1 DEF Speaks
    <3> QED
      BY <1>9, <3>2 DEF RKLLMResult, Speaks
  <2>4. /\ Len(next) = Len(answer) + 1 /\ next[Len(answer) + 1] = text
        /\ \A k \in 1..Len(answer) : next[k] = answer[k]
    BY <2>1, <2>3
  <2>5. upto(new, n + 1) = new
    <3>1. \A j \in new : j <= n + 1
      BY <1>1, <1>2, <2>1
    <3> QED
      BY <3>1
  <2> HIDE DEF next, text, upto
  <2>6. ASSUME NEW i \in new
        PROVE  next[Cardinality(upto(new, i))] = t[i].results[e].text
    <3>1. CASE i \in old
      <4>1. next[Cardinality(upto(new, i))] = answer[Cardinality(upto(old, i))]
        BY <1>6, <1>7, <2>4, <3>1
      <4> QED
        BY <1>2, <1>3, <1>5, <3>1, <4>1
    <3>2. CASE i = n + 1
      <4>1. Cardinality(upto(new, i)) = Len(answer) + 1
        BY <1>5, <2>2, <2>5, <3>2
      <4> QED
        BY <1>1, <2>4, <3>2, <4>1 DEF text
    <3> QED
      BY <2>1, <3>1, <3>2
  <2>7. Len(next) = Cardinality(new)
    BY <1>5, <2>2, <2>4
  <2> QED
    BY <2>6, <2>7 DEF Tells, new, next, t, text, upto
<1> QED
  BY <1>8, <1>9

(***************************************************************************)
(* An answer after a text, or after none.                                  *)
(***************************************************************************)
Told(text, answer) == IF text = Unset THEN answer ELSE Append(answer, text)

(***************************************************************************)
(* No word of the stand-in is empty, so the closures append every text     *)
(* they are given.                                                         *)
(***************************************************************************)
LEMMA SayTells ==
  ASSUME NEW text \in Words \cup {Unset}, NEW answer
  PROVE  /\ Say(text, answer) = Told(text, answer)
         /\ Say(IF text = Unset THEN "" ELSE text, answer) = Told(text, answer)
<1>1. text # Unset => text # ""
  <2>1. /\ DOMAIN CHUNKS = 1..3
        /\ CHUNKS[1] = "Hello" /\ CHUNKS[2] = ", " /\ CHUNKS[3] = "world"
    BY DEF CHUNKS
  <2>2. CHUNKS[1] # "" /\ CHUNKS[2] # "" /\ CHUNKS[3] # ""
    BY <2>1
  <2>3. \A i \in 1..3 : i \in {1, 2, 3}
    OBVIOUS
  <2> QED
    BY <2>1, <2>2, <2>3 DEF Words
<1> QED
  BY <1>1 DEF Say, Told

(***************************************************************************)
(* The accessors of an Output and of a Chunk report the result's own text, *)
(* id, state and statistics.                                               *)
(***************************************************************************)
LEMMA OutputSays ==
  ASSUME NEW r \in RKLLMResult, NEW state, NEW answer
  PROVE  LET out == NewOutput(state, r)
         IN  /\ Say(Text(out), answer) = Told(r.text, answer)
             /\ Say(ChunkText(ToChunk(out)), answer) = Told(r.text, answer)
             /\ TokenId(out) = r.token_id /\ IsFinished(out) = (r.token_id < 0)
             /\ Perf(out) = r.perf /\ ToChunk(out).perf = r.perf
             /\ out.state = state /\ ToChunk(out).state = state
<1> DEFINE out == NewOutput(state, r)
<1>1. out.state = state /\ out.result = r /\ r # Unset
  BY ResultsAssumption DEF NewOutput
<1>2. r.text \in Words \cup {Unset} /\ r.token_id \in Int /\ r.perf \in [generate_tokens : Int]
  BY DEF RKLLMResult
<1> HIDE DEF out
<1>3. Text(out) = r.text
  BY <1>1, <1>2, ResultsAssumption DEF Text, TextBytes
<1>4. TokenId(out) = r.token_id /\ r.token_id # Unset
  BY <1>1, <1>2, UnsetAssumption DEF TokenId
<1>5. Perf(out) = r.perf
  <2>1. [generate_tokens |-> r.perf.generate_tokens] = r.perf
    BY <1>2
  <2> QED
    BY <1>1, <2>1 DEF Perf, PerfStat
<1>6. IsFinished(out) = (r.token_id < 0)
  BY <1>4 DEF IsFinished
<1>7. /\ ToChunk(out).state = state /\ ToChunk(out).perf = r.perf
      /\ ChunkText(ToChunk(out)) = IF r.text = Unset THEN "" ELSE r.text
  BY <1>1, <1>3, <1>5 DEF ToChunk, ChunkText
<1>8. Say(r.text, answer) = Told(r.text, answer)
  BY <1>2, SayTells
<1>9. Say(IF r.text = Unset THEN "" ELSE r.text, answer) = Told(r.text, answer)
  BY <1>2, SayTells
<1> QED
  BY <1>1, <1>3, <1>4, <1>5, <1>6, <1>7, <1>8, <1>9 DEF out

(***************************************************************************)
(* The shape of what a closure keeps in a run: one answer and one flag per *)
(* entry of the batch.                                                     *)
(***************************************************************************)
RunShape ==
  /\ call \in Runs /\ (call # "run_llm_batch" => n_batch = 1)
  /\ n_batch \in Nat \ {0}
  /\ DOMAIN heard = HeardFields
  /\ heard.answers \in [1..n_batch -> Seq(Words)]
  /\ heard.finished \in [1..n_batch -> BOOLEAN]

(***************************************************************************)
(* What each of the three closures adds in a callback: to the answer of an *)
(* entry its text, to the flags of a batch the entries that ended, and the *)
(* statistics when the run finished.                                       *)
(***************************************************************************)
LEMMA CollectTold ==
  ASSUME RunShape, StepWidth \in 1..n_batch, StepWidth \in {1, n_batch},
         StepState \in {"Finish", "Normal"}, Given \in [1..StepWidth -> RKLLMResult],
         NEW outputs, outputs = [i \in 1..StepWidth |-> NewOutput(StepState, Given[i])]
  PROVE  /\ Collect(outputs).answers
              = [e \in 1..n_batch |->
                   IF e \in 1..StepWidth THEN Told(Given[e].text, heard.answers[e])
                                         ELSE heard.answers[e]]
         /\ call = "run_llm_batch" =>
              Collect(outputs).finished
                = [e \in 1..n_batch |->
                     heard.finished[e]
                     \/ (e \in 1..StepWidth /\ Given[e].token_id < 0)]
         /\ call # "run_llm_batch" => Collect(outputs).finished = heard.finished
         /\ Collect(outputs).perf
              = IF StepState = "Finish" THEN Given[StepWidth].perf ELSE heard.perf
<1> DEFINE w == StepWidth
           state == StepState
           given == Given
           h == Collect(outputs)
           answers == [e \in 1..n_batch |->
                         IF e \in 1..w THEN Told(given[e].text, heard.answers[e])
                                       ELSE heard.answers[e]]
           finished == [e \in 1..n_batch |->
                          heard.finished[e] \/ (e \in 1..w /\ given[e].token_id < 0)]
           perf == IF state = "Finish" THEN given[w].perf ELSE heard.perf
<1> SUFFICES /\ h.answers = answers /\ h.perf = perf
             /\ call = "run_llm_batch" => h.finished = finished
             /\ call # "run_llm_batch" => h.finished = heard.finished
  OBVIOUS
<1> HIDE DEF w, state, given
<1>0. /\ w \in 1..n_batch /\ w \in {1, n_batch} /\ state \in {"Finish", "Normal"}
      /\ given \in [1..w -> RKLLMResult]
      /\ outputs = [i \in 1..w |-> NewOutput(state, given[i])]
  BY DEF w, state, given
<1>1. /\ w \in Nat /\ DOMAIN outputs = 1..w /\ Len(outputs) = w
      /\ \A i \in 1..w : outputs[i] = NewOutput(state, given[i]) /\ given[i] \in RKLLMResult
  BY <1>0 DEF RunShape
<1>2. \A i \in 1..w : \A a :
        /\ Say(Text(outputs[i]), a) = Told(given[i].text, a)
        /\ Say(ChunkText(ToChunk(outputs[i])), a) = Told(given[i].text, a)
        /\ IsFinished(outputs[i]) = (given[i].token_id < 0)
        /\ Perf(outputs[i]) = given[i].perf /\ ToChunk(outputs[i]).perf = given[i].perf
        /\ outputs[i].state = state /\ ToChunk(outputs[i]).state = state
  <2> SUFFICES ASSUME NEW i \in 1..w, NEW a
               PROVE  /\ Say(Text(outputs[i]), a) = Told(given[i].text, a)
                      /\ Say(ChunkText(ToChunk(outputs[i])), a) = Told(given[i].text, a)
                      /\ IsFinished(outputs[i]) = (given[i].token_id < 0)
                      /\ Perf(outputs[i]) = given[i].perf
                      /\ ToChunk(outputs[i]).perf = given[i].perf
                      /\ outputs[i].state = state /\ ToChunk(outputs[i]).state = state
    OBVIOUS
  <2> DEFINE r == given[i]
  <2>1. r \in RKLLMResult /\ outputs[i] = NewOutput(state, r)
    BY <1>1
  <2> HIDE DEF r
  <2> QED
    BY <2>1, OutputSays DEF r
<1>3. CASE call = "run_llm_batch"
  <2>1. /\ h.answers = BatchClosure(heard, outputs).answers
        /\ h.finished = BatchClosure(heard, outputs).finished
        /\ h.perf = BatchClosure(heard, outputs).perf
    BY <1>3 DEF Collect, BatchClosure, RunShape, HeardFields
  <2>2. BatchClosure(heard, outputs).answers
          = [e \in 1..n_batch |-> IF e \in 1..w THEN Say(Text(outputs[e]), heard.answers[e])
                                                ELSE heard.answers[e]]
    BY <1>1 DEF BatchClosure, RunShape, HeardFields
  <2>3. BatchClosure(heard, outputs).finished
          = [e \in 1..n_batch |-> heard.finished[e] \/ (e \in 1..w /\ IsFinished(outputs[e]))]
    BY <1>1 DEF BatchClosure, RunShape, HeardFields
  <2>4. BatchClosure(heard, outputs).perf
          = IF outputs[w].state = "Finish" THEN Perf(outputs[w]) ELSE heard.perf
    BY <1>1 DEF BatchClosure, RunShape, HeardFields, Last
  <2>5. w \in 1..w
    BY <1>1
  <2> HIDE DEF h
  <2>6. h.answers = answers
    <3>1. \A e \in 1..w :
            Say(Text(outputs[e]), heard.answers[e]) = Told(given[e].text, heard.answers[e])
      BY <1>2
    <3> QED
      BY <2>1, <2>2, <3>1
  <2>7. h.finished = finished
    <3>1. \A e \in 1..w : IsFinished(outputs[e]) = (given[e].token_id < 0)
      BY <1>2
    <3>2. \A e \in 1..n_batch :
            (heard.finished[e] \/ (e \in 1..w /\ IsFinished(outputs[e])))
              = (heard.finished[e] \/ (e \in 1..w /\ given[e].token_id < 0))
      BY <3>1
    <3>3. h.finished = [e \in 1..n_batch |->
                          heard.finished[e] \/ (e \in 1..w /\ IsFinished(outputs[e]))]
      BY <2>1, <2>3
    <3> QED
      BY <3>2, <3>3, Zenon
  <2>8. h.perf = perf
    BY <1>2, <2>1, <2>4, <2>5
  <2> HIDE DEF answers, finished, perf
  <2> QED
    BY <1>3, <2>6, <2>7, <2>8
<1>4. CASE call # "run_llm_batch"
  <2>1. n_batch = 1 /\ w = 1 /\ 1 \in 1..w
    BY <1>0, <1>4 DEF RunShape
  <2> DEFINE closure == IF call = "run_llm" THEN ChatClosure(heard, outputs[1])
                        ELSE StreamConsumer(heard, ToChunk(outputs[1]))
  <2>2. /\ h.answers = closure.answers /\ h.finished = closure.finished
        /\ h.perf = closure.perf
    BY <1>4 DEF Collect, ChatClosure, StreamConsumer, RunShape, HeardFields, Runs
  <2>3. /\ closure.answers = <<Told(given[1].text, heard.answers[1])>>
        /\ closure.finished = heard.finished
        /\ closure.perf = IF state = "Finish" THEN given[1].perf ELSE heard.perf
    BY <1>2, <2>1 DEF ChatClosure, StreamConsumer, RunShape, HeardFields
  <2>4. <<Told(given[1].text, heard.answers[1])>> = answers
    BY <2>1
  <2>5. (IF state = "Finish" THEN given[1].perf ELSE heard.perf) = perf
    BY <2>1
  <2> HIDE DEF h, closure, answers, perf
  <2> QED
    BY <1>4, <2>2, <2>3, <2>4, <2>5
<1> QED
  BY <1>3, <1>4

(***************************************************************************)
(* A callback without a result adds nothing to what was collected.         *)
(***************************************************************************)
LEMMA CollectNothing ==
  ASSUME RunShape
  PROVE  LET h == Collect(<<NewOutput("Error", Unset)>>)
         IN  /\ h.answers = heard.answers /\ h.finished = heard.finished
             /\ h.perf = heard.perf
<1> DEFINE out == NewOutput("Error", Unset)
           outputs == <<out>>
           h == Collect(outputs)
<1> SUFFICES /\ h.answers = heard.answers /\ h.finished = heard.finished
             /\ h.perf = heard.perf
  OBVIOUS
<1>1. /\ out.state = "Error" /\ Text(out) \in {Unset, ""} /\ IsFinished(out) = FALSE
      /\ TokenId(out) = Unset /\ Perf(out) = Unset
      /\ ToChunk(out).state = "Error" /\ ChunkText(ToChunk(out)) = ""
  BY DEF NewOutput, Text, TextBytes, IsFinished, TokenId, Perf, ToChunk, ChunkText
<1>2. \A a : Say(Text(out), a) = a /\ Say(ChunkText(ToChunk(out)), a) = a
  BY <1>1 DEF Say
<1> HIDE DEF out
<1>3. DOMAIN outputs = {1} /\ outputs[1] = out /\ Last(outputs) = out
  BY DEF Last
<1> HIDE DEF outputs
<1>4. CASE call = "run_llm_batch"
  <2> DEFINE closure == BatchClosure(heard, outputs)
  <2>1. /\ h.answers = closure.answers /\ h.finished = closure.finished
        /\ h.perf = closure.perf
    BY <1>4 DEF Collect, BatchClosure, RunShape, HeardFields
  <2>2. closure.answers = [e \in 1..n_batch |->
                             IF e = 1 THEN Say(Text(outputs[e]), heard.answers[e])
                                      ELSE heard.answers[e]]
    BY <1>3 DEF BatchClosure, RunShape, HeardFields
  <2>3. closure.finished = [e \in 1..n_batch |->
                              heard.finished[e] \/ (e = 1 /\ IsFinished(outputs[e]))]
    BY <1>3 DEF BatchClosure, RunShape, HeardFields
  <2>4. closure.perf = heard.perf
    BY <1>1, <1>3 DEF BatchClosure, RunShape, HeardFields
  <2> HIDE DEF h, closure
  <2>5. h.answers = heard.answers
    BY <1>2, <1>3, <2>1, <2>2 DEF RunShape
  <2>6. h.finished = heard.finished
    <3>1. \A e : ~(e = 1 /\ IsFinished(outputs[e]))
      BY <1>1, <1>3
    <3>2. \A e \in 1..n_batch : heard.finished[e] \in BOOLEAN
      BY DEF RunShape
    <3>3. \A e \in 1..n_batch :
            (heard.finished[e] \/ (e = 1 /\ IsFinished(outputs[e]))) = heard.finished[e]
      BY <3>1, <3>2
    <3>4. h.finished = [e \in 1..n_batch |-> heard.finished[e]]
      BY <2>1, <2>3, <3>3
    <3> QED
      BY <3>4 DEF RunShape
  <2> QED
    BY <2>1, <2>4, <2>5, <2>6
<1>5. CASE call # "run_llm_batch"
  <2> DEFINE closure == IF call = "run_llm" THEN ChatClosure(heard, outputs[1])
                        ELSE StreamConsumer(heard, ToChunk(outputs[1]))
  <2>1. /\ h.answers = closure.answers /\ h.finished = closure.finished
        /\ h.perf = closure.perf
    BY <1>5 DEF Collect, ChatClosure, StreamConsumer, RunShape, HeardFields, Runs
  <2>2. /\ closure.answers = <<heard.answers[1]>> /\ closure.finished = heard.finished
        /\ closure.perf = heard.perf
    BY <1>1, <1>2, <1>3 DEF ChatClosure, StreamConsumer, RunShape, HeardFields
  <2>3. <<heard.answers[1]>> = heard.answers
    BY <1>5 DEF RunShape
  <2> HIDE DEF h, closure
  <2> QED
    BY <2>1, <2>2, <2>3
<1> QED
  BY <1>4, <1>5

(***************************************************************************)
(* The inductive invariant of AnswersComplete: while a run is in flight    *)
(* it has not reported its end, and the answers have their shape.          *)
(***************************************************************************)
AnswersInv ==
  /\ said \in Seq(SaidEntries)
  /\ \A e \in DOMAIN heard.answers : heard.answers[e] \in Answers
  /\ AnswersComplete
  /\ pc = "running" =>
       /\ RunShape
       /\ heard.perf = Unset
       /\ \A i \in DOMAIN said : said[i].raw = 0

(***************************************************************************)
(* The three parts of AnswersComplete: the texts, the flags and the        *)
(* statistics.                                                             *)
(***************************************************************************)
AnswersTold == \A e \in DOMAIN heard.answers : Tells(said, e, heard.answers[e])

FinishedTold ==
  call = "run_llm_batch" => \A e \in DOMAIN heard.finished :
    heard.finished[e] <=>
      \E i \in DOMAIN said : said[i].raw = 0 /\ said[i].results[e].token_id < 0

PerfTold ==
  LET finish == {i \in DOMAIN said : said[i].raw = 2}
  IN  IF finish = {} THEN heard.perf = Unset
      ELSE heard.perf = said[CHOOSE i \in finish : TRUE].results[1].perf

(***************************************************************************)
(* AnswersComplete is the conjunction of its parts.                        *)
(***************************************************************************)
LEMMA AnswersParts == AnswersComplete <=> AnswersTold /\ FinishedTold /\ PerfTold
<1>1. \A e : SpokenIn(said, e) = Spoken(e)
  BY DEF SpokenIn, Spoken, Speaks
<1>2. AnswersTold <=>
        \A e \in DOMAIN heard.answers :
          /\ Len(heard.answers[e]) = Cardinality(Spoken(e))
          /\ \A i \in Spoken(e) :
               heard.answers[e][SaidBefore(e, i)] = said[i].results[e].text
  BY <1>1 DEF AnswersTold, Tells, SaidBefore
<1> HIDE DEF AnswersTold
<1> QED
  BY <1>2 DEF AnswersComplete, FinishedTold, PerfTold

(***************************************************************************)
(* A run starts with nothing said and nothing collected.                   *)
(***************************************************************************)
LEMMA StartTells ==
  ASSUME ProgramInv, NEW c \in Runs, StartRun(c)
  PROVE  AnswersInv'
<1>1. /\ said' = <<>> /\ heard' = Nothing(n_batch) /\ n_batch' = n_batch /\ call' = c
      /\ c # "run_llm_batch" => n_batch = 1
      /\ n_batch \in Nat \ {0}
  BY DEF StartRun, Calls, setupVars, ProgramInv, OpenInv
<1>2. /\ heard'.answers = [e \in 1..n_batch |-> <<>>]
      /\ heard'.finished = [e \in 1..n_batch |-> FALSE]
      /\ heard'.perf = Unset /\ DOMAIN heard' = HeardFields
  BY <1>1 DEF Nothing, HeardFields
<1>3. DOMAIN said' = {}
  BY <1>1
<1>4. RunShape'
  <2>1. heard'.answers \in [1..n_batch -> Seq(Words)]
    BY <1>2
  <2> QED
    BY <1>1, <1>2, <2>1 DEF RunShape
<1>5. AnswersTold'
  <2>1. \A e : SpokenIn(said', e) = {}
    BY <1>3 DEF SpokenIn
  <2>2. \A e : Tells(said', e, <<>>)
    BY <2>1, FS_EmptySet DEF Tells
  <2> QED
    BY <1>2, <2>2 DEF AnswersTold
<1>6. FinishedTold' /\ PerfTold'
  BY <1>2, <1>3 DEF FinishedTold, PerfTold
<1>7. said' \in Seq(SaidEntries)
  BY <1>1
<1>8. AnswersComplete'
  BY <1>5, <1>6, AnswersParts, PTL
<1> QED
  BY <1>2, <1>3, <1>4, <1>7, <1>8 DEF AnswersInv, Answers

(***************************************************************************)
(* The final callback ends no entry.                                       *)
(***************************************************************************)
LEMMA FinalIdIsNone ==
  ASSUME step = LastStep, layer \in Layers \cup {Unset}
  PROVE  Given[1].token_id = 0
<1> DEFINE final == [EmptyResult EXCEPT !.perf.generate_tokens = Len(CHUNKS)]
<1>1. Results(step) = <<final>>
  BY DEF Results
<1>2. final.token_id = 0
  BY DEF EmptyResult
<1>3. Plain(final)
  BY FinalIsPlain
<1> HIDE DEF final
<1>4. Given[1] = WithLayer(final)
  BY <1>1 DEF Given
<1>5. WithLayer(final).token_id = final.token_id
  BY <1>3, LayerIsBeside
<1> QED
  BY <1>2, <1>4, <1>5

(***************************************************************************)
(* A callback is collected as it was said.                                 *)
(***************************************************************************)
LEMMA CallbackTells ==
  ASSUME ProgramInv, HeardInv, AnswersInv, NEW code, CallsBack(code)
  PROVE  AnswersInv'
<1> DEFINE n == Len(said)
           entry == [raw |-> RunState(step), results |-> Given]
           answers == [e \in 1..n_batch |->
                         IF e \in 1..StepWidth THEN Told(Given[e].text, heard.answers[e])
                                               ELSE heard.answers[e]]
           finished == [e \in 1..n_batch |->
                          heard.finished[e] \/ (e \in 1..StepWidth /\ Given[e].token_id < 0)]
<1>1. /\ pc = "running" /\ OpenInv /\ RunShape /\ step \in 0..LastStep
      /\ heard.perf = Unset /\ \A i \in DOMAIN said : said[i].raw = 0
      /\ said \in Seq(SaidEntries) /\ AnswersComplete
      /\ layer \in Layers \cup {Unset}
  BY DEF CallsBack, ProgramInv, RunInv, AnswersInv, HeardInv
<1>2. /\ heard' = Collect(Trampoline(Given, RunState(step)))
      /\ said' = Append(said, entry)
      /\ call' = call /\ n_batch' = n_batch
      /\ pc' = "running" => step # LastStep
  BY <1>1, UnsetAssumption DEF CallsBack, CallbackAnswers, Given, setupVars
<1>3. /\ Given \in [1..StepWidth -> RKLLMResult] /\ Given # Unset
      /\ StepWidth \in 1..n_batch /\ StepWidth \in {1, n_batch}
      /\ Trampoline(Given, RunState(step))
           = [i \in 1..StepWidth |-> NewOutput(StepState, Given[i])]
      /\ StepState = IF step = LastStep THEN "Finish" ELSE "Normal"
  <2>1. n_batch \in Nat \ {0} /\ StepWidth \in {1, n_batch}
    BY <1>1 DEF OpenInv, StepWidth
  <2> QED
    BY <1>1, <2>1, OutputsOfStep
<1>4. RunState(step) = IF step = LastStep THEN 2 ELSE 0
  BY DEF RunState
<1>5. /\ heard'.answers = answers
      /\ call = "run_llm_batch" => heard'.finished = finished
      /\ call # "run_llm_batch" => heard'.finished = heard.finished
      /\ heard'.perf = IF StepState = "Finish" THEN Given[StepWidth].perf ELSE heard.perf
  <2> DEFINE outputs == Trampoline(Given, RunState(step))
  <2>1. heard' = Collect(outputs)
        /\ outputs = [i \in 1..StepWidth |-> NewOutput(StepState, Given[i])]
    BY <1>2, <1>3
  <2>2. StepState \in {"Finish", "Normal"}
    BY <1>3
  <2> HIDE DEF outputs
  <2> QED
    BY <1>1, <1>3, <2>1, <2>2, CollectTold DEF answers, finished
<1>6. entry \in SaidEntries
  <2>1. Given \in Seq(RKLLMResult)
    BY <1>3
  <2> QED
    BY <1>4, <2>1 DEF SaidEntries
<1>7. /\ said' \in Seq(SaidEntries) /\ n \in Nat /\ DOMAIN said = 1..n
      /\ DOMAIN said' = 1..(n + 1)
      /\ said'[n + 1] = entry /\ \A i \in 1..n : said'[i] = said[i]
  BY <1>1, <1>2, <1>6
<1> HIDE DEF n, answers, finished
<1>8. entry.raw = RunState(step) /\ entry.results = Given
  OBVIOUS
<1> HIDE DEF entry
<1>9. ASSUME NEW e \in 1..n_batch
      PROVE  answers[e] = IF Speaks(entry, e)
                          THEN Append(heard.answers[e], entry.results[e].text)
                          ELSE heard.answers[e]
  BY <1>3, <1>8, <1>9 DEF answers, Speaks, Told
<1>10. AnswersTold'
  <2>1. \A e \in 1..n_batch : heard.answers[e] \in Seq(Words) /\ Tells(said, e, heard.answers[e])
    <3>1. AnswersTold
      BY <1>1, AnswersParts
    <3> QED
      BY <1>1, <3>1 DEF AnswersTold, RunShape
  <2>2. \A e \in 1..n_batch : Tells(said', e, answers[e])
    BY <1>1, <1>2, <1>6, <1>9, <2>1, AppendTells
  <2>3. DOMAIN heard'.answers = 1..n_batch
    BY <1>5 DEF answers
  <2> QED
    BY <1>5, <2>2, <2>3 DEF AnswersTold
<1>11. FinishedTold'
  <2> SUFFICES ASSUME call = "run_llm_batch", NEW e \in 1..n_batch
               PROVE  finished[e] <=>
                        \E i \in DOMAIN said' :
                          said'[i].raw = 0 /\ said'[i].results[e].token_id < 0
    BY <1>2, <1>5 DEF FinishedTold, finished
  <2>1. heard.finished[e] <=>
          \E i \in 1..n : said[i].raw = 0 /\ said[i].results[e].token_id < 0
    <3>1. FinishedTold
      BY <1>1, AnswersParts
    <3>2. DOMAIN heard.finished = 1..n_batch
      BY <1>1 DEF RunShape
    <3> QED
      BY <1>7, <3>1, <3>2 DEF FinishedTold
  <2>2. (e \in 1..StepWidth /\ Given[e].token_id < 0)
          <=> (entry.raw = 0 /\ entry.results[e].token_id < 0)
    <3>1. CASE step = LastStep
      <4>1. StepWidth = 1 /\ Given[1].token_id = 0
        BY <1>1, <3>1, FinalIdIsNone DEF StepWidth
      <4>2. ~(e \in 1..StepWidth /\ Given[e].token_id < 0)
        BY <4>1
      <4> QED
        BY <1>4, <1>8, <3>1, <4>2
    <3>2. CASE step # LastStep
      BY <1>4, <1>8, <3>2 DEF StepWidth
    <3> QED
      BY <3>1, <3>2
  <2>3. finished[e] <=> (heard.finished[e] \/ (e \in 1..StepWidth /\ Given[e].token_id < 0))
    BY DEF finished
  <2>4. (\E i \in DOMAIN said' : said'[i].raw = 0 /\ said'[i].results[e].token_id < 0)
          <=> (\/ \E i \in 1..n : said[i].raw = 0 /\ said[i].results[e].token_id < 0
               \/ entry.raw = 0 /\ entry.results[e].token_id < 0)
    <3>1. \A i \in 1..(n + 1) : i \in 1..n \/ i = n + 1
      BY <1>7
    <3>2. n + 1 \in 1..(n + 1) /\ \A i \in 1..n : i \in 1..(n + 1)
      BY <1>7
    <3> QED
      BY <1>7, <3>1, <3>2
  <2> QED
    BY <2>1, <2>2, <2>3, <2>4
<1>12. PerfTold'
  <2> DEFINE finish == {i \in DOMAIN said' : said'[i].raw = 2}
  <2>1. finish = IF step = LastStep THEN {n + 1} ELSE {}
    <3>1. \A i \in 1..(n + 1) : i \in 1..n \/ i = n + 1
      BY <1>7
    <3>2. \A i \in 1..n : said'[i].raw # 2
      BY <1>1, <1>7
    <3>3. n + 1 \in 1..(n + 1)
      BY <1>7
    <3> QED
      BY <1>4, <1>7, <1>8, <3>1, <3>2, <3>3
  <2>2. CASE step = LastStep
    <3>1. (CHOOSE i \in finish : TRUE) = n + 1
      BY <2>1, <2>2
    <3>2. heard'.perf = Given[1].perf
      BY <1>3, <1>5, <2>2 DEF StepWidth
    <3>3. said'[n + 1].results[1].perf = Given[1].perf
      BY <1>7, <1>8
    <3>4. finish # {}
      BY <2>1, <2>2
    <3> QED
      BY <3>1, <3>2, <3>3, <3>4 DEF PerfTold
  <2>3. CASE step # LastStep
    <3>1. heard'.perf = Unset /\ finish = {}
      BY <1>1, <1>3, <1>5, <2>1, <2>3
    <3> QED
      BY <3>1 DEF PerfTold
  <2> QED
    BY <2>2, <2>3
<1>13. AnswersComplete'
  BY <1>10, <1>11, <1>12, AnswersParts, PTL
<1>14. RunShape'
  <2>1. DOMAIN heard' = HeardFields
    BY <1>1, <1>2 DEF Collect, RunShape, HeardFields, Runs, BatchClosure, ChatClosure,
                      StreamConsumer
  <2>2. answers \in [1..n_batch -> Seq(Words)]
    <3> SUFFICES ASSUME NEW e \in 1..n_batch
                 PROVE  answers[e] \in Seq(Words)
      BY DEF answers
    <3>1. heard.answers[e] \in Seq(Words)
      BY <1>1 DEF RunShape
    <3>2. Speaks(entry, e) => entry.results[e].text \in Words
      <4>1. Speaks(entry, e) => Given[e] \in RKLLMResult
        BY <1>3, <1>8 DEF Speaks
      <4> QED
        BY <1>8, <4>1 DEF Speaks, RKLLMResult
    <3>3. CASE Speaks(entry, e)
      <4> DEFINE answer == heard.answers[e]
                 text   == entry.results[e].text
      <4>1. answer \in Seq(Words) /\ text \in Words /\ answers[e] = Append(answer, text)
        BY <1>9, <3>1, <3>2, <3>3
      <4> HIDE DEF answer, text
      <4> QED
        BY <4>1
    <3> QED
      BY <1>9, <3>1, <3>3
  <2>3. heard'.finished \in [1..n_batch -> BOOLEAN]
    <3>1. finished \in [1..n_batch -> BOOLEAN]
      BY DEF finished
    <3> QED
      BY <1>1, <1>5, <3>1 DEF RunShape
  <2> QED
    BY <1>1, <1>2, <1>5, <2>1, <2>2, <2>3 DEF RunShape
<1>15. pc' = "running" => heard'.perf = Unset /\ \A i \in DOMAIN said' : said'[i].raw = 0
  <2> SUFFICES ASSUME pc' = "running"
               PROVE  heard'.perf = Unset /\ \A i \in DOMAIN said' : said'[i].raw = 0
    OBVIOUS
  <2>1. step # LastStep
    BY <1>2
  <2>2. \A i \in 1..(n + 1) : i \in 1..n \/ i = n + 1
    BY <1>7
  <2> QED
    BY <1>1, <1>3, <1>4, <1>5, <1>7, <1>8, <2>1, <2>2
<1>16. \A e \in DOMAIN heard'.answers : heard'.answers[e] \in Answers
  BY <1>14 DEF RunShape, Answers
<1> QED
  BY <1>7, <1>13, <1>14, <1>15, <1>16 DEF AnswersInv

(***************************************************************************)
(* A run that fails adds a callback that says nothing.                     *)
(***************************************************************************)
LEMMA FailureTells ==
  ASSUME ProgramInv, AnswersInv, LibraryFails
  PROVE  AnswersInv'
<1> DEFINE n == Len(said)
           entry == [raw |-> 3, results |-> Unset]
<1>1. /\ pc = "running" /\ RunShape /\ said \in Seq(SaidEntries) /\ AnswersComplete
      /\ said' = Append(said, entry) /\ call' = call /\ pc' = "open"
      /\ heard' = Collect(Trampoline(Unset, 3))
  BY DEF LibraryFails, AnswersInv, setupVars
<1>2. Trampoline(Unset, 3) = <<NewOutput("Error", Unset)>>
  BY DEF Trampoline, CallStateOf
<1>3. /\ heard'.answers = heard.answers /\ heard'.finished = heard.finished
      /\ heard'.perf = heard.perf
  BY <1>1, <1>2, CollectNothing
<1>4. entry \in SaidEntries /\ entry.raw = 3 /\ entry.results = Unset
  BY DEF SaidEntries
<1> HIDE DEF entry
<1>5. /\ said' \in Seq(SaidEntries) /\ n \in Nat /\ DOMAIN said = 1..n
      /\ DOMAIN said' = 1..(n + 1)
      /\ said'[n + 1] = entry /\ \A i \in 1..n : said'[i] = said[i]
  BY <1>1, <1>4
<1> HIDE DEF n
<1>6. AnswersTold /\ FinishedTold /\ PerfTold
  BY <1>1, AnswersParts
<1>7. /\ \A i \in 1..(n + 1) : i \in 1..n \/ i = n + 1
      /\ n + 1 \in 1..(n + 1) /\ \A i \in 1..n : i \in 1..(n + 1)
  BY <1>5
<1>8. AnswersTold'
  <2>1. \A e : ~Speaks(entry, e)
    BY <1>4 DEF Speaks
  <2>2. \A e \in DOMAIN heard.answers :
          heard.answers[e] \in Seq(Words) /\ Tells(said, e, heard.answers[e])
    BY <1>1, <1>6 DEF AnswersTold, RunShape
  <2>3. \A e \in DOMAIN heard.answers : Tells(said', e, heard.answers[e])
    BY <1>1, <1>4, <2>1, <2>2, AppendTells
  <2> QED
    BY <1>3, <2>3 DEF AnswersTold
<1>9. FinishedTold'
  BY <1>1, <1>3, <1>4, <1>5, <1>6, <1>7 DEF FinishedTold
<1>10. PerfTold'
  <2>1. {i \in DOMAIN said' : said'[i].raw = 2} = {i \in DOMAIN said : said[i].raw = 2}
    BY <1>4, <1>5, <1>7
  <2> DEFINE finish == {i \in DOMAIN said : said[i].raw = 2}
  <2>2. CASE finish = {}
    BY <1>3, <1>6, <2>1, <2>2 DEF PerfTold
  <2>3. CASE finish # {}
    <3> DEFINE last == CHOOSE i \in finish : TRUE
    <3>1. last \in finish
      BY <2>3
    <3>2. said'[last] = said[last]
      BY <1>5, <3>1
    <3>3. heard.perf = said[last].results[1].perf
      BY <1>6, <2>3 DEF PerfTold
    <3> QED
      BY <1>3, <2>1, <2>3, <3>2, <3>3 DEF PerfTold
  <2> QED
    BY <2>2, <2>3
<1>11. AnswersComplete'
  BY <1>8, <1>9, <1>10, AnswersParts, PTL
<1>12. \A e \in DOMAIN heard'.answers : heard'.answers[e] \in Answers
  BY <1>3 DEF AnswersInv
<1> QED
  BY <1>1, <1>5, <1>11, <1>12 DEF AnswersInv

(***************************************************************************)
(* Every step keeps the invariant.                                         *)
(***************************************************************************)
LEMMA AnswersStep ==
  ASSUME ProgramInv, HeardInv, AnswersInv, [Next]_vars
  PROVE  AnswersInv'
<1>1. ASSUME UNCHANGED <<said, heard, call>>, pc # "running" => pc' # "running",
             UNCHANGED n_batch \/ pc' # "running"
      PROVE  AnswersInv'
  <2>1. AnswersComplete'
    <3>1. AnswersTold /\ FinishedTold /\ PerfTold
      BY AnswersParts DEF AnswersInv
    <3>2. AnswersTold' /\ FinishedTold' /\ PerfTold'
      BY <1>1, <3>1 DEF AnswersTold, FinishedTold, PerfTold
    <3> QED
      BY <3>2, AnswersParts, PTL
  <2> QED
    BY <1>1, <2>1 DEF AnswersInv, RunShape
<1>2. CASE UNCHANGED vars
  BY <1>1, <1>2 DEF vars, setupVars, runVars
<1>3. ASSUME NEW c \in ParamChoices, ConfigureParam(c[1], c[2])
      PROVE  AnswersInv'
  BY <1>1, <1>3 DEF ConfigureParam, runVars
<1>4. ASSUME NEW c \in InferChoices, ConfigureInfer(c[1], c[2])
      PROVE  AnswersInv'
  BY <1>1, <1>4 DEF ConfigureInfer, runVars
<1>5. ASSUME NEW input, PushInput(input)
      PROVE  AnswersInv'
  BY <1>1, <1>5 DEF PushInput, runVars
<1>6. ASSUME NEW default, NEW supplied, OpenSession(default, supplied)
      PROVE  AnswersInv'
  BY <1>1, <1>6 DEF OpenSession, runVars
<1>7. ASSUME \/ \E c \in Runs : RefuseRun(c)
             \/ \E ranges \in Ranges : ClearRanges(ranges)
             \/ \E keep \in BOOLEAN : ClearAll(keep)
             \/ KvCacheSize
             \/ DropSession
      PROVE  AnswersInv'
  BY <1>1, <1>7
  DEF RefuseRun, ClearRanges, ClearAll, KvCacheSize, DropSession, Calls, setupVars, runVars
<1> QED
  BY <1>2, <1>3, <1>4, <1>5, <1>6, <1>7, StartTells, CallbackTells, FailureTells DEF Next

(***************************************************************************)
(* Nothing is collected at the start.                                      *)
(***************************************************************************)
LEMMA ProgramHeard == Init => HeardInv /\ AnswersInv /\ SlicesInBuffer
<1> SUFFICES ASSUME Init
             PROVE  HeardInv /\ AnswersInv /\ SlicesInBuffer
  OBVIOUS
<1>1. HeardInv /\ SlicesInBuffer
  BY DEF Init, HeardInv, HeardFields, Nothing, SlicesInBuffer
<1>2. /\ said = <<>> /\ pc # "running" /\ heard.perf = Unset
      /\ DOMAIN heard.answers = {} /\ DOMAIN heard.finished = {}
  BY DEF Init, Nothing
<1>3. AnswersTold /\ FinishedTold /\ PerfTold
  BY <1>2 DEF AnswersTold, FinishedTold, PerfTold
<1> QED
  BY <1>1, <1>2, <1>3, AnswersParts DEF AnswersInv

(***************************************************************************)
(* What a closure collects is what the library said, for every batch size  *)
(* and however the run ends: the texts of each entry in order and of no    *)
(* other, finished flags and statistics exactly when they were reported    *)
(* (trampoline, run_llm, batch.rs, chat.rs, stream.rs).                    *)
(***************************************************************************)
THEOREM AnswersAreComplete == Spec => []AnswersComplete
<1>1. AnswersInv => AnswersComplete
  BY DEF AnswersInv
<1> QED
  BY <1>1, ProgramInit, ProgramHeard, ProgramStep, SlicesStep, AnswersStep, PTL DEF Spec

-----------------------------------------------------------------------------
(***************************************************************************)
(* What a stand-in may have read, and what its hooks may have answered.    *)
(***************************************************************************)
SeenInputs == {ReadInput(AsRaw(input)) : input \in GoodInputs}
Tokenized == {Tokenize(ids, TokenRoom) : ids \in Encodings} \cup {Unset}
Embedded == {Embed(table, TOKENS, EmbedRoom) : table \in Tables} \cup {Unset}

(***************************************************************************)
(* FakeStates in those terms.                                              *)
(***************************************************************************)
LEMMA FakeStatesParts ==
  FakeStates = [n_batch : Nat \ {0}, tokenizer : BOOLEAN, embed : BOOLEAN,
                tokenized : Tokenized, embedded : Embedded, seen : Seq(SeenInputs),
                cleared : Ranges \cup {Unset}, cleared_keep : {0, 1}]
BY Zenon DEF FakeStates, Tokenized, Embedded, SeenInputs

(***************************************************************************)
(* A FakeState before its batch size is set.                               *)
(***************************************************************************)
FreshStates ==
  [n_batch : {0}, tokenizer : BOOLEAN, embed : BOOLEAN, tokenized : Tokenized,
   embedded : Embedded, seen : Seq(SeenInputs), cleared : Ranges \cup {Unset},
   cleared_keep : {0, 1}]

(***************************************************************************)
(* rkllm_init makes a FakeState of a fresh one.                            *)
(***************************************************************************)
LEMMA OpenedFake ==
  ASSUME NEW r \in FreshStates,
         NEW n \in Nat \ {0}, NEW tokenizer \in BOOLEAN, NEW embed \in BOOLEAN
  PROVE  [r EXCEPT !.n_batch = n, !.tokenizer = tokenizer, !.embed = embed]
           \in FakeStates
BY FakeStatesParts DEF FreshStates

(***************************************************************************)
(* The zeroed state is fresh.                                              *)
(***************************************************************************)
LEMMA NoStateIsFresh == NoState \in FreshStates
<1>1. Unset \in Tokenized /\ Unset \in Embedded /\ Unset \in Ranges \cup {Unset}
  BY DEF Tokenized, Embedded
<1>2. <<>> \in Seq(SeenInputs) /\ FALSE \in BOOLEAN
  OBVIOUS
<1> QED
  BY <1>1, <1>2 DEF NoState, FreshStates

(***************************************************************************)
(* rkllm_run makes a FakeState of a FakeState.                             *)
(***************************************************************************)
LEMMA RunFake ==
  ASSUME NEW r \in FakeStates, NEW seen \in Seq(SeenInputs),
         NEW tokenized \in Tokenized, NEW embedded \in Embedded
  PROVE  [r EXCEPT !.seen = seen, !.tokenized = tokenized, !.embedded = embedded]
           \in FakeStates
BY FakeStatesParts

(***************************************************************************)
(* rkllm_clear_kv_cache does as well.                                      *)
(***************************************************************************)
LEMMA ClearedFake ==
  ASSUME NEW r \in FakeStates, NEW keep \in {0, 1}, NEW cleared \in Ranges \cup {Unset}
  PROVE  [r EXCEPT !.cleared_keep = keep, !.cleared = cleared] \in FakeStates
BY FakeStatesParts

(***************************************************************************)
(* There is a FakeState exactly while a handle is out: from the opening to *)
(* the drop, and for ever when the program ends with ? before it.          *)
(***************************************************************************)
FakeTyped ==
  /\ IF pc \in {"open", "running"} \/ (pc = "failed" /\ n_batch > 0)
     THEN fake \in FakeStates ELSE fake = Unset
  /\ pc = "configuring" => n_batch = 0

(***************************************************************************)
(* Opening a session makes the state, or fails and makes none.             *)
(***************************************************************************)
LEMMA OpenTyped ==
  ASSUME FakeTyped, NEW default, NEW supplied, OpenSession(default, supplied), ProgramInv'
  PROVE  FakeTyped'
<1>1. CASE supplied.table = Failed
  BY <1>1 DEF OpenSession, fakeVars, FakeTyped
<1>2. CASE supplied.table # Failed
  <2> DEFINE raw == ApplyTo(param, default)
             n == IF raw.n_batch = 0 THEN 1 ELSE raw.n_batch
             tokenizer == supplied.encoding # Unset
             embed == supplied.table # Unset
  <2>1. /\ FakeInit(raw, tokenizer, embed) /\ n_batch' = n /\ pc' = "open"
    BY <1>2 DEF OpenSession
  <2>2. fake' = [NoState EXCEPT !.n_batch = n, !.tokenizer = tokenizer, !.embed = embed]
    BY <2>1 DEF FakeInit
  <2>3. n \in Nat \ {0} /\ tokenizer \in BOOLEAN /\ embed \in BOOLEAN
    BY <2>1 DEF ProgramInv, OpenInv
  <2> HIDE DEF n, tokenizer, embed
  <2>4. fake' \in FakeStates
    BY <2>2, <2>3, OpenedFake, NoStateIsFresh
  <2> QED
    BY <2>1, <2>4 DEF FakeTyped
<1> QED
  BY <1>1, <1>2

(***************************************************************************)
(* A run leaves a FakeState behind, whatever the hooks answer.             *)
(***************************************************************************)
LEMMA StartTyped ==
  ASSUME FakeTyped, NEW c \in Runs, StartRun(c), ProgramInv, ProgramInv'
  PROVE  FakeTyped'
<1> DEFINE given == [i \in 1..Len(InputsOf(c)) |-> AsRaw(inputs[i])]
           seen == [i \in 1..fake.n_batch |-> ReadInput(At(given, i))]
           tokenized == IF fake.tokenizer THEN TokenizeHook(TEXT, TokenRoom)
                                          ELSE fake.tokenized
           embedded == IF fake.embed THEN EmbedHook(TOKENS, EmbedRoom) ELSE fake.embedded
<1>1. /\ OpenInv /\ OpenInv' /\ RunInv' /\ InputsInv
      /\ RunStarts(given, TokenizeHook(TEXT, TokenRoom), EmbedHook(TOKENS, EmbedRoom))
      /\ UNCHANGED <<inputs, hooks, n_batch>> /\ fake \in FakeStates /\ pc' = "running"
  BY DEF StartRun, Calls, setupVars, ProgramInv, FakeTyped
<1>2. fake' = [fake EXCEPT !.seen = seen, !.tokenized = tokenized, !.embedded = embedded]
  BY <1>1, Zenon DEF RunStarts
<1>3. fake'.seen = seen /\ fake'.tokenized = tokenized /\ fake'.embedded = embedded
  BY <1>1, <1>2 DEF OpenInv, FakeFields
<1> HIDE DEF seen, tokenized, embedded
<1>4. seen \in Seq(SeenInputs)
  <2>1. seen = [i \in 1..n_batch |-> ReadInput(AsRaw(inputs[i]))] /\ n_batch \in 1..Len(inputs)
    BY <1>1, <1>3 DEF RunInv
  <2>2. n_batch \in Nat /\ \A i \in 1..n_batch : inputs[i] \in GoodInputs
    BY <1>1, <2>1 DEF InputsInv, GoodInputs
  <2>3. \A i \in 1..n_batch : ReadInput(AsRaw(inputs[i])) \in SeenInputs
    BY <2>2 DEF SeenInputs
  <2> QED
    BY <2>1, <2>2, <2>3
<1>5. tokenized \in Tokenized
  <2>1. /\ fake'.tokenizer => hooks.encoding.ids \in Encodings
        /\ fake'.tokenized # Unset =>
             /\ fake'.tokenizer
             /\ fake'.tokenized = Tokenize(hooks.encoding.ids, TokenRoom)
    BY <1>1 DEF OpenInv, HooksInv
  <2> QED
    BY <1>3, <2>1, Zenon DEF Tokenized
<1>6. embedded \in Embedded
  <2>1. /\ fake'.embed => hooks.table \in Tables
        /\ fake'.embedded # Unset =>
             /\ fake'.embed /\ fake'.embedded = Embed(hooks.table, TOKENS, EmbedRoom)
    BY <1>1 DEF OpenInv, HooksInv
  <2> QED
    BY <1>3, <2>1, Zenon DEF Embedded
<1>7. fake' \in FakeStates
  BY <1>1, <1>2, <1>4, <1>5, <1>6, RunFake
<1> QED
  BY <1>1, <1>7 DEF FakeTyped

(***************************************************************************)
(* Clearing the cache leaves one behind as well.                           *)
(***************************************************************************)
LEMMA ClearTyped ==
  ASSUME FakeTyped, ProgramInv', NEW keep \in {0, 1}, NEW start, NEW end,
         ClearKvCache(keep, start, end), pc = "open", pc' = "open"
  PROVE  FakeTyped'
<1> DEFINE cleared == IF start = Unset \/ end = Unset THEN Unset
                      ELSE [i \in 1..fake.n_batch |-> <<At(start, i), At(end, i)>>]
<1>1. fake \in FakeStates /\ fake' = [fake EXCEPT !.cleared_keep = keep, !.cleared = cleared]
  BY DEF ClearKvCache, FakeTyped
<1> HIDE DEF cleared
<1>2. cleared \in Ranges \cup {Unset}
  <2>1. fake'.cleared \in Ranges \cup {Unset}
    BY DEF ProgramInv, OpenInv
  <2>2. fake'.cleared = cleared
    BY <1>1, FakeStatesParts
  <2> QED
    BY <2>1, <2>2
<1> QED
  BY <1>1, <1>2, ClearedFake DEF FakeTyped

(***************************************************************************)
(* Every step keeps it.                                                    *)
(***************************************************************************)
LEMMA FakeTypedStep ==
  ASSUME FakeTyped, ProgramInv, ProgramInv', [Next]_vars
  PROVE  FakeTyped'
<1>1. pc \in {"open", "running"} => n_batch \in Nat \ {0}
  BY DEF ProgramInv, OpenInv
<1>2. ASSUME UNCHANGED <<fake, n_batch>>,
             \/ pc' = pc
             \/ pc \in {"configuring", "open"} /\ pc' = "failed"
             \/ pc = "running" /\ pc' = "open"
      PROVE  FakeTyped'
  BY <1>1, <1>2 DEF FakeTyped
<1>3. CASE UNCHANGED vars
  BY <1>2, <1>3 DEF vars, setupVars, fakeVars
<1>4. ASSUME NEW c \in ParamChoices, ConfigureParam(c[1], c[2])
      PROVE  FakeTyped'
  BY <1>2, <1>4 DEF ConfigureParam, fakeVars
<1>5. ASSUME NEW c \in InferChoices, ConfigureInfer(c[1], c[2])
      PROVE  FakeTyped'
  BY <1>2, <1>5 DEF ConfigureInfer, fakeVars
<1>6. ASSUME NEW input, PushInput(input)
      PROVE  FakeTyped'
  BY <1>2, <1>6 DEF PushInput, fakeVars
<1>7. CASE LibraryFails \/ \E name \in DOMAIN Control : CallsBack(Control[name])
  BY <1>2, <1>7 DEF LibraryFails, CallsBack, CallbackAnswers, setupVars
<1>8. CASE KvCacheSize \/ \E c \in Runs : RefuseRun(c)
  BY <1>2, <1>8 DEF KvCacheSize, RefuseRun, Calls, setupVars, fakeVars
<1>9. ASSUME NEW ranges \in Ranges, ClearRanges(ranges)
      PROVE  FakeTyped'
  <2>1. pc = "open" /\ pc' = "open" /\ n_batch' = n_batch
    BY <1>9 DEF ClearRanges, Calls, setupVars
  <2> QED
    BY <1>2, <1>9, <2>1, ClearTyped DEF ClearRanges, fakeVars
<1>10. ASSUME NEW keep \in BOOLEAN, ClearAll(keep)
       PROVE  FakeTyped'
  <2>1. pc = "open" /\ pc' = "open" /\ Flag(keep) \in {0, 1}
    BY <1>10 DEF ClearAll, Calls, Flag
  <2> QED
    BY <1>10, <2>1, ClearTyped DEF ClearAll
<1>11. CASE DropSession
  BY <1>11 DEF DropSession, Destroy, FakeTyped
<1> QED
  BY <1>3, <1>4, <1>5, <1>6, <1>7, <1>8, <1>9, <1>10, <1>11, OpenTyped, StartTyped DEF Next

(***************************************************************************)
(* An id of the stand-in is at most the number of its chunks.              *)
(***************************************************************************)
LEMMA TokenIdFits ==
  ASSUME OpenInv, step \in 0..LastStep, layer \in Layers \cup {Unset}
  PROVE  Given[1].token_id \in Int /\ Given[1].token_id <= LastStep
<1>1. /\ DOMAIN Results(step) = 1..StepWidth /\ StepWidth \in Nat \ {0}
      /\ \A i \in 1..StepWidth : Plain(Results(step)[i])
  BY ResultsArePlain
<1> DEFINE r == Results(step)[1]
<1>2. Plain(r) /\ Given[1] = WithLayer(r)
  BY <1>1 DEF Given
<1>3. LastStep = 3
  BY DEF LastStep, CHUNKS
<1>4. r.token_id <= LastStep
  <2>1. CASE step = LastStep
    <3>1. r = [EmptyResult EXCEPT !.perf.generate_tokens = Len(CHUNKS)]
      BY <2>1 DEF Results
    <3>2. r.token_id = 0
      BY <3>1 DEF EmptyResult
    <3> HIDE DEF r
    <3> QED
      BY <1>3, <3>2
  <2>2. CASE step # LastStep
    <3>1. fake.n_batch \in Nat \ {0}
      BY DEF OpenInv
    <3>2. r = EntryResult(1 - 1, step)
      BY <2>2, <3>1 DEF Results
    <3>3. r = IF step < 3 THEN [EmptyResult EXCEPT !.text = CHUNKS[step + 1], !.token_id = step + 1]
              ELSE [EmptyResult EXCEPT !.token_id = -1]
      BY <1>3, <3>2 DEF EntryResult, LastStep
    <3> HIDE DEF r
    <3>4. r.token_id \in {step + 1, -1} /\ (r.token_id = step + 1 => step < 3)
      BY <1>3, <2>2, <3>3 DEF EmptyResult
    <3> QED
      BY <1>3, <3>4
  <2> QED
    BY <2>1, <2>2
<1> HIDE DEF r
<1>5. WithLayer(r).token_id = r.token_id
  BY <1>2, LayerIsBeside
<1> QED
  BY <1>2, <1>4, <1>5 DEF Plain, RKLLMResult

(***************************************************************************)
(* The ids a closure keeps are those of tokens.                            *)
(***************************************************************************)
GeneratedTyped == heard.generated \in Seq(0..I32Max)

(***************************************************************************)
(* Only chat.rs keeps ids, and only those that are not negative.           *)
(***************************************************************************)
LEMMA CollectKeepsIds ==
  ASSUME GeneratedTyped, HeardInv, call \in Runs, NEW outputs,
         \/ TokenId(outputs[1]) = Unset
         \/ TokenId(outputs[1]) \in Int /\ TokenId(outputs[1]) <= LastStep
  PROVE  Collect(outputs).generated \in Seq(0..I32Max)
<1> DEFINE id == TokenId(outputs[1])
           ids == heard.generated
<1>1. Collect(outputs).generated
        = IF call = "run_llm" /\ IsGenerated(id) THEN Append(ids, id) ELSE ids
  BY DEF Collect, HeardInv, HeardFields, Runs, BatchClosure, ChatClosure, StreamConsumer
<1>2. ids \in Seq(0..I32Max)
  BY DEF GeneratedTyped
<1>3. LastStep \in Int /\ LastStep <= I32Max /\ I32Max \in Int
  BY BoundsAssumption DEF LastStep, CHUNKS
<1>4. IsGenerated(id) => id \in 0..I32Max
  BY <1>3 DEF IsGenerated
<1> DEFINE fits == 0..I32Max
<1> HIDE DEF id, ids, fits
<1>6. CASE call = "run_llm" /\ IsGenerated(id)
  <2>1. Append(ids, id) \in Seq(fits)
    BY <1>2, <1>4, <1>6 DEF fits
  <2> QED
    BY <1>1, <1>6, <2>1 DEF fits
<1>7. CASE ~(call = "run_llm" /\ IsGenerated(id))
  BY <1>1, <1>2, <1>7
<1> QED
  BY <1>6, <1>7

(***************************************************************************)
(* Every step keeps it.                                                    *)
(***************************************************************************)
LEMMA GeneratedStep ==
  ASSUME ProgramInv, HeardInv, GeneratedTyped, [Next]_vars
  PROVE  GeneratedTyped'
<1>1. CASE UNCHANGED heard
  BY <1>1 DEF GeneratedTyped
<1>2. ASSUME NEW c \in Runs, StartRun(c)
      PROVE  GeneratedTyped'
  BY <1>2 DEF StartRun, Nothing, GeneratedTyped
<1>3. ASSUME NEW code, CallsBack(code)
      PROVE  GeneratedTyped'
  <2> DEFINE outputs == Trampoline(Given, RunState(step))
  <2>1. OpenInv /\ step \in 0..LastStep /\ call \in Runs
        /\ layer \in Layers \cup {Unset}
    BY <1>3 DEF CallsBack, ProgramInv, RunInv, HeardInv
  <2>2. heard' = Collect(outputs)
    BY <1>3 DEF CallsBack, Given
  <2>3. /\ outputs = [i \in 1..StepWidth |-> NewOutput(StepState, Given[i])]
        /\ StepWidth \in Nat \ {0} /\ Given \in [1..StepWidth -> RKLLMResult]
    BY <2>1, OutputsOfStep
  <2> HIDE DEF outputs
  <2>4. outputs[1].result = Given[1] /\ Given[1] # Unset
    BY <2>3, ResultsAssumption DEF NewOutput
  <2>5. TokenId(outputs[1]) = Given[1].token_id
    BY <2>4 DEF TokenId
  <2>6. Given[1].token_id \in Int /\ Given[1].token_id <= LastStep
    BY <2>1, TokenIdFits
  <2>7. Collect(outputs).generated \in Seq(0..I32Max)
    BY <2>1, <2>5, <2>6, CollectKeepsIds
  <2> QED
    BY <2>2, <2>7 DEF GeneratedTyped
<1>4. CASE LibraryFails
  <2> DEFINE outputs == <<NewOutput("Error", Unset)>>
  <2>1. call \in Runs
    BY <1>4 DEF LibraryFails, ProgramInv, RunInv
  <2>2. heard' = Collect(outputs)
    BY <1>4 DEF LibraryFails, Trampoline, CallStateOf
  <2>3. TokenId(outputs[1]) = Unset
    BY DEF TokenId, NewOutput
  <2> HIDE DEF outputs
  <2>4. Collect(outputs).generated \in Seq(0..I32Max)
    BY <2>1, <2>3, CollectKeepsIds
  <2> QED
    BY <2>2, <2>4 DEF GeneratedTyped
<1> QED
  BY <1>1, <1>2, <1>3, <1>4
  DEF Next, vars, setupVars, runVars, ConfigureParam, ConfigureInfer, PushInput, OpenSession,
      RefuseRun, ClearRanges, ClearAll, KvCacheSize, DropSession

(***************************************************************************)
(* A field of an RKLLMParam is a number, a path or a null pointer.         *)
(***************************************************************************)
FieldTyped(v) == v \in Int \/ v \in Paths \cup {Unset}

(***************************************************************************)
(* The fields of a Param, each with what its setter took.                  *)
(***************************************************************************)
ParamTyped ==
  /\ DOMAIN param = Settings \cup {"model_path"}
  /\ \A f \in PlainFields \cup {"model_path"} : FieldTyped(param[f])
  /\ param.enabled_cpus \in (Int \X Int) \cup {Unset}
  /\ param.n_batch # 0

(***************************************************************************)
(* Param::new sets the path alone.                                         *)
(***************************************************************************)
LEMMA NewParamTyped ==
  ASSUME NEW p \in Paths, param = NewParam(p), param # Failed
  PROVE  ParamTyped
<1>1. param = [f \in Settings \cup {"model_path"} |->
                 IF f = "model_path" THEN p ELSE Unset]
  BY DEF NewParam
<1>2. PlainFields \subseteq Settings /\ {"n_batch", "enabled_cpus"} \subseteq Settings
  BY DEF PlainFields, Settings
<1>3. Unset # 0
  BY UnsetAssumption
<1> QED
  BY <1>1, <1>2, <1>3 DEF ParamTyped, FieldTyped

(***************************************************************************)
(* A setter that succeeds changes one field to a value of its type.        *)
(***************************************************************************)
LEMMA ConfigureTyped ==
  ASSUME ParamTyped, NEW c \in ParamChoices, ConfigureParam(c[1], c[2])
  PROVE  ParamTyped'
<1> DEFINE next == SetParam(param, c[1], c[2])
<1>1. param' = IF next = Failed THEN param ELSE next
  BY DEF ConfigureParam
<1>2. next # Failed => next = [param EXCEPT ![c[1]] = c[2]] /\ (c[1] = "n_batch" => c[2] # 0)
  BY DEF SetParam
<1>3. /\ c[1] \in Settings
      /\ c[1] \in PlainFields => c[2] \in Int
      /\ c[1] = "enabled_cpus" => c[2] \in Int \X Int
  BY SettingsAssumption
<1>4. /\ "enabled_cpus" \notin PlainFields /\ "model_path" \notin Settings
      /\ "n_batch" \in Settings /\ "enabled_cpus" \in Settings
  BY DEF PlainFields, Settings
<1>5. CASE next = Failed
  BY <1>1, <1>5 DEF ParamTyped
<1>6. CASE next # Failed
  <2> HIDE DEF next
  <2>1. /\ DOMAIN param' = Settings \cup {"model_path"}
        /\ \A f \in Settings \cup {"model_path"} :
             param'[f] = IF f = c[1] THEN c[2] ELSE param[f]
    BY <1>1, <1>2, <1>3, <1>6 DEF ParamTyped
  <2>2. PlainFields \subseteq Settings
    BY DEF PlainFields
  <2>3. \A f \in PlainFields \cup {"model_path"} : FieldTyped(param'[f])
    <3> SUFFICES ASSUME NEW f \in PlainFields \cup {"model_path"}
                 PROVE  FieldTyped(param'[f])
      OBVIOUS
    <3>1. CASE f = c[1]
      BY <1>3, <1>4, <2>1, <2>2, <3>1 DEF FieldTyped
    <3>2. CASE f # c[1]
      BY <2>1, <2>2, <3>2 DEF ParamTyped
    <3> QED
      BY <3>1, <3>2
  <2>4. param'.enabled_cpus \in (Int \X Int) \cup {Unset}
    BY <1>3, <1>4, <2>1 DEF ParamTyped
  <2>5. param'.n_batch # 0
    BY <1>2, <1>4, <1>6, <2>1 DEF ParamTyped
  <2> QED
    BY <2>1, <2>3, <2>4, <2>5 DEF ParamTyped
<1> QED
  BY <1>5, <1>6

(***************************************************************************)
(* apply_to makes an RKLLMParam of a Param and the defaults.               *)
(***************************************************************************)
LEMMA AppliedTyped ==
  ASSUME ParamTyped, NEW default \in Defaults
  PROVE  ApplyTo(param, default) \in RawParams
<1> DEFINE raw == ApplyTo(param, default)
<1>1. \A f \in RawFields : FieldTyped(default[f])
  BY SettingsAssumption DEF FieldTyped
<1>2. ASSUME NEW f \in RawFields
      PROVE  FieldTyped(raw[f])
  <2>1. CASE f \in PlainFields \cup {"model_path"}
    <3>1. f \notin {"embed_flash", "use_cross_attn"} /\ f # "enabled_cpus_num"
      BY <2>1 DEF PlainFields, Settings
    <3>2. raw[f] \in {default[f], param[f]}
      BY <1>2, <2>1, <3>1 DEF ApplyTo
    <3> QED
      BY <1>1, <2>1, <3>2 DEF ParamTyped
  <2>2. CASE f \in {"embed_flash", "use_cross_attn"}
    <3>1. raw[f] \in {default[f], 0, 1}
      BY <1>2, <2>2 DEF ApplyTo, Flag, PlainFields
    <3> QED
      BY <1>1, <3>1 DEF FieldTyped
  <2>3. CASE f \in {"enabled_cpus_num", "enabled_cpus_mask"}
    <3>1. raw[f] = default[f]
          \/ /\ param.enabled_cpus # Unset
             /\ raw[f] \in {param.enabled_cpus[1], param.enabled_cpus[2]}
      BY <1>2, <2>3 DEF ApplyTo, PlainFields, Settings
    <3>2. param.enabled_cpus # Unset =>
            param.enabled_cpus[1] \in Int /\ param.enabled_cpus[2] \in Int
      BY DEF ParamTyped
    <3> QED
      BY <1>1, <3>1, <3>2 DEF FieldTyped
  <2> QED
    BY <1>2, <2>1, <2>2, <2>3 DEF RawFields
<1>3. raw = [f \in RawFields |-> raw[f]]
  BY DEF ApplyTo
<1> HIDE DEF raw
<1>4. raw \in RawParams
  BY <1>2, <1>3 DEF RawParams, FieldTyped
<1> QED
  BY <1>4 DEF raw

(***************************************************************************)
(* The control state and the values the program builds.                    *)
(***************************************************************************)
SetupTyped ==
  /\ pc \in {"configuring", "open", "running", "failed", "closed"}
  /\ param = Failed \/ param.n_batch # 0
  /\ infer # Failed
  /\ n_batch \in Nat
  /\ (n_batch = 0) <=> (rawParam = Unset)
  /\ call \in Runs \cup {Unset}
  /\ pc = "configuring" => n_batch = 0 /\ ParamTyped

(***************************************************************************)
(* The bounds of the model.                                                *)
(***************************************************************************)
BoundsTyped == choices \in 0..MaxChoices /\ calls \in 0..MaxCalls

(***************************************************************************)
(* The types hold at the start.                                            *)
(***************************************************************************)
LEMMA SetupInit == Init => SetupTyped /\ BoundsTyped /\ FakeTyped
<1> SUFFICES ASSUME Init
             PROVE  SetupTyped /\ BoundsTyped /\ FakeTyped
  OBVIOUS
<1>1. PICK p \in Paths : param = NewParam(p)
  BY DEF Init
<1>2. param = Failed \/ ParamTyped
  BY <1>1, NewParamTyped
<1>3. infer # Failed
  BY InferAssumption DEF Init
<1>4. 0 \in 0..MaxChoices /\ 0 \in 0..MaxCalls
  BY BoundsAssumption
<1> QED
  BY <1>2, <1>3, <1>4 DEF Init, SetupTyped, BoundsTyped, FakeTyped, ParamTyped

(***************************************************************************)
(* Every step keeps the bounds.                                            *)
(***************************************************************************)
LEMMA BoundsStep == BoundsTyped /\ [Next]_vars => BoundsTyped'
<1> SUFFICES ASSUME BoundsTyped, [Next]_vars
             PROVE  BoundsTyped'
  OBVIOUS
<1>1. MaxChoices \in Nat /\ MaxCalls \in Nat
  BY BoundsAssumption
<1>2. choices' = choices \/ Chooses
  BY DEF Next, vars, setupVars, runVars, ConfigureParam, ConfigureInfer, PushInput,
         OpenSession, RefuseRun, StartRun, Calls, CallsBack, LibraryFails, ClearRanges,
         ClearAll, KvCacheSize, DropSession
<1>3. calls' = calls \/ (calls < MaxCalls /\ calls' = calls + 1)
  BY DEF Next, vars, setupVars, runVars, ConfigureParam, ConfigureInfer, PushInput,
         OpenSession, RefuseRun, StartRun, Calls, CallsBack, LibraryFails, ClearRanges,
         ClearAll, KvCacheSize, DropSession
<1> QED
  BY <1>1, <1>2, <1>3 DEF BoundsTyped, Chooses

(***************************************************************************)
(* Opening a session makes the history of what it was opened with.         *)
(***************************************************************************)
LEMMA SetupOpen ==
  ASSUME SetupTyped, NEW default \in Defaults, NEW supplied,
         OpenSession(default, supplied), ProgramInv'
  PROVE  SetupTyped'
<1>1. pc = "configuring" /\ UNCHANGED <<param, infer, call>> /\ n_batch = 0 /\ ParamTyped
  BY DEF OpenSession, runVars, SetupTyped
<1>2. CASE supplied.table = Failed
  BY <1>1, <1>2 DEF OpenSession, SetupTyped
<1>3. CASE supplied.table # Failed
  <2> DEFINE raw == ApplyTo(param, default)
  <2>1. pc' = "open" /\ rawParam' = [default |-> default, given |-> raw]
    BY <1>3 DEF OpenSession
  <2>2. raw \in RawParams
    BY <1>1, AppliedTyped
  <2> HIDE DEF raw
  <2>3. rawParam' # Unset
    <3>1. rawParam' \in GivenParams
      BY <2>1, <2>2 DEF GivenParams
    <3> QED
      BY <3>1, StructsAssumption
  <2>4. n_batch' \in Nat \ {0}
    BY <2>1 DEF ProgramInv, OpenInv
  <2> QED
    BY <1>1, <2>1, <2>3, <2>4 DEF SetupTyped
<1> QED
  BY <1>2, <1>3

(***************************************************************************)
(* Every step keeps the types of the program.                              *)
(***************************************************************************)
LEMMA SetupStep ==
  ASSUME SetupTyped, ProgramInv', [Next]_vars
  PROVE  SetupTyped'
<1>1. ASSUME UNCHANGED <<param, infer, n_batch, rawParam, call>>,
             pc' \in {pc, "open", "closed", "failed"}
      PROVE  SetupTyped'
  BY <1>1 DEF SetupTyped, ParamTyped
<1>2. CASE UNCHANGED vars
  BY <1>1, <1>2 DEF vars, setupVars, runVars
<1>3. ASSUME NEW c \in ParamChoices, ConfigureParam(c[1], c[2])
      PROVE  SetupTyped'
  <2>1. /\ pc = "configuring" /\ pc' \in {pc, "failed"}
        /\ UNCHANGED <<infer, n_batch, rawParam, call>>
    BY <1>3 DEF ConfigureParam, runVars
  <2>2. ParamTyped'
    BY <1>3, <2>1, ConfigureTyped DEF SetupTyped
  <2> QED
    BY <2>1, <2>2 DEF SetupTyped, ParamTyped
<1>4. ASSUME NEW c \in InferChoices, ConfigureInfer(c[1], c[2])
      PROVE  SetupTyped'
  <2>1. /\ pc' \in {pc, "failed"} /\ pc = "open" /\ infer' # Failed
        /\ UNCHANGED <<param, n_batch, rawParam, call>>
    BY <1>4 DEF ConfigureInfer, runVars, SetupTyped
  <2> QED
    BY <2>1 DEF SetupTyped
<1>5. ASSUME NEW input, PushInput(input)
      PROVE  SetupTyped'
  BY <1>1, <1>5 DEF PushInput, runVars
<1>6. ASSUME NEW c \in Runs, StartRun(c)
      PROVE  SetupTyped'
  BY <1>6 DEF StartRun, Calls, setupVars, SetupTyped
<1>7. CASE LibraryFails \/ \E name \in DOMAIN Control : CallsBack(Control[name])
  BY <1>1, <1>7 DEF LibraryFails, CallsBack, setupVars
<1>8. ASSUME \/ \E c \in Runs : RefuseRun(c)
             \/ \E ranges \in Ranges : ClearRanges(ranges)
             \/ \E keep \in BOOLEAN : ClearAll(keep)
             \/ KvCacheSize
             \/ DropSession
      PROVE  SetupTyped'
  BY <1>1, <1>8
  DEF RefuseRun, ClearRanges, ClearAll, KvCacheSize, DropSession, Calls, setupVars, runVars
<1> QED
  BY <1>2, <1>3, <1>4, <1>5, <1>6, <1>7, <1>8, SetupOpen DEF Next

(***************************************************************************)
(* Every variable has its type in every state; a run is in flight exactly  *)
(* while a callback is to come, and the library holds a state exactly      *)
(* while the session does (RkllmSession, FakeState).                       *)
(***************************************************************************)
THEOREM ProgramTypeCorrect == Spec => []ProgramTypeOK
<1> DEFINE TypeInv == ProgramInv /\ HeardInv /\ AnswersInv /\ SetupTyped /\ BoundsTyped
                      /\ FakeTyped /\ GeneratedTyped /\ SlicesInBuffer
<1>1. Init => TypeInv
  BY ProgramInit, ProgramHeard, SetupInit DEF Init, Nothing, GeneratedTyped
<1>2. TypeInv /\ [Next]_vars => TypeInv'
  BY ProgramStep, SlicesStep, AnswersStep, SetupStep, BoundsStep, FakeTypedStep,
     GeneratedStep
<1>3. TypeInv => ProgramTypeOK
  <2> SUFFICES ASSUME TypeInv
               PROVE  ProgramTypeOK
    OBVIOUS
  <2>1. Failed \notin ToSet(inputs)
    BY DEF ProgramInv, InputsInv, GoodInputs, ToSet
  <2>2. (step # Unset) <=> (pc = "running")
    BY UnsetAssumption DEF ProgramInv, RunInv, LastStep, CHUNKS
  <2>3. /\ fake \in FakeStates \cup {Unset}
        /\ (fake # Unset) <=> (pc \in {"open", "running"} \/ (pc = "failed" /\ n_batch > 0))
    BY StructsAssumption DEF FakeTyped
  <2> QED
    BY <2>1, <2>2, <2>3
    DEF ProgramTypeOK, SetupTyped, BoundsTyped, GeneratedTyped, AnswersInv
<1> QED
  BY <1>1, <1>2, <1>3, PTL DEF Spec
=============================================================================
