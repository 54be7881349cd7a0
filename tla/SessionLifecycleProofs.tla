----------------------- MODULE SessionLifecycleProofs -----------------------
(***************************************************************************)
(* Theorems about SessionLifecycle, for any sessions, batch sizes, library *)
(* defaults and lengths: its type invariant, the inductive invariant       *)
(* LifecycleInv and the safety properties that follow from it.             *)
(***************************************************************************)
EXTENDS SessionLifecycle, TLAPS

(***************************************************************************)
(* Every variable starts with its type, and every step keeps it.           *)
(***************************************************************************)
LEMMA InitTypeOK == Init => LifecycleTypeOK
  BY DEF Init, LifecycleTypeOK, Stages, HookKinds, NoHook, Nothing

(***************************************************************************)
(* How rkllm_init ends: with a handle and a session, or without either.    *)
(***************************************************************************)
InitCase(s, what, new, written) ==
  /\ what = "Ok" <=> new = "live"
  /\ raw[s] # 0 => written = raw[s]
  /\ hook[s] = NoHook
  /\ GoTo(s, "initializing", IF what = "Ok" THEN "session" ELSE "unwinding")
  /\ Return(s, what)
  /\ handle' = [handle EXCEPT ![s] = new]
  /\ raw' = [raw EXCEPT ![s] = written]
  /\ nBatch' = [nBatch EXCEPT
       ![s] = IF what = "Ok" THEN NBatchOf(s, written) ELSE 0]
  /\ UNCHANGED <<asked, supplied, ownedVars, registered, target, hookVars>>

LEMMA InitCases ==
  ASSUME LifecycleTypeOK, NEW s \in Sessions, InitEnds(s)
  PROVE  \E what \in {"Ok", "Status", "NullHandle"},
            new \in {"live", "none"}, written \in 0..255 :
           InitCase(s, what, new, written)
<1>1. PICK status \in {0, -1}, new \in {"live", "none"} :
        InitReturns(s, status, new) /\ (status # 0 => new = "none")
  BY DEF InitEnds
<1>2. PICK written \in (IF raw[s] = 0 THEN {0, 1} ELSE {raw[s]}) :
        /\ raw' = [raw EXCEPT ![s] = written]
        /\ nBatch' = [nBatch EXCEPT
             ![s] = IF InitResult(status, new) = "Ok"
                    THEN NBatchOf(s, written) ELSE 0]
  BY <1>1 DEF InitReturns
<1>3. InitResult(status, new) \in {"Ok", "Status", "NullHandle"}
  BY <1>1 DEF InitResult
<1>4. InitResult(status, new) = "Ok" <=> new = "live"
  BY <1>1 DEF InitResult
<1>5. written \in 0..255 /\ (raw[s] # 0 => written = raw[s])
  <2>1. raw[s] \in 0..255
    BY DEF LifecycleTypeOK
  <2>2. CASE raw[s] = 0
    BY <2>2
  <2>3. CASE raw[s] # 0
    BY <2>1, <2>3
  <2> QED  BY <2>2, <2>3
<1>6. InitCase(s, InitResult(status, new), new, written)
  BY <1>1, <1>2, <1>4, <1>5 DEF InitReturns, InitCase
<1> QED  BY <1>3, <1>5, <1>6

(***************************************************************************)
(* What the call or the return of a hook changes: which hook runs, and the *)
(* count the library is told.                                              *)
(***************************************************************************)
HookCase(s, call, answer) ==
  /\ hook' = [hook EXCEPT ![s] = call]
  /\ told' = [told EXCEPT ![s] = answer]
  /\ answer = told[s] \/ answer.count = -1 \/ answer.count \in 0..answer.room
  /\ UNCHANGED <<stage, buildVars, ownedVars, initVars>>

HookRecords == [kind : {"none"} \cup HookKinds, room : Nat]
Answers == [count : Int, room : Int]

LEMMA CallHookCases ==
  ASSUME LifecycleTypeOK, NEW s \in Sessions, CallHook(s)
  PROVE  \E call \in HookRecords, answer \in Answers :
           /\ HookCase(s, call, answer)
           /\ stage[s] \in InLibrary
           /\ call # NoHook => call.kind \in registered[s]
<1>0. /\ hook[s] \in HookRecords /\ told[s] \in Answers
      /\ hook = [hook EXCEPT ![s] = hook[s]]
      /\ told = [told EXCEPT ![s] = told[s]]
  BY DEF LifecycleTypeOK, HookRecords, Answers
<1>1. ASSUME NEW textLen \in Lens, NEW room \in Lens, NEW sound \in BOOLEAN,
             TokenizerCalled(s, textLen, room, sound)
      PROVE  \E call \in HookRecords, answer \in Answers :
               /\ HookCase(s, call, answer)
               /\ stage[s] \in InLibrary
               /\ call # NoHook => call.kind \in registered[s]
  <2>1. MayCallHook(s, "tokenizer")
        /\ UNCHANGED <<stage, buildVars, ownedVars, initVars>>
    BY <1>1 DEF TokenizerCalled
  <2>2. room \in Int
    BY LensAssumption
  <2>3. CASE sound /\ textLen >= 0 /\ room >= 0 /\ "tokenizer" \in supplied[s]
    <3> DEFINE call == [kind |-> "tokenizer", room |-> room]
    <3>1. call \in HookRecords /\ call.kind \in registered[s]
      BY <2>1, <2>2, <2>3 DEF HookRecords, HookKinds, MayCallHook
    <3>2. HookCase(s, call, told[s])
      BY <1>0, <1>1, <2>1, <2>3 DEF TokenizerCalled, IsUsize, HookCase
    <3> QED  BY <1>0, <2>1, <3>1, <3>2 DEF MayCallHook, InLibrary
  <2>4. CASE ~(sound /\ textLen >= 0 /\ room >= 0
               /\ "tokenizer" \in supplied[s])
    <3> DEFINE answer == [count |-> -1, room |-> room]
    <3>1. answer \in Answers
      BY <2>2 DEF Answers
    <3>2. HookCase(s, hook[s], answer)
      BY <1>0, <1>1, <2>1, <2>4 DEF TokenizerCalled, IsUsize, HookCase, Answer
    <3> QED  BY <1>0, <2>1, <3>1, <3>2 DEF MayCallHook, InLibrary
  <2> QED  BY <2>3, <2>4
<1>2. ASSUME NEW bytes \in Lens, NEW sound \in BOOLEAN,
             EmbeddingCalled(s, bytes, sound)
      PROVE  \E call \in HookRecords, answer \in Answers :
               /\ HookCase(s, call, answer)
               /\ stage[s] \in InLibrary
               /\ call # NoHook => call.kind \in registered[s]
  <2>1. MayCallHook(s, "embedding") /\ UNCHANGED told
        /\ UNCHANGED <<stage, buildVars, ownedVars, initVars>>
    BY <1>2 DEF EmbeddingCalled
  <2>2. PICK call \in HookRecords :
          /\ hook' = [hook EXCEPT ![s] = call]
          /\ call # NoHook => call.kind \in registered[s]
    <3>1. CASE UNCHANGED hook
      BY <1>0, <2>1, <3>1 DEF MayCallHook
    <3>2. CASE hook' = [hook EXCEPT
                 ![s] = [kind |-> "embedding", room |-> bytes \div 4]]
      <4>1. bytes \in Nat
        BY <1>2, LensAssumption DEF EmbeddingCalled, IsUsize
      <4>2. bytes \div 4 \in Nat
        BY <4>1
      <4> DEFINE new == [kind |-> "embedding", room |-> bytes \div 4]
      <4>3. new \in HookRecords
        BY <4>2 DEF HookRecords, HookKinds
      <4>4. new.kind \in registered[s]
        BY <2>1 DEF MayCallHook
      <4> QED  BY <3>2, <4>3, <4>4
    <3> QED  BY <1>2, <3>1, <3>2 DEF EmbeddingCalled
  <2>3. HookCase(s, call, told[s])
    BY <1>0, <2>1, <2>2 DEF HookCase
  <2> QED  BY <1>0, <2>1, <2>2, <2>3 DEF MayCallHook, InLibrary
<1> QED  BY <1>1, <1>2 DEF CallHook

LEMMA LeaveHookCases ==
  ASSUME LifecycleTypeOK, NEW s \in Sessions, LeaveHook(s)
  PROVE  \E answer \in Answers : HookCase(s, NoHook, answer)
<1>0. /\ hook[s] \in HookRecords /\ told[s] \in Answers
      /\ told = [told EXCEPT ![s] = told[s]]
  BY DEF LifecycleTypeOK, HookRecords, Answers
<1>1. ASSUME NEW claim \in Lens \cap Nat, TokenizerReturns(s, claim)
      PROVE  \E answer \in Answers : HookCase(s, NoHook, answer)
  <2> DEFINE count == IF Accepted(claim, hook[s].room) THEN claim ELSE -1
             answer == [count |-> count, room |-> hook[s].room]
  <2>1. hook[s].room \in Nat /\ claim \in Nat
    BY <1>0 DEF HookRecords
  <2>2. answer \in Answers /\ (count = -1 \/ count \in 0..hook[s].room)
    BY <2>1 DEF Answers, Accepted
  <2>3. HookCase(s, NoHook, answer)
    BY <1>1, <2>2 DEF TokenizerReturns, HookCase, Answer
  <2> QED  BY <2>2, <2>3
<1>2. CASE EmbeddingReturns(s)
  BY <1>0, <1>2 DEF EmbeddingReturns, HookCase
<1>3. CASE HookFails(s)
  <2> DEFINE answer == [count |-> -1, room |-> hook[s].room]
  <2>1. answer \in Answers
    BY <1>0 DEF HookRecords, Answers
  <2>2. CASE hook[s].kind = "tokenizer"
    BY <1>3, <2>1, <2>2 DEF HookFails, HookCase, Answer
  <2>3. CASE hook[s].kind # "tokenizer"
    BY <1>0, <1>3, <2>3 DEF HookFails, HookCase
  <2> QED  BY <2>2, <2>3
<1> QED  BY <1>1, <1>2, <1>3 DEF LeaveHook

(***************************************************************************)
(* What a step writes has the type of the variable it writes to.           *)
(***************************************************************************)
LEMMA NextTypeOK ==
  ASSUME LifecycleTypeOK, [Next]_vars
  PROVE  LifecycleTypeOK'
<1> USE DEF LifecycleTypeOK, Stages, HookKinds, NoHook, Nothing,
           HookRecords, Answers, GoTo,
           buildVars, ownedVars, initVars, hookVars
<1>1. ASSUME NEW s \in Sessions, AskZero(s)
      PROVE  LifecycleTypeOK'
  BY <1>1, BatchesAssumption DEF AskZero, Return
<1>2. ASSUME NEW s \in Sessions, \E n \in Batches : AskBatch(s, n)
      PROVE  LifecycleTypeOK'
  BY <1>2, BatchesAssumption DEF AskBatch
<1>3. ASSUME NEW s \in Sessions, \E kind \in HookKinds : Supply(s, kind)
      PROVE  LifecycleTypeOK'
  BY <1>3, BatchesAssumption DEF Supply
<1>4. ASSUME NEW s \in Sessions, OpenLibrary(s)
      PROVE  LifecycleTypeOK'
  BY <1>4, BatchesAssumption DEF OpenLibrary
<1>5. ASSUME NEW s \in Sessions, OpenFails(s)
      PROVE  LifecycleTypeOK'
  BY <1>5, BatchesAssumption DEF OpenFails, Return
<1>6. ASSUME NEW s \in Sessions, \E default \in Defaults : Prepare(s, default)
      PROVE  LifecycleTypeOK'
  BY <1>6, BatchesAssumption DEF Prepare
<1>7. ASSUME NEW s \in Sessions, CallInit(s)
      PROVE  LifecycleTypeOK'
  BY <1>7, BatchesAssumption DEF CallInit, Registered, HooksPlace
<1>8. ASSUME NEW s \in Sessions, InitEnds(s)
      PROVE  LifecycleTypeOK'
  <2>1. PICK what \in {"Ok", "Status", "NullHandle"},
             new \in {"live", "none"}, written \in 0..255 :
          InitCase(s, what, new, written)
    BY <1>8, InitCases
  <2> QED  BY <2>1 DEF InitCase, NBatchOf, Return
<1>9. ASSUME NEW s \in Sessions, CallHook(s)
      PROVE  LifecycleTypeOK'
  <2>1. PICK call \in HookRecords, answer \in Answers :
          /\ HookCase(s, call, answer)
          /\ stage[s] \in InLibrary
          /\ call # NoHook => call.kind \in registered[s]
    BY <1>9, CallHookCases
  <2> QED  BY <2>1 DEF HookCase
<1>10. ASSUME NEW s \in Sessions, LeaveHook(s)
      PROVE  LifecycleTypeOK'
  <2>1. PICK answer \in Answers : HookCase(s, NoHook, answer)
    BY <1>10, LeaveHookCases
  <2> QED  BY <2>1 DEF HookCase
<1>11. ASSUME NEW s \in Sessions, DropSession(s)
      PROVE  LifecycleTypeOK'
  BY <1>11, BatchesAssumption DEF DropSession, MappedAtDrop
<1>12. ASSUME NEW s \in Sessions, DestroyReturns(s)
      PROVE  LifecycleTypeOK'
  BY <1>12, BatchesAssumption DEF DestroyReturns
<1>13. ASSUME NEW s \in Sessions, CloseLibrary(s)
      PROVE  LifecycleTypeOK'
  BY <1>13, BatchesAssumption DEF CloseLibrary
<1>14. ASSUME NEW s \in Sessions, FreeHooks(s)
      PROVE  LifecycleTypeOK'
  BY <1>14, BatchesAssumption DEF FreeHooks, BoxAtEnd
<1>15. CASE UNCHANGED vars
  BY <1>15 DEF vars
<1> QED
  BY <1>1, <1>2, <1>3, <1>4, <1>5, <1>6, <1>7, <1>8,
     <1>9, <1>10, <1>11, <1>12, <1>13, <1>14, <1>15
     DEF Next, Build, Tear, Finished

(***************************************************************************)
(* What a session owns follows its stage.                                  *)
(***************************************************************************)
LEMMA NextOwnershipInv ==
  ASSUME LifecycleTypeOK, OwnershipInv, [Next]_vars
  PROVE  OwnershipInv'
<1> USE DEF LifecycleTypeOK, Stages, HookKinds, NoHook, Nothing,
           OwnershipInv, Owned, Boxed, InLibrary, GoTo,
           buildVars, ownedVars, initVars, hookVars
<1>1. ASSUME NEW s \in Sessions, AskZero(s)
      PROVE  OwnershipInv'
  BY <1>1 DEF AskZero, Return
<1>2. ASSUME NEW s \in Sessions, \E n \in Batches : AskBatch(s, n)
      PROVE  OwnershipInv'
  BY <1>2 DEF AskBatch
<1>3. ASSUME NEW s \in Sessions, \E kind \in HookKinds : Supply(s, kind)
      PROVE  OwnershipInv'
  BY <1>3 DEF Supply
<1>4. ASSUME NEW s \in Sessions, OpenLibrary(s)
      PROVE  OwnershipInv'
  BY <1>4 DEF OpenLibrary
<1>5. ASSUME NEW s \in Sessions, OpenFails(s)
      PROVE  OwnershipInv'
  BY <1>5 DEF OpenFails, Return
<1>6. ASSUME NEW s \in Sessions, \E default \in Defaults : Prepare(s, default)
      PROVE  OwnershipInv'
  BY <1>6 DEF Prepare
<1>7. ASSUME NEW s \in Sessions, CallInit(s)
      PROVE  OwnershipInv'
  BY <1>7 DEF CallInit, Registered, HooksPlace
<1>8. ASSUME NEW s \in Sessions, InitEnds(s)
      PROVE  OwnershipInv'
  <2>1. PICK what \in {"Ok", "Status", "NullHandle"},
             new \in {"live", "none"}, written \in 0..255 :
          InitCase(s, what, new, written)
    BY <1>8, InitCases
  <2> QED  BY <2>1 DEF InitCase, NBatchOf, Return
<1>9. ASSUME NEW s \in Sessions, CallHook(s)
      PROVE  OwnershipInv'
  <2>1. PICK call \in HookRecords, answer \in Answers :
          /\ HookCase(s, call, answer)
          /\ stage[s] \in InLibrary
          /\ call # NoHook => call.kind \in registered[s]
    BY <1>9, CallHookCases
  <2> QED  BY <2>1 DEF HookCase
<1>10. ASSUME NEW s \in Sessions, LeaveHook(s)
      PROVE  OwnershipInv'
  <2>1. PICK answer \in Answers : HookCase(s, NoHook, answer)
    BY <1>10, LeaveHookCases
  <2> QED  BY <2>1 DEF HookCase
<1>11. ASSUME NEW s \in Sessions, DropSession(s)
      PROVE  OwnershipInv'
  BY <1>11 DEF DropSession, MappedAtDrop
<1>12. ASSUME NEW s \in Sessions, DestroyReturns(s)
      PROVE  OwnershipInv'
  BY <1>12 DEF DestroyReturns
<1>13. ASSUME NEW s \in Sessions, CloseLibrary(s)
      PROVE  OwnershipInv'
  BY <1>13 DEF CloseLibrary
<1>14. ASSUME NEW s \in Sessions, FreeHooks(s)
      PROVE  OwnershipInv'
  BY <1>14 DEF FreeHooks, BoxAtEnd
<1>15. CASE UNCHANGED vars
  BY <1>15 DEF vars
<1> QED
  BY <1>1, <1>2, <1>3, <1>4, <1>5, <1>6, <1>7, <1>8,
     <1>9, <1>10, <1>11, <1>12, <1>13, <1>14, <1>15
     DEF Next, Build, Tear, Finished

(***************************************************************************)
(* A hook runs only while the library has the session that supplied it.    *)
(***************************************************************************)
LEMMA NextHookInv ==
  ASSUME LifecycleTypeOK, HookInv, [Next]_vars
  PROVE  HookInv'
<1> USE DEF LifecycleTypeOK, Stages, HookKinds, NoHook, Nothing,
           HookInv, InLibrary, GoTo,
           buildVars, ownedVars, initVars, hookVars
<1>1. ASSUME NEW s \in Sessions, AskZero(s)
      PROVE  HookInv'
  BY <1>1 DEF AskZero, Return
<1>2. ASSUME NEW s \in Sessions, \E n \in Batches : AskBatch(s, n)
      PROVE  HookInv'
  BY <1>2 DEF AskBatch
<1>3. ASSUME NEW s \in Sessions, \E kind \in HookKinds : Supply(s, kind)
      PROVE  HookInv'
  BY <1>3 DEF Supply
<1>4. ASSUME NEW s \in Sessions, OpenLibrary(s)
      PROVE  HookInv'
  BY <1>4 DEF OpenLibrary
<1>5. ASSUME NEW s \in Sessions, OpenFails(s)
      PROVE  HookInv'
  BY <1>5 DEF OpenFails, Return
<1>6. ASSUME NEW s \in Sessions, \E default \in Defaults : Prepare(s, default)
      PROVE  HookInv'
  BY <1>6 DEF Prepare
<1>7. ASSUME NEW s \in Sessions, CallInit(s)
      PROVE  HookInv'
  BY <1>7 DEF CallInit, Registered, HooksPlace
<1>8. ASSUME NEW s \in Sessions, InitEnds(s)
      PROVE  HookInv'
  <2>1. PICK what \in {"Ok", "Status", "NullHandle"},
             new \in {"live", "none"}, written \in 0..255 :
          InitCase(s, what, new, written)
    BY <1>8, InitCases
  <2> QED  BY <2>1 DEF InitCase, NBatchOf, Return
<1>9. ASSUME NEW s \in Sessions, CallHook(s)
      PROVE  HookInv'
  <2>1. PICK call \in HookRecords, answer \in Answers :
          /\ HookCase(s, call, answer)
          /\ stage[s] \in InLibrary
          /\ call # NoHook => call.kind \in registered[s]
    BY <1>9, CallHookCases
  <2> QED  BY <2>1 DEF HookCase
<1>10. ASSUME NEW s \in Sessions, LeaveHook(s)
      PROVE  HookInv'
  <2>1. PICK answer \in Answers : HookCase(s, NoHook, answer)
    BY <1>10, LeaveHookCases
  <2> QED  BY <2>1 DEF HookCase
<1>11. ASSUME NEW s \in Sessions, DropSession(s)
      PROVE  HookInv'
  BY <1>11 DEF DropSession, MappedAtDrop
<1>12. ASSUME NEW s \in Sessions, DestroyReturns(s)
      PROVE  HookInv'
  BY <1>12 DEF DestroyReturns
<1>13. ASSUME NEW s \in Sessions, CloseLibrary(s)
      PROVE  HookInv'
  BY <1>13 DEF CloseLibrary
<1>14. ASSUME NEW s \in Sessions, FreeHooks(s)
      PROVE  HookInv'
  BY <1>14 DEF FreeHooks, BoxAtEnd
<1>15. CASE UNCHANGED vars
  BY <1>15 DEF vars
<1> QED
  BY <1>1, <1>2, <1>3, <1>4, <1>5, <1>6, <1>7, <1>8,
     <1>9, <1>10, <1>11, <1>12, <1>13, <1>14, <1>15
     DEF Next, Build, Tear, Finished

(***************************************************************************)
(* A batch size that was asked for is what the library is given.           *)
(***************************************************************************)
LEMMA NextRawInv ==
  ASSUME LifecycleTypeOK, RawInv, [Next]_vars
  PROVE  RawInv'
<1> USE DEF LifecycleTypeOK, Stages, HookKinds, NoHook, Nothing,
           RawInv, GoTo,
           buildVars, ownedVars, initVars, hookVars
<1>1. ASSUME NEW s \in Sessions, AskZero(s)
      PROVE  RawInv'
  BY <1>1 DEF AskZero, Return
<1>2. ASSUME NEW s \in Sessions, \E n \in Batches : AskBatch(s, n)
      PROVE  RawInv'
  BY <1>2 DEF AskBatch
<1>3. ASSUME NEW s \in Sessions, \E kind \in HookKinds : Supply(s, kind)
      PROVE  RawInv'
  BY <1>3 DEF Supply
<1>4. ASSUME NEW s \in Sessions, OpenLibrary(s)
      PROVE  RawInv'
  BY <1>4 DEF OpenLibrary
<1>5. ASSUME NEW s \in Sessions, OpenFails(s)
      PROVE  RawInv'
  BY <1>5 DEF OpenFails, Return
<1>6. ASSUME NEW s \in Sessions, \E default \in Defaults : Prepare(s, default)
      PROVE  RawInv'
  BY <1>6 DEF Prepare
<1>7. ASSUME NEW s \in Sessions, CallInit(s)
      PROVE  RawInv'
  BY <1>7 DEF CallInit, Registered, HooksPlace
<1>8. ASSUME NEW s \in Sessions, InitEnds(s)
      PROVE  RawInv'
  <2>1. PICK what \in {"Ok", "Status", "NullHandle"},
             new \in {"live", "none"}, written \in 0..255 :
          InitCase(s, what, new, written)
    BY <1>8, InitCases
  <2> QED  BY <2>1 DEF InitCase, NBatchOf, Return
<1>9. ASSUME NEW s \in Sessions, CallHook(s)
      PROVE  RawInv'
  <2>1. PICK call \in HookRecords, answer \in Answers :
          /\ HookCase(s, call, answer)
          /\ stage[s] \in InLibrary
          /\ call # NoHook => call.kind \in registered[s]
    BY <1>9, CallHookCases
  <2> QED  BY <2>1 DEF HookCase
<1>10. ASSUME NEW s \in Sessions, LeaveHook(s)
      PROVE  RawInv'
  <2>1. PICK answer \in Answers : HookCase(s, NoHook, answer)
    BY <1>10, LeaveHookCases
  <2> QED  BY <2>1 DEF HookCase
<1>11. ASSUME NEW s \in Sessions, DropSession(s)
      PROVE  RawInv'
  BY <1>11 DEF DropSession, MappedAtDrop
<1>12. ASSUME NEW s \in Sessions, DestroyReturns(s)
      PROVE  RawInv'
  BY <1>12 DEF DestroyReturns
<1>13. ASSUME NEW s \in Sessions, CloseLibrary(s)
      PROVE  RawInv'
  BY <1>13 DEF CloseLibrary
<1>14. ASSUME NEW s \in Sessions, FreeHooks(s)
      PROVE  RawInv'
  BY <1>14 DEF FreeHooks, BoxAtEnd
<1>15. CASE UNCHANGED vars
  BY <1>15 DEF vars
<1> QED
  BY <1>1, <1>2, <1>3, <1>4, <1>5, <1>6, <1>7, <1>8,
     <1>9, <1>10, <1>11, <1>12, <1>13, <1>14, <1>15
     DEF Next, Build, Tear, Finished

(***************************************************************************)
(* The session has the batch size the library reads.                       *)
(***************************************************************************)
LEMMA NextBatchAgrees ==
  ASSUME LifecycleTypeOK, RawInv, BatchAgrees, [Next]_vars
  PROVE  BatchAgrees'
<1> USE DEF LifecycleTypeOK, Stages, HookKinds, NoHook, Nothing,
           RawInv, BatchAgrees, GoTo,
           buildVars, ownedVars, initVars, hookVars
<1>1. ASSUME NEW s \in Sessions, AskZero(s)
      PROVE  BatchAgrees'
  BY <1>1 DEF AskZero, Return
<1>2. ASSUME NEW s \in Sessions, \E n \in Batches : AskBatch(s, n)
      PROVE  BatchAgrees'
  BY <1>2 DEF AskBatch
<1>3. ASSUME NEW s \in Sessions, \E kind \in HookKinds : Supply(s, kind)
      PROVE  BatchAgrees'
  BY <1>3 DEF Supply
<1>4. ASSUME NEW s \in Sessions, OpenLibrary(s)
      PROVE  BatchAgrees'
  BY <1>4 DEF OpenLibrary
<1>5. ASSUME NEW s \in Sessions, OpenFails(s)
      PROVE  BatchAgrees'
  BY <1>5 DEF OpenFails, Return
<1>6. ASSUME NEW s \in Sessions, \E default \in Defaults : Prepare(s, default)
      PROVE  BatchAgrees'
  BY <1>6 DEF Prepare
<1>7. ASSUME NEW s \in Sessions, CallInit(s)
      PROVE  BatchAgrees'
  BY <1>7 DEF CallInit, Registered, HooksPlace
<1>8. ASSUME NEW s \in Sessions, InitEnds(s)
      PROVE  BatchAgrees'
  <2>1. PICK what \in {"Ok", "Status", "NullHandle"},
             new \in {"live", "none"}, written \in 0..255 :
          InitCase(s, what, new, written)
    BY <1>8, InitCases
  <2>2. /\ raw'[s] = written
        /\ stage'[s] = "session" => nBatch'[s] = NBatchOf(s, written)
    BY <2>1 DEF InitCase
  <2>3. asked[s] # Unset => written = asked[s] /\ asked[s] \in 1..255
    BY <2>1 DEF InitCase
  <2>4. \A r \in Sessions \ {s} :
          /\ stage'[r] = stage[r] /\ raw'[r] = raw[r]
          /\ nBatch'[r] = nBatch[r] /\ asked'[r] = asked[r]
    BY <2>1 DEF InitCase
  <2>5. asked'[s] = asked[s]
    BY <2>1 DEF InitCase
  <2> QED  BY <2>2, <2>3, <2>4, <2>5 DEF NBatchOf
<1>9. ASSUME NEW s \in Sessions, CallHook(s)
      PROVE  BatchAgrees'
  <2>1. PICK call \in HookRecords, answer \in Answers :
          /\ HookCase(s, call, answer)
          /\ stage[s] \in InLibrary
          /\ call # NoHook => call.kind \in registered[s]
    BY <1>9, CallHookCases
  <2> QED  BY <2>1 DEF HookCase
<1>10. ASSUME NEW s \in Sessions, LeaveHook(s)
      PROVE  BatchAgrees'
  <2>1. PICK answer \in Answers : HookCase(s, NoHook, answer)
    BY <1>10, LeaveHookCases
  <2> QED  BY <2>1 DEF HookCase
<1>11. ASSUME NEW s \in Sessions, DropSession(s)
      PROVE  BatchAgrees'
  BY <1>11 DEF DropSession, MappedAtDrop
<1>12. ASSUME NEW s \in Sessions, DestroyReturns(s)
      PROVE  BatchAgrees'
  BY <1>12 DEF DestroyReturns
<1>13. ASSUME NEW s \in Sessions, CloseLibrary(s)
      PROVE  BatchAgrees'
  BY <1>13 DEF CloseLibrary
<1>14. ASSUME NEW s \in Sessions, FreeHooks(s)
      PROVE  BatchAgrees'
  BY <1>14 DEF FreeHooks, BoxAtEnd
<1>15. CASE UNCHANGED vars
  BY <1>15 DEF vars
<1> QED
  BY <1>1, <1>2, <1>3, <1>4, <1>5, <1>6, <1>7, <1>8,
     <1>9, <1>10, <1>11, <1>12, <1>13, <1>14, <1>15
     DEF Next, Build, Tear, Finished

(***************************************************************************)
(* A count of tokens is only passed on if there is room for it.            *)
(***************************************************************************)
LEMMA NextTokens ==
  ASSUME LifecycleTypeOK, TokensWithinRoom, [Next]_vars
  PROVE  TokensWithinRoom'
<1> USE DEF LifecycleTypeOK, Stages, HookKinds, NoHook, Nothing,
           TokensWithinRoom, GoTo,
           buildVars, ownedVars, initVars, hookVars
<1>1. ASSUME NEW s \in Sessions, AskZero(s)
      PROVE  TokensWithinRoom'
  BY <1>1 DEF AskZero, Return
<1>2. ASSUME NEW s \in Sessions, \E n \in Batches : AskBatch(s, n)
      PROVE  TokensWithinRoom'
  BY <1>2 DEF AskBatch
<1>3. ASSUME NEW s \in Sessions, \E kind \in HookKinds : Supply(s, kind)
      PROVE  TokensWithinRoom'
  BY <1>3 DEF Supply
<1>4. ASSUME NEW s \in Sessions, OpenLibrary(s)
      PROVE  TokensWithinRoom'
  BY <1>4 DEF OpenLibrary
<1>5. ASSUME NEW s \in Sessions, OpenFails(s)
      PROVE  TokensWithinRoom'
  BY <1>5 DEF OpenFails, Return
<1>6. ASSUME NEW s \in Sessions, \E default \in Defaults : Prepare(s, default)
      PROVE  TokensWithinRoom'
  BY <1>6 DEF Prepare
<1>7. ASSUME NEW s \in Sessions, CallInit(s)
      PROVE  TokensWithinRoom'
  BY <1>7 DEF CallInit, Registered, HooksPlace
<1>8. ASSUME NEW s \in Sessions, InitEnds(s)
      PROVE  TokensWithinRoom'
  <2>1. PICK what \in {"Ok", "Status", "NullHandle"},
             new \in {"live", "none"}, written \in 0..255 :
          InitCase(s, what, new, written)
    BY <1>8, InitCases
  <2> QED  BY <2>1 DEF InitCase, NBatchOf, Return
<1>9. ASSUME NEW s \in Sessions, CallHook(s)
      PROVE  TokensWithinRoom'
  <2>1. PICK call \in HookRecords, answer \in Answers :
          /\ HookCase(s, call, answer)
          /\ stage[s] \in InLibrary
          /\ call # NoHook => call.kind \in registered[s]
    BY <1>9, CallHookCases
  <2> QED  BY <2>1 DEF HookCase
<1>10. ASSUME NEW s \in Sessions, LeaveHook(s)
      PROVE  TokensWithinRoom'
  <2>1. PICK answer \in Answers : HookCase(s, NoHook, answer)
    BY <1>10, LeaveHookCases
  <2> QED  BY <2>1 DEF HookCase
<1>11. ASSUME NEW s \in Sessions, DropSession(s)
      PROVE  TokensWithinRoom'
  BY <1>11 DEF DropSession, MappedAtDrop
<1>12. ASSUME NEW s \in Sessions, DestroyReturns(s)
      PROVE  TokensWithinRoom'
  BY <1>12 DEF DestroyReturns
<1>13. ASSUME NEW s \in Sessions, CloseLibrary(s)
      PROVE  TokensWithinRoom'
  BY <1>13 DEF CloseLibrary
<1>14. ASSUME NEW s \in Sessions, FreeHooks(s)
      PROVE  TokensWithinRoom'
  BY <1>14 DEF FreeHooks, BoxAtEnd
<1>15. CASE UNCHANGED vars
  BY <1>15 DEF vars
<1> QED
  BY <1>1, <1>2, <1>3, <1>4, <1>5, <1>6, <1>7, <1>8,
     <1>9, <1>10, <1>11, <1>12, <1>13, <1>14, <1>15
     DEF Next, Build, Tear, Finished
-----------------------------------------------------------------------------
(***************************************************************************)
(* The inductive invariant.                                                *)
(***************************************************************************)
THEOREM LifecycleInvariant == Spec => []LifecycleInv
<1>1. Init => LifecycleInv
  <2> SUFFICES ASSUME Init
               PROVE  LifecycleInv
    OBVIOUS
  <2>1. OwnershipInv /\ HookInv
    BY DEF Init, OwnershipInv, HookInv, Owned, Boxed, InLibrary
  <2>2. RawInv /\ BatchAgrees /\ TokensWithinRoom
    BY DEF Init, RawInv, BatchAgrees, TokensWithinRoom, Nothing
  <2> QED  BY <2>1, <2>2, InitTypeOK DEF LifecycleInv
<1>2. LifecycleInv /\ [Next]_vars => LifecycleInv'
  BY NextTypeOK, NextOwnershipInv, NextHookInv, NextRawInv, NextBatchAgrees,
     NextTokens DEF LifecycleInv
<1> QED  BY <1>1, <1>2, PTL DEF Spec

(***************************************************************************)
(* Every variable keeps its type.                                          *)
(***************************************************************************)
THEOREM LifecycleTypeCorrect == Spec => []LifecycleTypeOK
<1>1. LifecycleInv => LifecycleTypeOK
  BY DEF LifecycleInv
<1> QED  BY <1>1, LifecycleInvariant, PTL

(***************************************************************************)
(* Whoever can reach a session finds its library open, its hooks alive and *)
(* its handle live.                                                        *)
(***************************************************************************)
THEOREM WholeSession == Spec => []SessionIsWhole
<1>1. LifecycleInv => SessionIsWhole
  BY DEF LifecycleInv, OwnershipInv, HookInv, SessionIsWhole, Owned, Boxed,
         InLibrary
<1> QED  BY <1>1, LifecycleInvariant, PTL

(***************************************************************************)
(* The pointer given to rkllm_init leads every call to the hook it is for. *)
(***************************************************************************)
THEOREM HooksFound == Spec => []HookFindsItself
<1>1. LifecycleInv => HookFindsItself
  BY DEF LifecycleInv, OwnershipInv, HookInv, HookFindsItself, TargetAlive,
         Owned, Boxed, InLibrary
<1> QED  BY <1>1, LifecycleInvariant, PTL

(***************************************************************************)
(* The library is told of no token it had no room for.                     *)
(***************************************************************************)
THEOREM TokensBounded == Spec => []TokensWithinRoom
<1>1. LifecycleInv => TokensWithinRoom
  BY DEF LifecycleInv
<1> QED  BY <1>1, LifecycleInvariant, PTL

(***************************************************************************)
(* Slices are sized by the batch size that the library reads.              *)
(***************************************************************************)
THEOREM BatchSizeAgreed == Spec => []BatchAgrees
<1>1. LifecycleInv => BatchAgrees
  BY DEF LifecycleInv
<1> QED  BY <1>1, LifecycleInvariant, PTL

(***************************************************************************)
(* What is over, by drop or by failure, holds nothing.                     *)
(***************************************************************************)
THEOREM AllReleased == Spec => []NothingLeft
<1>1. LifecycleInv => NothingLeft
  BY DEF LifecycleInv, LifecycleTypeOK, OwnershipInv, HookInv, NothingLeft,
         Owned, Boxed, InLibrary, Stages
<1> QED  BY <1>1, LifecycleInvariant, PTL
-----------------------------------------------------------------------------
(***************************************************************************)
(* What LibraryContract sees of the sessions, and of a step.               *)
(***************************************************************************)
lentBar == {s \in Sessions : box[s] = "live"}
insideBar == {s \in Sessions : stage[s] \in {"initializing", "destroying"}}
busyBar == {s \in Sessions : hook[s] # NoHook}

ContractStep == Contract!Next \/ UNCHANGED <<mapped, lentBar, insideBar, busyBar, handle>>

(***************************************************************************)
(* Before rkllm_init is called a session opens the library and boxes its   *)
(* hooks, and the contract sees no more.                                   *)
(***************************************************************************)
LEMMA BuildHonoured ==
  ASSUME LifecycleInv, NEW s \in Sessions, Build(s)
  PROVE  ContractStep
<1> USE DEF LifecycleInv, LifecycleTypeOK, OwnershipInv, Owned, Boxed, InLibrary,
            GoTo, buildVars, ownedVars, initVars, hookVars
<1>1. CASE \/ AskZero(s) \/ OpenFails(s)
           \/ \E n \in Batches : AskBatch(s, n)
           \/ \E kind \in HookKinds : Supply(s, kind)
  <2>1. UNCHANGED <<mapped, lentBar, insideBar, busyBar, handle>>
    BY <1>1 DEF AskZero, OpenFails, AskBatch, Supply, lentBar, insideBar, busyBar
  <2> QED
    BY <2>1 DEF ContractStep
<1>2. CASE OpenLibrary(s)
  <2>1. Contract!Open(s)
    BY <1>2 DEF OpenLibrary, Contract!Open
  <2> QED
    BY <2>1 DEF ContractStep, Contract!Next
<1>3. ASSUME NEW default \in Defaults, Prepare(s, default)
      PROVE  ContractStep
  <2>0. box[s] # "live" /\ box' = [box EXCEPT ![s] = "live"]
    BY <1>3 DEF Prepare
  <2>1. s \notin lentBar /\ lentBar' = lentBar \cup {s}
    <3>1. \A u \in Sessions : box'[u] = "live" <=> box[u] = "live" \/ u = s
      BY <2>0
    <3> QED
      BY <2>0, <3>1 DEF lentBar
  <2>2. UNCHANGED <<mapped, insideBar, busyBar, handle>>
    BY <1>3 DEF Prepare, insideBar, busyBar
  <2>3. Contract!Lend(s)
    BY <2>1, <2>2 DEF Contract!Lend, lentBar, insideBar, busyBar
  <2> QED
    BY <2>3 DEF ContractStep, Contract!Next
<1>4. CASE CallInit(s)
  <2>0. stage[s] = "ready" /\ stage' = [stage EXCEPT ![s] = "initializing"]
    BY <1>4 DEF CallInit
  <2>1. /\ s \in mapped \cap lentBar /\ handle[s] = "none"
        /\ s \notin insideBar /\ insideBar' = insideBar \cup {s}
    <3>1. \A u \in Sessions : stage'[u] = IF u = s THEN "initializing" ELSE stage[u]
      BY <2>0
    <3>2. insideBar' = insideBar \cup {s}
      BY <3>1 DEF insideBar
    <3> QED
      BY <2>0, <3>2 DEF lentBar, insideBar
  <2>2. UNCHANGED <<mapped, lentBar, busyBar, handle>>
    BY <1>4 DEF CallInit, lentBar, busyBar
  <2>3. Contract!BeginInit(s)
    BY <2>1, <2>2 DEF Contract!BeginInit, lentBar, insideBar, busyBar
  <2> QED
    BY <2>3 DEF ContractStep, Contract!Next
<1> QED
  BY <1>1, <1>2, <1>3, <1>4 DEF Build

(***************************************************************************)
(* rkllm_init and rkllm_destroy return with no hook in flight, and with a  *)
(* handle made, not made or destroyed.                                     *)
(***************************************************************************)
LEMMA ReturnHonoured ==
  ASSUME LifecycleInv, NEW s \in Sessions, InitEnds(s) \/ DestroyReturns(s)
  PROVE  Contract!Return(s)
<1> USE DEF LifecycleInv, LifecycleTypeOK, OwnershipInv, Owned, Boxed, InLibrary,
            GoTo, ownedVars, hookVars
<1>1. CASE InitEnds(s)
  <2>1. PICK what \in {"Ok", "Status", "NullHandle"}, new \in {"live", "none"},
             written \in 0..255 : InitCase(s, what, new, written)
    BY <1>1, InitCases
  <2>2. handle[s] = "none" /\ handle' = [handle EXCEPT ![s] = new]
    BY <2>1 DEF InitCase
  <2>3. new = "none" => handle' = handle
    BY <2>2
  <2> QED
    BY <2>1, <2>2, <2>3 DEF InitCase, Contract!Return
<1>2. CASE DestroyReturns(s)
  BY <1>2 DEF DestroyReturns, Contract!Return
<1> QED
  BY <1>1, <1>2

(***************************************************************************)
(* A hook is called where the session stays whole until it answers.        *)
(***************************************************************************)
LEMMA HookHonoured ==
  ASSUME LifecycleInv, NEW s \in Sessions, CallHook(s) \/ LeaveHook(s)
  PROVE  ContractStep
<1> USE DEF LifecycleInv, LifecycleTypeOK, OwnershipInv, Owned, Boxed, InLibrary,
            buildVars, ownedVars, initVars
<1>1. CASE CallHook(s)
  <2>1. PICK call \in HookRecords, answer \in Answers :
          HookCase(s, call, answer) /\ stage[s] \in InLibrary
    BY <1>1, CallHookCases
  <2>2. hook[s] = NoHook
    BY <1>1 DEF CallHook, TokenizerCalled, EmbeddingCalled, MayCallHook
  <2>3. CASE call = NoHook
    <3>1. UNCHANGED <<mapped, lentBar, insideBar, busyBar, handle>>
      BY <2>1, <2>2, <2>3 DEF HookCase, lentBar, insideBar, busyBar
    <3> QED
      BY <3>1 DEF ContractStep
  <2>4. CASE call # NoHook
    <3>1. Contract!Call(s)
      BY <2>1, <2>2, <2>4 DEF HookCase, Contract!Call, Contract!Reachable
    <3> QED
      BY <3>1 DEF ContractStep, Contract!Next
  <2> QED
    BY <2>3, <2>4
<1>2. CASE LeaveHook(s)
  <2>1. PICK answer \in Answers : HookCase(s, NoHook, answer)
    BY <1>2, LeaveHookCases
  <2>2. hook[s] # NoHook
    BY <1>2 DEF LeaveHook, TokenizerReturns, EmbeddingReturns, HookFails, NoHook
  <2>3. Contract!Answer(s)
    BY <2>1, <2>2 DEF HookCase, Contract!Answer
  <2> QED
    BY <2>3 DEF ContractStep, Contract!Next
<1> QED
  BY <1>1, <1>2

(***************************************************************************)
(* The drop destroys the handle while all is there, and what is closed and *)
(* freed after it, or after a failed init, the library cannot reach.       *)
(***************************************************************************)
LEMMA DropHonoured ==
  ASSUME LifecycleInv, NEW s \in Sessions,
         DropSession(s) \/ CloseLibrary(s) \/ FreeHooks(s)
  PROVE  ContractStep
<1> USE DEF LifecycleInv, LifecycleTypeOK, OwnershipInv, HookInv, Owned, Boxed,
            InLibrary, GoTo, buildVars, initVars, hookVars
<1>1. CASE DropSession(s)
  <2>1. Contract!BeginDestroy(s)
    BY <1>1 DEF DropSession, MappedAtDrop, Contract!BeginDestroy
  <2> QED
    BY <2>1 DEF ContractStep, Contract!Next
<1>2. CASE CloseLibrary(s)
  <2>1. Contract!Close(s)
    BY <1>2 DEF CloseLibrary, Contract!Close, Contract!Reachable
  <2> QED
    BY <2>1 DEF ContractStep, Contract!Next
<1>3. CASE FreeHooks(s)
  <2>1. Contract!TakeBack(s)
    BY <1>3 DEF FreeHooks, BoxAtEnd, Contract!TakeBack, Contract!Reachable
  <2> QED
    BY <2>1 DEF ContractStep, Contract!Next
<1> QED
  BY <1>1, <1>2, <1>3

(***************************************************************************)
(* Building, using and dropping sessions honours LibraryContract, for any  *)
(* number of sessions over one library (with_api_and_hooks, Drop).         *)
(***************************************************************************)
THEOREM ContractHonoured == Spec => HonoursContract
<1>1. Init => Contract!Init
  BY DEF Init, Contract!Init
<1>2. LifecycleInv /\ [Next]_vars => ContractStep
  <2>1. ASSUME UNCHANGED vars
        PROVE  UNCHANGED <<mapped, lentBar, insideBar, busyBar, handle>>
    BY <2>1 DEF vars, ownedVars, initVars, hookVars, lentBar, insideBar, busyBar
  <2> QED
    BY <2>1, BuildHonoured, ReturnHonoured, HookHonoured, DropHonoured
    DEF Next, Tear, Finished, ContractStep, Contract!Next
<1>3. ContractStep => [Contract!Next]_(Contract!vars)
  BY DEF ContractStep, Contract!vars, lentBar, insideBar, busyBar
<1> QED
  BY <1>1, <1>2, <1>3, LifecycleInvariant, PTL
  DEF Spec, HonoursContract, Contract!Spec
=============================================================================
