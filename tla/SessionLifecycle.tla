-------------------------- MODULE SessionLifecycle --------------------------
(***************************************************************************)
(* Sessions from their builder to their last field (builder.rs, param.rs,   *)
(* hooks.rs and the two ends of session.rs)                                *)
(*                                                                         *)
(* A builder collects a batch size and hooks, opens the library and calls  *)
(* rkllm_init, which is told where the boxed hooks are.  Init may fail, or *)
(* succeed without a handle.  A session that came to be is moved to its    *)
(* owner, and its drop destroys the handle, closes the library and frees   *)
(* the hooks, in that order; a failed one frees the hooks, then closes.    *)
(* Several sessions open the same library, which stays mapped while one of *)
(* them holds it.                                                          *)
(*                                                                         *)
(* The library is external: from the call of rkllm_init to the return of   *)
(* rkllm_destroy it may call the hooks that were registered, with any      *)
(* arguments, and returns from neither with such a call in flight.  What a *)
(* session does in between is modelled by RkllmSession.                    *)
(***************************************************************************)
EXTENDS Integers

CONSTANTS
  Sessions,     \* the sessions that are built
  Unset,        \* a setting left alone
  Batches,      \* the batch sizes callers ask for
  Defaults,     \* n_batch in the default parameters of their libraries
  Lens          \* the i32 and u64 lengths the library passes to a hook

ASSUME UnsetAssumption == Unset \notin Nat
ASSUME BatchesAssumption == Batches \subseteq 0..255 /\ Defaults \subseteq 0..255
ASSUME LensAssumption == Lens \subseteq Int

HookKinds == {"tokenizer", "embedding"}

VARIABLES
  stage,      \* where the building or the dropping of a session is
  result,     \* what building it returned
  asked,      \* n_batch of its Param
  supplied,   \* the hooks its builder was given
  mapped,     \* the sessions that hold the library open
  box,        \* its boxed hooks: "none", "live" or "freed"
  raw,        \* n_batch of the raw parameters
  nBatch,     \* n_batch of the session
  registered, \* library: the hooks it was given
  target,     \* library: where it was told they are, "none" if nowhere
  handle,     \* library: "none", "live" or "destroyed"
  hook,       \* the hook it is calling, and the room it offered
  told        \* library: the last count of tokens it was told, and the room

buildVars == <<result, asked, supplied, nBatch>>
ownedVars == <<mapped, box>>
hookVars == <<hook, told>>
initVars == <<raw, registered, target, handle>>
vars == <<stage, buildVars, ownedVars, initVars, hookVars>>

Stages ==
  {"building", "opened", "ready",
   "initializing",  \* in rkllm_init
   "session",       \* with its owner
   "destroying",    \* in rkllm_destroy
   "closing",       \* dropping its api
   "freeing",       \* dropping its hooks
   "gone",
   "unwinding",     \* with_api_and_hooks failed and drops its hooks
   "unloading",     \* and its api
   "failed"}

NoHook == [kind |-> "none", room |-> 0]
Nothing == [count |-> -1, room |-> 0]

Init ==
  /\ stage = [s \in Sessions |-> "building"]
  /\ result = [s \in Sessions |-> "none"]
  /\ asked = [s \in Sessions |-> Unset]
  /\ supplied = [s \in Sessions |-> {}]
  /\ mapped = {}
  /\ box = [s \in Sessions |-> "none"]
  /\ raw = [s \in Sessions |-> 0]
  /\ nBatch = [s \in Sessions |-> 0]
  /\ registered = [s \in Sessions |-> {}]
  /\ target = [s \in Sessions |-> "none"]
  /\ handle = [s \in Sessions |-> "none"]
  /\ hook = [s \in Sessions |-> NoHook]
  /\ told = [s \in Sessions |-> Nothing]

GoTo(s, from, to) ==
  /\ stage[s] = from
  /\ stage' = [stage EXCEPT ![s] = to]

Return(s, what) == result' = [result EXCEPT ![s] = what]

-----------------------------------------------------------------------------
(***************************************************************************)
(* Param::n_batch refuses zero; the builder borrows the finished Param and *)
(* takes hooks in any order.                                               *)
(***************************************************************************)
AskZero(s) ==
  /\ 0 \in Batches
  /\ supplied[s] = {}
  /\ GoTo(s, "building", "failed")
  /\ Return(s, "ZeroBatch")
  /\ UNCHANGED <<asked, supplied, nBatch, ownedVars, initVars, hookVars>>

AskBatch(s, n) ==
  /\ stage[s] = "building"
  /\ supplied[s] = {}
  /\ n # 0
  /\ asked' = [asked EXCEPT ![s] = n]
  /\ UNCHANGED <<stage, result, supplied, nBatch, ownedVars, initVars, hookVars>>

Supply(s, kind) ==
  /\ stage[s] = "building"
  /\ supplied' = [supplied EXCEPT ![s] = @ \cup {kind}]
  /\ UNCHANGED <<stage, result, asked, nBatch, ownedVars, initVars, hookVars>>

(***************************************************************************)
(* open_library, or new_with_library for a plain session.                  *)
(***************************************************************************)
OpenLibrary(s) ==
  /\ GoTo(s, "building", "opened")
  /\ mapped' = mapped \cup {s}
  /\ UNCHANGED <<buildVars, box, initVars, hookVars>>

OpenFails(s) ==
  /\ GoTo(s, "building", "failed")
  /\ Return(s, "Load")
  /\ UNCHANGED <<asked, supplied, nBatch, ownedVars, initVars, hookVars>>

(***************************************************************************)
(* with_api_and_hooks: the settings over the library's defaults, the hooks *)
(* in a box, and rkllm_init with what was supplied and where it is.        *)
(***************************************************************************)
\* Mutant: every hook is registered.
Registered_All(s) == HookKinds
Registered(s) == supplied[s]

\* Mutant: the hooks are not boxed.
HooksPlace_Inline == "frame"
HooksPlace == "box"

Prepare(s, default) ==
  /\ GoTo(s, "opened", "ready")
  /\ raw' = [raw EXCEPT ![s] = IF asked[s] = Unset THEN default ELSE asked[s]]
  /\ box' = [box EXCEPT ![s] = "live"]
  /\ UNCHANGED <<buildVars, mapped, registered, target, handle, hookVars>>

CallInit(s) ==
  /\ GoTo(s, "ready", "initializing")
  /\ registered' = [registered EXCEPT ![s] = Registered(s)]
  /\ target' = [target EXCEPT
       ![s] = IF Registered(s) = {} THEN "none" ELSE HooksPlace]
  /\ UNCHANGED <<buildVars, ownedVars, raw, handle, hookVars>>

\* Mutant: the batch size is taken from the Param.
NBatchOf_Param(s, n) == IF asked[s] = Unset THEN 1 ELSE asked[s]
NBatchOf(s, n) == IF n = 0 THEN 1 ELSE n

\* Mutant: a null handle is not noticed.
InitResult_NoNullCheck(status, new) == IF status = 0 THEN "Ok" ELSE "Status"
InitResult(status, new) ==
  CASE status # 0    -> "Status"
    [] new = "none"  -> "NullHandle"
    [] OTHER         -> "Ok"

InitReturns(s, status, new) ==
  LET what == InitResult(status, new)
      n == IF raw[s] = 0 THEN {0, 1} ELSE {raw[s]}
  IN
  /\ hook[s] = NoHook
  /\ GoTo(s, "initializing", IF what = "Ok" THEN "session" ELSE "unwinding")
  /\ Return(s, what)
  /\ handle' = [handle EXCEPT ![s] = new]
  /\ \E written \in n :
       /\ raw' = [raw EXCEPT ![s] = written]
       /\ nBatch' = [nBatch EXCEPT
            ![s] = IF what = "Ok" THEN NBatchOf(s, written) ELSE 0]
  /\ UNCHANGED <<asked, supplied, ownedVars, registered, target, hookVars>>

-----------------------------------------------------------------------------
(***************************************************************************)
(* The library calls a hook.  The trampolines refuse null pointers, text   *)
(* that is not UTF-8 and a misaligned float buffer (all three: arguments   *)
(* that are not sound), lengths that are no usize, a hook that was not     *)
(* supplied, and a buffer that ends in a part of a float; then they enter  *)
(* the closure.                                                            *)
(***************************************************************************)
\* Mutant: a negative length is not refused.
IsUsize_Any(length) == TRUE
IsUsize(length) == length >= 0

MayCallHook(s, kind) ==
  /\ stage[s] \in {"initializing", "session", "destroying"}
  /\ kind \in registered[s]
  /\ hook[s] = NoHook

Answer(s, count, room) ==
  told' = [told EXCEPT ![s] = [count |-> count, room |-> room]]

TokenizerCalled(s, textLen, room, sound) ==
  /\ MayCallHook(s, "tokenizer")
  /\ IF sound /\ IsUsize(textLen) /\ IsUsize(room)
        /\ "tokenizer" \in supplied[s]
     THEN hook' = [hook EXCEPT ![s] = [kind |-> "tokenizer", room |-> room]]
          /\ UNCHANGED told
     ELSE Answer(s, -1, room) /\ UNCHANGED hook
  /\ UNCHANGED <<stage, buildVars, ownedVars, initVars>>

EmbeddingCalled(s, bytes, sound) ==
  /\ MayCallHook(s, "embedding")
  /\ IsUsize(bytes)
  /\ IF sound /\ bytes % 4 = 0 /\ "embedding" \in supplied[s]
     THEN hook' = [hook EXCEPT
            ![s] = [kind |-> "embedding", room |-> bytes \div 4]]
     ELSE UNCHANGED hook
  /\ UNCHANGED <<stage, buildVars, ownedVars, initVars, told>>

(***************************************************************************)
(* The closure returns, with any claim, or panics, which is caught.        *)
(***************************************************************************)
\* Mutant: the claim is passed on.
Accepted_Any(claim, room) == TRUE
Accepted(claim, room) == claim <= room

TokenizerReturns(s, claim) ==
  /\ hook[s].kind = "tokenizer"
  /\ Answer(s, IF Accepted(claim, hook[s].room) THEN claim ELSE -1,
            hook[s].room)
  /\ hook' = [hook EXCEPT ![s] = NoHook]
  /\ UNCHANGED <<stage, buildVars, ownedVars, initVars>>

HookFails(s) ==
  /\ hook[s] # NoHook
  /\ IF hook[s].kind = "tokenizer" THEN Answer(s, -1, hook[s].room)
                                   ELSE UNCHANGED told
  /\ hook' = [hook EXCEPT ![s] = NoHook]
  /\ UNCHANGED <<stage, buildVars, ownedVars, initVars>>

EmbeddingReturns(s) ==
  /\ hook[s].kind = "embedding"
  /\ hook' = [hook EXCEPT ![s] = NoHook]
  /\ UNCHANGED <<stage, buildVars, ownedVars, initVars, told>>

-----------------------------------------------------------------------------
(***************************************************************************)
(* Drop: the handle first, then the fields in the order they are declared. *)
(***************************************************************************)
\* Mutant: the api is dropped before the handle is destroyed.
MappedAtDrop_Closed(s) == mapped \ {s}
MappedAtDrop(s) == mapped

DropSession(s) ==
  /\ GoTo(s, "session", "destroying")
  /\ mapped' = MappedAtDrop(s)
  /\ UNCHANGED <<buildVars, box, initVars, hookVars>>

DestroyReturns(s) ==
  /\ hook[s] = NoHook
  /\ GoTo(s, "destroying", "closing")
  /\ handle' = [handle EXCEPT ![s] = "destroyed"]
  /\ UNCHANGED <<buildVars, ownedVars, raw, registered, target, hookVars>>

CloseLibrary(s) ==
  /\ GoTo(s, "closing", "freeing") \/ GoTo(s, "unloading", "failed")
  /\ mapped' = mapped \ {s}
  /\ UNCHANGED <<buildVars, box, initVars, hookVars>>

\* Mutant: the box is leaked.
BoxAtEnd_Leaked(s) == box[s]
BoxAtEnd(s) == "freed"

FreeHooks(s) ==
  /\ GoTo(s, "freeing", "gone") \/ GoTo(s, "unwinding", "unloading")
  /\ box' = [box EXCEPT ![s] = BoxAtEnd(s)]
  /\ UNCHANGED <<buildVars, mapped, initVars, hookVars>>

Finished ==
  /\ \A s \in Sessions : stage[s] \in {"gone", "failed"}
  /\ UNCHANGED vars

-----------------------------------------------------------------------------
Build(s) ==
  \/ AskZero(s)
  \/ \E n \in Batches : AskBatch(s, n)
  \/ \E kind \in HookKinds : Supply(s, kind)
  \/ OpenLibrary(s)
  \/ OpenFails(s)
  \/ \E default \in Defaults : Prepare(s, default)
  \/ CallInit(s)

CallHook(s) ==
  \/ \E textLen, room \in Lens, sound \in BOOLEAN :
       TokenizerCalled(s, textLen, room, sound)
  \/ \E bytes \in Lens, sound \in BOOLEAN : EmbeddingCalled(s, bytes, sound)

LeaveHook(s) ==
  \/ \E claim \in Lens \cap Nat : TokenizerReturns(s, claim)
  \/ EmbeddingReturns(s)
  \/ HookFails(s)

InitEnds(s) ==
  \/ InitReturns(s, 0, "live")
  \/ InitReturns(s, 0, "none")
  \/ InitReturns(s, -1, "none")

Tear(s) ==
  DropSession(s) \/ DestroyReturns(s) \/ CloseLibrary(s) \/ FreeHooks(s)

Next ==
  \/ \E s \in Sessions :
       Build(s) \/ InitEnds(s) \/ CallHook(s) \/ LeaveHook(s) \/ Tear(s)
  \/ Finished

Spec == Init /\ [][Next]_vars

-----------------------------------------------------------------------------
(***************************************************************************)
(* Type correctness.                                                       *)
(***************************************************************************)
LifecycleTypeOK ==
  /\ stage \in [Sessions -> Stages]
  /\ result \in [Sessions -> {"none", "Ok", "ZeroBatch", "Load", "Status",
                              "NullHandle"}]
  /\ asked \in [Sessions -> {Unset} \cup 1..255]
  /\ supplied \in [Sessions -> SUBSET HookKinds]
  /\ mapped \subseteq Sessions
  /\ box \in [Sessions -> {"none", "live", "freed"}]
  /\ raw \in [Sessions -> 0..255]
  /\ nBatch \in [Sessions -> 0..255]
  /\ registered \in [Sessions -> SUBSET HookKinds]
  /\ target \in [Sessions -> {"none", "box", "frame"}]
  /\ handle \in [Sessions -> {"none", "live", "destroyed"}]
  /\ hook \in [Sessions -> [kind : {"none"} \cup HookKinds, room : Nat]]
  /\ told \in [Sessions -> [count : Int, room : Int]]

InLibrary == {"initializing", "session", "destroying"}

(***************************************************************************)
(* From the call of rkllm_init to the return of rkllm_destroy a session    *)
(* holds the library open, its box of hooks is alive, and the library has  *)
(* exactly the hooks that were supplied; and what its owner gets, and its  *)
(* drop destroys, is a live handle, never a null one (with_api_and_hooks,  *)
(* Drop and the order of the fields).                                      *)
(***************************************************************************)
SessionIsWhole ==
  \A s \in Sessions :
    /\ stage[s] \in InLibrary =>
         s \in mapped /\ box[s] = "live" /\ registered[s] = supplied[s]
    /\ stage[s] \in {"session", "destroying"} => handle[s] = "live"

(***************************************************************************)
(* A hook that is running finds itself behind the pointer the library was  *)
(* given at init, also after the session was moved to its owner (the SAFETY*)
(* comments of both trampolines).                                          *)
(***************************************************************************)
TargetAlive(s) ==
  \/ target[s] = "box" /\ box[s] = "live"
  \/ target[s] = "frame" /\ stage[s] = "initializing"

HookFindsItself ==
  \A s \in Sessions : hook[s] # NoHook =>
    TargetAlive(s) /\ hook[s].kind \in supplied[s] /\ s \in mapped

(***************************************************************************)
(* The library is never told of more tokens than it offered room for, and  *)
(* never of a negative count other than a failure (tokenizer_trampoline).  *)
(***************************************************************************)
TokensWithinRoom ==
  \A s \in Sessions :
    told[s].count = -1 \/ told[s].count \in 0..told[s].room

(***************************************************************************)
(* The session sizes its slices by what the library reads per call, which  *)
(* is the size asked for, or else this library's default (the read-back in *)
(* with_api_and_hooks; RkllmSession relies on NBatch being positive).      *)
(***************************************************************************)
BatchAgrees ==
  \A s \in Sessions : stage[s] = "session" =>
    /\ nBatch[s] >= 1
    /\ nBatch[s] = IF raw[s] = 0 THEN 1 ELSE raw[s]
    /\ asked[s] # Unset => nBatch[s] = asked[s]

(***************************************************************************)
(* A session that is gone, or never came to be, leaves no live handle, no  *)
(* hooks and no reference to the library, and its builder reported what    *)
(* happened.                                                               *)
(***************************************************************************)
NothingLeft ==
  \A s \in Sessions : stage[s] \in {"gone", "failed"} =>
    /\ handle[s] # "live" /\ box[s] # "live" /\ s \notin mapped
    /\ hook[s] = NoHook
    /\ result[s] = "Ok" <=> handle[s] = "destroyed"

(***************************************************************************)
(* The inductive invariant behind the safety properties: what a session    *)
(* owns, what the library has of it and what its builder reported is each  *)
(* decided by its stage, and a hook only runs while the library has the    *)
(* session (the two ends of session.rs).                                   *)
(***************************************************************************)
Owned == InLibrary \cup {"opened", "ready", "closing", "unwinding", "unloading"}
Boxed == InLibrary \cup {"ready", "closing", "freeing", "unwinding"}

OwnershipInv ==
  \A s \in Sessions :
    /\ s \in mapped <=> stage[s] \in Owned
    /\ box[s] = "live" <=> stage[s] \in Boxed
    /\ handle[s] = "live" <=> stage[s] \in {"session", "destroying"}
    /\ handle[s] = "destroyed" <=> stage[s] \in {"closing", "freeing", "gone"}
    /\ result[s] = "Ok" <=>
         stage[s] \in {"session", "destroying", "closing", "freeing", "gone"}

HookInv ==
  \A s \in Sessions :
    /\ stage[s] \in InLibrary =>
         /\ registered[s] = supplied[s]
         /\ registered[s] # {} => target[s] = "box"
    /\ hook[s] # NoHook =>
         stage[s] \in InLibrary /\ hook[s].kind \in registered[s]

RawInv ==
  \A s \in Sessions :
    stage[s] \in {"ready", "initializing"} /\ asked[s] # Unset =>
      raw[s] = asked[s]

LifecycleInv ==
  /\ LifecycleTypeOK /\ OwnershipInv /\ HookInv /\ RawInv
  /\ BatchAgrees /\ TokensWithinRoom

(***************************************************************************)
(* Building and dropping a session honours LibraryContract, however init   *)
(* ends and whenever the library calls a hook: no handle is made twice or  *)
(* destroyed twice, and neither the library nor the hooks go away below a  *)
(* call, a hook or a live handle (with_api_and_hooks, Drop).               *)
(***************************************************************************)
Contract == INSTANCE LibraryContract WITH
  Users <- Sessions,
  open <- mapped,
  lent <- {s \in Sessions : box[s] = "live"},
  inside <- {s \in Sessions : stage[s] \in {"initializing", "destroying"}},
  busy <- {s \in Sessions : hook[s] # NoHook}

HonoursContract == Contract!Spec
=============================================================================
