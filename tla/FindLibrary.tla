---------------------------- MODULE FindLibrary -----------------------------
(***************************************************************************)
(* Finding librkllmrt.so and opening what was found                        *)
(* (crates/rkllm-sys/src/find.rs, bindings/runtime.rs).                    *)
(*                                                                         *)
(* A place is a directory, standing for the path of the library in it; the *)
(* empty directory is the bare file name.  The search is a lazy iterator:  *)
(* each candidate is looked at when the caller asks for the next path,     *)
(* while other programs install, replace and remove libraries.  A path     *)
(* that was found is then opened and every symbol resolved.                *)
(*                                                                         *)
(* The disk and the dynamic loader are external.  disk[p] is the place the *)
(* file at p is kept in once symlinks are followed: p itself unless p is a *)
(* link.  dlopen takes a bare name to the loader's own search path.        *)
(***************************************************************************)
EXTENDS Naturals, Sequences, SequencesExt

CONSTANTS
  Disk,         \* the places that may hold the library
  Absent,       \* no place, no file, a variable that is not set
  Opaque,       \* places whose path cannot be canonicalized
  Environments, \* RKLLM_LIB, RKLLM_LIB_DIR and LD_LIBRARY_PATH
  ExeDirs,      \* beside the executable, lib under it and lib beside it
  Cache,        \* what the loader searches after LD_LIBRARY_PATH
  Exports,      \* the symbols each file exports
  MaxChanges    \* bound: changes to the disk

Bare == ""
SYSTEM_DIRS == <<"/usr/lib", "/usr/local/lib", "/usr/lib64", "/lib", "/opt/rkllm/lib">>
MultiarchDirs == <<"/usr/lib/aarch64-linux-gnu">>

Symbols ==
  {"rkllm_createDefaultParam", "rkllm_init", "rkllm_load_lora",
   "rkllm_load_prompt_cache", "rkllm_release_prompt_cache", "rkllm_destroy",
   "rkllm_run", "rkllm_run_async", "rkllm_abort", "rkllm_is_running",
   "rkllm_clear_kv_cache", "rkllm_get_kv_cache_size",
   "rkllm_set_chat_template", "rkllm_set_function_tools",
   "rkllm_set_cross_attn_params"}

ASSUME DiskAssumption == Absent \notin Disk /\ Opaque \subseteq Disk
ASSUME PathsAssumption ==
  /\ ExeDirs \in Seq(STRING)
  /\ \A e \in Environments : e.LD_LIBRARY_PATH \in Seq(STRING)
ASSUME ExportsAssumption == Exports \in [Disk -> SUBSET Symbols]
ASSUME MaxChangesAssumption == MaxChanges \in Nat

VARIABLES
  env,      \* the process environment
  disk,     \* where the file at each place is kept
  changes,  \* how often the disk changed
  rest,     \* the iterator: candidates not looked at yet
  entry,    \* the iterator: a candidate that was a file
  seen,     \* the iterator: the identities already yielded
  yielded,  \* history: the paths it yielded, with the file found there
  chosen,   \* the path the caller opens
  status,   \* "searching", "mapped" or "open"
  mapped,   \* the library this process has mapped
  table     \* where each function pointer of RkllmRuntime leads

iterVars == <<rest, entry, seen, yielded>>
libVars == <<chosen, status, mapped, table>>
vars == <<env, disk, changes, iterVars, libVars>>

FileAt(p) == IF p \in Disk THEN disk[p] ELSE Absent

(***************************************************************************)
(* candidates: the environment first, most specific to least, then the     *)
(* executable, the working directory and the system.                       *)
(***************************************************************************)
Given(p) == IF p = Absent THEN <<>> ELSE <<p>>

\* Mutant: the system's libraries before those beside the executable.
Candidates_SystemFirst(e) ==
  Given(e.RKLLM_LIB) \o Given(e.RKLLM_LIB_DIR) \o e.LD_LIBRARY_PATH
    \o SYSTEM_DIRS \o MultiarchDirs \o ExeDirs \o <<Bare>>
Candidates(e) ==
  Given(e.RKLLM_LIB) \o Given(e.RKLLM_LIB_DIR) \o e.LD_LIBRARY_PATH
    \o ExeDirs \o <<Bare>> \o SYSTEM_DIRS \o MultiarchDirs

\* Mutant: a library with a missing symbol is taken all the same.
Resolves_Partly(p) == "rkllm_init" \in Exports[p]
Resolves(p) == Symbols \subseteq Exports[p]

Pointers == {Absent} \cup [file : Disk, symbol : Symbols]
Unresolved == [s \in Symbols |-> Absent]

(***************************************************************************)
(* A call of RkllmApi goes from a reference, Box or Arc to the trait's     *)
(* method of RkllmRuntime, on to its inherent method and from there through*)
(* the pointer of the same name.                                           *)
(***************************************************************************)
Method(m) == table[m]

Dispatch(m) == Method(m)

Forwarded(m) == Dispatch(m)

Kept(d) == \A p \in Disk : d[p] # Absent => d[d[p]] = d[p] /\ d[p] # Bare
Disks == {d \in [Disk -> Disk \cup {Absent}] : Kept(d)}

Init ==
  /\ env \in Environments
  /\ disk \in Disks
  /\ changes = 0
  /\ rest = Candidates(env)
  /\ entry = Absent
  /\ seen = {}
  /\ yielded = <<>>
  /\ chosen = Absent
  /\ status = "searching"
  /\ mapped = Absent
  /\ table = Unresolved

(***************************************************************************)
(* existing: the filter's closure, which asks first whether the candidate  *)
(* is a file and then, in a second call, which file it is.                 *)
(***************************************************************************)
NotAFile ==
  /\ status = "searching" /\ entry = Absent
  /\ rest # <<>>
  /\ FileAt(Head(rest)) = Absent
  /\ rest' = Tail(rest)
  /\ UNCHANGED <<env, disk, changes, entry, seen, yielded, libVars>>

IsFile ==
  /\ status = "searching" /\ entry = Absent
  /\ rest # <<>>
  /\ FileAt(Head(rest)) # Absent
  /\ entry' = Head(rest)
  /\ rest' = Tail(rest)
  /\ UNCHANGED <<env, disk, changes, seen, yielded, libVars>>

\* Mutant: two paths are the same file when they are spelled the same.
Identity_Path(p) == p
\* Mutant: every path that cannot be canonicalized is the same file.
Identity_Default(p) == IF p \in Opaque THEN Absent ELSE FileAt(p)
Identity(p) == IF p \in Opaque \/ FileAt(p) = Absent THEN p ELSE FileAt(p)

Canonicalize ==
  /\ entry # Absent
  /\ seen' = seen \cup {Identity(entry)}
  /\ yielded' = IF Identity(entry) \in seen
                THEN yielded
                ELSE Append(yielded, [place |-> entry, file |-> FileAt(entry)])
  /\ entry' = Absent
  /\ UNCHANGED <<env, disk, changes, rest, libVars>>

(***************************************************************************)
(* What the loader makes of a path (external).                             *)
(***************************************************************************)
LoaderSearch == env.LD_LIBRARY_PATH \o Cache
Dlopen(p) ==
  IF p # Bare THEN FileAt(p)
  ELSE LET here == {i \in DOMAIN LoaderSearch : FileAt(LoaderSearch[i]) # Absent}
       IN  IF here = {} THEN Absent
           ELSE FileAt(LoaderSearch[CHOOSE i \in here : \A j \in here : i <= j])

(***************************************************************************)
(* RkllmRuntime::new opens the path the search yielded last; when nothing  *)
(* is found the documented fallback is the bare name.  A failed open       *)
(* leaves the caller where it was, free to ask for the next path.          *)
(***************************************************************************)
OpenLibrary(p) ==
  /\ status = "searching" /\ entry = Absent
  /\ chosen' = p
  /\ mapped' = Dlopen(p)
  /\ status' = IF mapped' = Absent THEN "searching" ELSE "mapped"
  /\ UNCHANGED <<env, disk, changes, iterVars, table>>

OpenFound == yielded # <<>> /\ OpenLibrary(Last(yielded).place)
OpenByName == yielded = <<>> /\ rest = <<>> /\ OpenLibrary(Bare)

(***************************************************************************)
(* from_library: every symbol, or the error of the first one missing and   *)
(* the library closed again.                                               *)
(***************************************************************************)
FromLibrary ==
  /\ status = "mapped"
  /\ Resolves(mapped)
  /\ status' = "open"
  /\ table' = [s \in Symbols |-> IF s \in Exports[mapped]
                                 THEN [file |-> mapped, symbol |-> s]
                                 ELSE Absent]
  /\ UNCHANGED <<env, disk, changes, iterVars, chosen, mapped>>

SymbolMissing ==
  /\ status = "mapped"
  /\ ~Resolves(mapped)
  /\ status' = "searching"
  /\ mapped' = Absent
  /\ UNCHANGED <<env, disk, changes, iterVars, chosen, table>>

DropRuntime ==
  /\ status = "open"
  /\ status' = "searching"
  /\ mapped' = Absent
  /\ table' = Unresolved
  /\ UNCHANGED <<env, disk, changes, iterVars, chosen>>

(***************************************************************************)
(* Another program installs, links or removes the library in one place;    *)
(* links to that place follow (external).                                  *)
(***************************************************************************)
DiskChanges(p) ==
  /\ changes < MaxChanges
  /\ \E q \in Disk \cup {Absent} :
       /\ q # disk[p]
       /\ disk' = [x \in Disk |-> IF x = p \/ disk[x] = p THEN q ELSE disk[x]]
       /\ Kept(disk')
  /\ changes' = changes + 1
  /\ UNCHANGED <<env, iterVars, libVars>>

Next ==
  \/ NotAFile \/ IsFile \/ Canonicalize
  \/ OpenFound \/ OpenByName
  \/ FromLibrary \/ SymbolMissing \/ DropRuntime
  \/ \E p \in Disk : DiskChanges(p)

Spec == Init /\ [][Next]_vars

-----------------------------------------------------------------------------
LoadingTypeOK ==
  /\ env \in Environments
  /\ disk \in Disks
  /\ changes \in 0..MaxChanges
  /\ IsSuffix(rest, Candidates(env))
  /\ entry \in Disk \cup {Absent}
  /\ seen \subseteq Disk
  /\ \A i \in DOMAIN yielded : yielded[i].place \in Disk
  /\ chosen \in Disk \cup {Absent, Bare}
  /\ status \in {"searching", "mapped", "open"}
  /\ mapped \in Disk \cup {Absent}
  /\ table \in [Symbols -> Pointers]

(***************************************************************************)
(* find_library_path promises that "each underlying file is yielded once   *)
(* even when several candidates resolve to it": no two paths it yields     *)
(* were the same file, unless one of them could not be canonicalized, and  *)
(* whatever is installed or removed meanwhile.                             *)
(***************************************************************************)
EachFileOnce ==
  \A i, j \in DOMAIN yielded :
    /\ i # j
    /\ yielded[i].file # Absent
    /\ {yielded[i].place, yielded[j].place} \cap Opaque = {}
    => yielded[i].file # yielded[j].file

(***************************************************************************)
(* The order find_library_path documents, from most to least specific.     *)
(***************************************************************************)
Classes ==
  <<{env.RKLLM_LIB}, {env.RKLLM_LIB_DIR}, ToSet(env.LD_LIBRARY_PATH),
    ToSet(ExeDirs), {Bare}, ToSet(SYSTEM_DIRS \o MultiarchDirs)>>
Rank(p) == CHOOSE i \in DOMAIN Classes :
             p \in Classes[i] /\ \A j \in 1..(i - 1) : p \notin Classes[j]

Examined ==
  ToSet(SubSeq(Candidates(env), 1, Len(Candidates(env)) - Len(rest))) \ {entry}

(***************************************************************************)
(* Best first, and nothing hidden: on a disk that does not change, the     *)
(* paths come in the documented order, and every library the search has    *)
(* passed was yielded under a path at least as specific as the one passed. *)
(***************************************************************************)
BestFirst ==
  changes = 0 =>
    /\ \A i, j \in DOMAIN yielded :
         i < j => Rank(yielded[i].place) <= Rank(yielded[j].place)
    /\ \A p \in Examined : FileAt(p) # Absent =>
         \E i \in DOMAIN yielded :
           /\ yielded[i].file = FileAt(p)
           /\ Rank(yielded[i].place) <= Rank(p)

(***************************************************************************)
(* A runtime is whole or it is nothing: when RkllmRuntime exists, each of  *)
(* its methods reaches the function of its name in the one library it keeps*)
(* mapped, and when opening failed or the runtime was dropped, no library  *)
(* stays mapped and no pointer into one is left, whatever was opened before.*)
(***************************************************************************)
RuntimeIsWhole ==
  /\ status = "open" => \A m \in Symbols :
       Forwarded(m) = [file |-> mapped, symbol |-> m]
  /\ status # "open" => table = Unresolved
  /\ (mapped = Absent) <=> (status = "searching")

(***************************************************************************)
(* What find_library_path documents of the paths it yields: each is a copy *)
(* of the runtime, the working directory's among them, so opening the path *)
(* opens the file that was found.                                          *)
(***************************************************************************)
FoundIsOpened ==
  status = "open" /\ changes = 0 /\ yielded # <<>> => mapped = FileAt(chosen)
=============================================================================
