-------------------------- MODULE FindLibraryProofs --------------------------
(***************************************************************************)
(* Proofs about FindLibrary, for every disk, every environment and every   *)
(* number of changes to the disk.                                          *)
(***************************************************************************)
EXTENDS FindLibrary, SequenceTheorems, TLAPS

(***************************************************************************)
(* The loader half: the table, the mapped library and the status change    *)
(* together.                                                               *)
(***************************************************************************)
RuntimeInv ==
  /\ status \in {"searching", "mapped", "open"}
  /\ RuntimeIsWhole

(***************************************************************************)
(* RuntimeInv holds at the start, where nothing is open.                   *)
(***************************************************************************)
LEMMA RuntimeInit == Init => RuntimeInv
  BY DEF Init, RuntimeInv, RuntimeIsWhole

(***************************************************************************)
(* No step of the search, of the loader or of another program breaks it    *)
(* (RkllmRuntime::new, from_library).                                      *)
(***************************************************************************)
LEMMA RuntimeStep == RuntimeInv /\ [Next]_vars => RuntimeInv'
<1> SUFFICES ASSUME RuntimeInv, [Next]_vars
             PROVE  RuntimeInv'
  OBVIOUS
<1> USE DEF RuntimeInv
<1>1. ASSUME UNCHANGED libVars
      PROVE  RuntimeInv'
  BY <1>1 DEF libVars, RuntimeIsWhole, Forwarded, Dispatch, Method
<1>2. CASE NotAFile \/ IsFile \/ Canonicalize \/ (\E p \in Disk : DiskChanges(p))
  BY <1>1, <1>2 DEF NotAFile, IsFile, Canonicalize, DiskChanges
<1>3. ASSUME NEW p, OpenLibrary(p)
      PROVE  RuntimeInv'
  BY <1>3 DEF OpenLibrary, RuntimeIsWhole
<1>4. CASE FromLibrary
  <2>1. \A m \in Symbols : m \in Exports[mapped]
    BY <1>4 DEF FromLibrary, Resolves
  <2>2. \A m \in Symbols : table'[m] = [file |-> mapped, symbol |-> m]
    BY <1>4, <2>1 DEF FromLibrary
  <2>3. mapped' = mapped /\ mapped # Absent /\ status' = "open"
    BY <1>4 DEF FromLibrary, RuntimeIsWhole
  <2> QED
    BY <2>2, <2>3 DEF RuntimeIsWhole, Forwarded, Dispatch, Method
<1>5. CASE SymbolMissing
  BY <1>5 DEF SymbolMissing, RuntimeIsWhole
<1>6. CASE DropRuntime
  BY <1>6 DEF DropRuntime, RuntimeIsWhole
<1>7. CASE UNCHANGED vars
  BY <1>1, <1>7 DEF vars
<1> QED
  BY <1>2, <1>3, <1>4, <1>5, <1>6, <1>7 DEF Next, OpenFound, OpenByName

(***************************************************************************)
(* A runtime is whole or it is nothing: its methods reach the functions of *)
(* their names in the one library it keeps mapped, for every set of places *)
(* and whatever the files in them export.                                  *)
(***************************************************************************)
THEOREM WholeRuntime == Spec => []RuntimeIsWhole
<1>1. RuntimeInv => RuntimeIsWhole
  BY DEF RuntimeInv
<1> QED
  BY RuntimeInit, RuntimeStep, <1>1, PTL DEF Spec

-----------------------------------------------------------------------------
(***************************************************************************)
(* The search half: the iterator remembers every file it yielded under a   *)
(* path that could be canonicalized.                                       *)
(***************************************************************************)
Known(i) ==
  yielded[i].place \in Opaque \/ yielded[i].file \in seen \cup {Absent}

SearchInv ==
  /\ yielded \in Seq([place : Disk, file : Disk \cup {Absent}])
  /\ entry \in Disk \cup {Absent}
  /\ disk \in [Disk -> Disk \cup {Absent}]
  /\ \A i \in DOMAIN yielded : Known(i)
  /\ EachFileOnce

(***************************************************************************)
(* SearchInv holds before the first candidate.                             *)
(***************************************************************************)
LEMMA SearchInit == Init => SearchInv
  BY DEF Init, SearchInv, EachFileOnce, Disks

(***************************************************************************)
(* One turn of the filter's closure: a path that is yielded was a file the *)
(* iterator had not seen, and has seen from now on (existing).             *)
(***************************************************************************)
LEMMA CanonicalizeStep == SearchInv /\ Canonicalize => SearchInv'
<1> SUFFICES ASSUME SearchInv, Canonicalize
             PROVE  SearchInv'
  OBVIOUS
<1> DEFINE new == [place |-> entry, file |-> FileAt(entry)]
           n   == Len(yielded)
<1>1. entry \in Disk /\ FileAt(entry) \in Disk \cup {Absent}
  BY DEF SearchInv, Canonicalize, FileAt
<1>2. UNCHANGED disk /\ entry' = Absent /\ seen' = seen \cup {Identity(entry)}
  BY DEF Canonicalize
<1>3. CASE Identity(entry) \in seen
  <2>1. yielded' = yielded
    BY <1>3 DEF Canonicalize
  <2> QED
    BY <1>2, <2>1 DEF SearchInv, Known, EachFileOnce
<1>4. CASE Identity(entry) \notin seen
  <2>1. yielded' = Append(yielded, new)
    BY <1>4 DEF Canonicalize
  <2>2. new \in [place : Disk, file : Disk \cup {Absent}]
    BY <1>1
  <2>3. /\ yielded' \in Seq([place : Disk, file : Disk \cup {Absent}])
        /\ DOMAIN yielded' = 1..(n + 1) /\ n \in Nat /\ DOMAIN yielded = 1..n
        /\ yielded'[n + 1] = new
        /\ \A i \in 1..n : yielded'[i] = yielded[i]
    BY <2>1, <2>2 DEF SearchInv
  <2>4. new.place \notin Opaque /\ new.file # Absent =>
          new.file \notin seen /\ new.file \in seen'
    BY <1>2, <1>4 DEF Identity
  <2>5. \A i \in DOMAIN yielded' : Known(i)'
    <3> SUFFICES ASSUME NEW i \in 1..(n + 1)
                 PROVE  Known(i)'
      BY <2>3
    <3>1. CASE i = n + 1
      BY <3>1, <2>3, <2>4 DEF Known
    <3>2. CASE i \in 1..n
      BY <3>2, <2>3, <1>2 DEF Known, SearchInv
    <3> QED
      BY <3>1, <3>2, <2>3
  <2>6. EachFileOnce'
    <3> SUFFICES ASSUME NEW i \in 1..(n + 1), NEW j \in 1..(n + 1), i # j,
                        yielded'[i].file # Absent,
                        yielded'[i].place \notin Opaque,
                        yielded'[j].place \notin Opaque
                 PROVE  yielded'[i].file # yielded'[j].file
      BY <2>3 DEF EachFileOnce
    <3>1. CASE i \in 1..n /\ j \in 1..n
      BY <3>1, <2>3 DEF SearchInv, EachFileOnce
    <3>2. CASE i = n + 1 /\ j \in 1..n
      BY <3>2, <2>3, <2>4 DEF SearchInv, Known
    <3>3. CASE i \in 1..n /\ j = n + 1
      BY <3>3, <2>3, <2>4 DEF SearchInv, Known
    <3> QED
      BY <3>1, <3>2, <3>3, <2>3
  <2> QED
    BY <1>2, <2>3, <2>5, <2>6 DEF SearchInv
<1> QED
  BY <1>3, <1>4

(***************************************************************************)
(* The other steps leave what was yielded alone, also those of another     *)
(* program on the disk.                                                    *)
(***************************************************************************)
LEMMA SearchStep == SearchInv /\ [Next]_vars => SearchInv'
<1> SUFFICES ASSUME SearchInv, [Next]_vars
             PROVE  SearchInv'
  OBVIOUS
<1>1. ASSUME UNCHANGED <<seen, yielded>>, entry' \in Disk \cup {Absent},
             disk' \in [Disk -> Disk \cup {Absent}]
      PROVE  SearchInv'
  BY <1>1 DEF SearchInv, Known, EachFileOnce
<1>2. CASE NotAFile
  BY <1>1, <1>2 DEF NotAFile, SearchInv
<1>3. CASE IsFile
  <2>1. entry' \in Disk
    BY <1>3 DEF IsFile, FileAt
  <2> QED
    BY <1>1, <1>3, <2>1 DEF IsFile, SearchInv
<1>4. CASE Canonicalize
  BY <1>4, CanonicalizeStep
<1>5. CASE UNCHANGED <<disk, iterVars>>
  BY <1>1, <1>5 DEF iterVars, SearchInv
<1>6. ASSUME NEW p \in Disk, DiskChanges(p)
      PROVE  SearchInv'
  <2>1. disk' \in [Disk -> Disk \cup {Absent}]
    BY <1>6 DEF DiskChanges, SearchInv
  <2> QED
    BY <1>1, <1>6, <2>1 DEF DiskChanges, iterVars, SearchInv
<1> QED
  BY <1>2, <1>3, <1>4, <1>5, <1>6
  DEF Next, OpenFound, OpenByName, OpenLibrary, FromLibrary, SymbolMissing,
      DropRuntime, vars

(***************************************************************************)
(* find_library_path yields each file once, for every environment, however *)
(* the places link to each other and however the disk changes meanwhile.   *)
(***************************************************************************)
THEOREM FilesYieldedOnce == Spec => []EachFileOnce
<1>1. SearchInv => EachFileOnce
  BY DEF SearchInv
<1> QED
  BY SearchInit, SearchStep, <1>1, PTL DEF Spec

-----------------------------------------------------------------------------
(***************************************************************************)
(* The places an environment's candidates name.                            *)
(***************************************************************************)
Paths(e) ==
  STRING \cup {Bare, e.RKLLM_LIB, e.RKLLM_LIB_DIR}
    \cup {"/usr/lib", "/usr/local/lib", "/usr/lib64", "/lib", "/opt/rkllm/lib",
          "/usr/lib/aarch64-linux-gnu"}

(***************************************************************************)
(* Every part of the candidate list is a sequence of paths, and so is the  *)
(* list (candidates).                                                      *)
(***************************************************************************)
LEMMA CandidateTypes ==
  ASSUME NEW e \in Environments
  PROVE  /\ Given(e.RKLLM_LIB) \in Seq(Paths(e))
         /\ Given(e.RKLLM_LIB_DIR) \in Seq(Paths(e))
         /\ e.LD_LIBRARY_PATH \in Seq(Paths(e))
         /\ ExeDirs \in Seq(Paths(e))
         /\ <<Bare>> \in Seq(Paths(e))
         /\ SYSTEM_DIRS \in Seq(Paths(e))
         /\ MultiarchDirs \in Seq(Paths(e))
         /\ Candidates(e) \in Seq(Paths(e))
<1>1. /\ Given(e.RKLLM_LIB) \in Seq(Paths(e))
      /\ Given(e.RKLLM_LIB_DIR) \in Seq(Paths(e))
  <2>1. e.RKLLM_LIB \in Paths(e) /\ e.RKLLM_LIB_DIR \in Paths(e)
    BY DEF Paths
  <2> QED
    BY <2>1 DEF Given
<1>2. STRING \subseteq Paths(e)
  BY DEF Paths
<1>3. e.LD_LIBRARY_PATH \in Seq(Paths(e)) /\ ExeDirs \in Seq(Paths(e))
  BY <1>2, PathsAssumption, SeqMonotonic
<1>4. <<Bare>> \in Seq(Paths(e)) /\ MultiarchDirs \in Seq(Paths(e))
  <2>1. Bare \in Paths(e) /\ "/usr/lib/aarch64-linux-gnu" \in Paths(e)
    BY DEF Paths
  <2> QED
    BY <2>1 DEF MultiarchDirs
<1>5. SYSTEM_DIRS \in Seq(Paths(e))
  <2>1. {"/usr/lib", "/usr/local/lib", "/usr/lib64", "/lib", "/opt/rkllm/lib"}
          \subseteq Paths(e)
    BY DEF Paths
  <2> QED
    BY <2>1 DEF SYSTEM_DIRS
<1> QED
  BY <1>1, <1>3, <1>4, <1>5, ConcatProperties DEF Candidates

-----------------------------------------------------------------------------
(***************************************************************************)
(* What the search has looked at: the candidates before rest, but for the  *)
(* one whose identity is asked for.                                        *)
(***************************************************************************)
Past == Len(Candidates(env)) - Len(rest)
Done == IF entry = Absent THEN 1..Past ELSE 1..(Past - 1)

RestInv ==
  /\ env \in Environments
  /\ rest \in Seq(Paths(env))
  /\ Len(rest) <= Len(Candidates(env))
  /\ \A i \in 1..Len(rest) : rest[i] = Candidates(env)[Past + i]
  /\ entry # Absent => Past > 0 /\ entry = Candidates(env)[Past]

(***************************************************************************)
(* Before the first candidate, all of them are left.                       *)
(***************************************************************************)
LEMMA RestInit == Init => RestInv
<1> SUFFICES ASSUME Init
             PROVE  RestInv
  OBVIOUS
<1>1. rest = Candidates(env) /\ env \in Environments /\ entry = Absent
  BY DEF Init
<1>2. rest \in Seq(Paths(env))
  BY <1>1, CandidateTypes
<1>3. Len(rest) \in Nat /\ Past = 0
  BY <1>1, <1>2 DEF Past
<1> QED
  BY <1>1, <1>2, <1>3 DEF RestInv

(***************************************************************************)
(* The iterator takes the next candidate off, and nothing else.            *)
(***************************************************************************)
LEMMA RestShrinks ==
  ASSUME RestInv, rest # <<>>, rest' = Tail(rest), env' = env
  PROVE  /\ Past' = Past + 1 /\ Past \in Nat
         /\ Head(rest) = Candidates(env)[Past']
         /\ rest' \in Seq(Paths(env)')
         /\ Len(rest)' <= Len(Candidates(env))'
         /\ \A i \in 1..Len(rest') : rest'[i] = Candidates(env)'[Past' + i]
<1> DEFINE c == Candidates(env)
           n == Len(c)
           r == Len(rest)
<1>1. c \in Seq(Paths(env)) /\ n \in Nat /\ r \in Nat \ {0} /\ r <= n
  BY CandidateTypes DEF RestInv
<1>2. /\ Tail(rest) \in Seq(Paths(env)) /\ Len(Tail(rest)) = r - 1
      /\ \A i \in 1..(r - 1) : Tail(rest)[i] = rest[i + 1]
      /\ Head(rest) = rest[1]
  BY <1>1, HeadTailProperties DEF RestInv
<1>3. Candidates(env)' = c /\ Paths(env)' = Paths(env) /\ Len(rest)' = r - 1
  BY <1>2 DEF Candidates, Paths
<1>4. Past = n - r /\ Past' = n - (r - 1)
  BY <1>3 DEF Past
<1>5. \A i \in 1..r : rest[i] = c[(n - r) + i]
  BY <1>4 DEF RestInv
<1> HIDE DEF n, r
<1>6. Head(rest) = c[Past']
  BY <1>1, <1>2, <1>4, <1>5
<1>7. ASSUME NEW i \in 1..(r - 1)
      PROVE  rest'[i] = c[Past' + i]
  <2>1. rest'[i] = rest[i + 1] /\ i + 1 \in 1..r
    BY <1>1, <1>2
  <2>2. (n - r) + (i + 1) = Past' + i
    BY <1>1, <1>4
  <2> QED
    BY <1>5, <2>1, <2>2
<1> QED
  BY <1>1, <1>2, <1>3, <1>4, <1>6, <1>7 DEF n, r

(***************************************************************************)
(* A sequence that agrees with the end of another is a suffix of it.       *)
(***************************************************************************)
LEMMA ShiftedIsSuffix ==
  ASSUME NEW S, NEW s \in Seq(S), NEW t \in Seq(S), Len(s) <= Len(t),
         \A i \in 1..Len(s) : s[i] = t[(Len(t) - Len(s)) + i]
  PROVE  IsSuffix(s, t)
<1> DEFINE m == Len(s)
           n == Len(t)
           rs == Reverse(s)
           rt == Reverse(t)
<1>1. /\ m \in Nat /\ n \in Nat /\ m <= n
      /\ \A i \in 1..m : s[i] \in S
      /\ \A i \in 1..n : t[i] \in S
  BY ElementOfSeq
<1>2. \A i \in 1..m : s[i] = t[(n - m) + i]
  OBVIOUS
<1>3. rs = [i \in 1..m |-> s[(m - i) + 1]] /\ rt = [i \in 1..n |-> t[(n - i) + 1]]
  BY DEF Reverse
<1> HIDE DEF m, n
<1>4. rs \in [1..m -> S] /\ rt \in [1..n -> S]
  <2>1. \A i \in 1..m : (m - i) + 1 \in 1..m
    BY <1>1
  <2>2. \A i \in 1..n : (n - i) + 1 \in 1..n
    BY <1>1
  <2> QED
    BY <1>1, <1>3, <2>1, <2>2
<1>5. \A i \in 1..m : rs[i] = rt[i]
  <2> SUFFICES ASSUME NEW i \in 1..m
               PROVE  rs[i] = rt[i]
    OBVIOUS
  <2>1. rs[i] = s[(m - i) + 1] /\ (m - i) + 1 \in 1..m
    BY <1>1, <1>3
  <2>2. rt[i] = t[(n - i) + 1] /\ (n - m) + ((m - i) + 1) = (n - i) + 1
    BY <1>1, <1>3
  <2> QED
    BY <1>2, <2>1, <2>2
<1> HIDE DEF rs, rt
<1>6. rs \in Seq(S) /\ rt \in Seq(S) /\ Len(rs) = m /\ Len(rt) = n
  BY <1>1, <1>4, SeqDef, LenProperties
<1>7. SubSeq(rs, 1, m) = SubSeq(rt, 1, m)
  <2>1. /\ SubSeq(rs, 1, m) \in Seq(S) /\ Len(SubSeq(rs, 1, m)) = m
        /\ \A i \in 1..m : SubSeq(rs, 1, m)[i] = rs[i]
    BY <1>1, <1>6, SubSeqFull
  <2>2. /\ SubSeq(rt, 1, m) \in Seq(S) /\ Len(SubSeq(rt, 1, m)) = m
        /\ \A i \in 1..m : SubSeq(rt, 1, m)[i] = rt[i]
    BY <1>1, <1>6
  <2> QED
    BY <1>5, <2>1, <2>2, SeqEqual
<1> QED
  BY <1>1, <1>6, <1>7 DEF IsSuffix, IsPrefix, rs, rt

(***************************************************************************)
(* RestInv is kept: only the filter's closure moves the iterator.          *)
(***************************************************************************)
LEMMA RestStep == RestInv /\ [Next]_vars => RestInv'
<1> SUFFICES ASSUME RestInv, [Next]_vars
             PROVE  RestInv'
  OBVIOUS
<1>1. CASE NotAFile \/ IsFile
  <2>1. rest # <<>> /\ rest' = Tail(rest) /\ env' = env
        /\ entry = Absent /\ (entry' = Absent \/ entry' = Head(rest))
    BY <1>1 DEF NotAFile, IsFile
  <2>2. /\ Past' = Past + 1 /\ Past \in Nat
        /\ Head(rest) = Candidates(env)[Past']
        /\ rest' \in Seq(Paths(env)')
        /\ Len(rest)' <= Len(Candidates(env))'
        /\ \A i \in 1..Len(rest') : rest'[i] = Candidates(env)'[Past' + i]
    BY <2>1, RestShrinks
  <2>3. Candidates(env)' = Candidates(env) /\ Past' > 0
    BY <2>1, <2>2 DEF Candidates
  <2> QED
    BY <2>1, <2>2, <2>3 DEF RestInv
<1>2. ASSUME UNCHANGED <<env, rest>>, entry' \in {entry, Absent}
      PROVE  RestInv'
  BY <1>2 DEF RestInv, Past, Candidates, Paths
<1>3. CASE Canonicalize
  BY <1>2, <1>3 DEF Canonicalize
<1> QED
  BY <1>1, <1>2, <1>3
  DEF Next, OpenFound, OpenByName, OpenLibrary, FromLibrary, SymbolMissing,
      DropRuntime, DiskChanges, vars, iterVars

-----------------------------------------------------------------------------
(***************************************************************************)
(* The types of the disk, of the iterator's memory and of the runtime.     *)
(***************************************************************************)
MemoryInv ==
  /\ disk \in Disks
  /\ changes \in 0..MaxChanges
  /\ seen \subseteq Disk
  /\ chosen \in Disk \cup {Absent, Bare}
  /\ mapped \in Disk \cup {Absent}
  /\ table \in [Symbols -> Pointers]

LoadingInv == RuntimeInv /\ SearchInv /\ RestInv /\ MemoryInv

(***************************************************************************)
(* The types hold at the start, on every disk the model allows.            *)
(***************************************************************************)
LEMMA MemoryInit == Init => MemoryInv
  BY MaxChangesAssumption DEF Init, MemoryInv, Unresolved, Pointers

(***************************************************************************)
(* No step of the search, the loader or another program breaks them: what  *)
(* is remembered, opened or mapped is a place of the disk.                 *)
(***************************************************************************)
LEMMA MemoryStep == LoadingInv /\ [Next]_vars => MemoryInv'
<1> SUFFICES ASSUME LoadingInv, [Next]_vars
             PROVE  MemoryInv'
  OBVIOUS
<1> USE DEF LoadingInv, MemoryInv
<1>1. \A p : FileAt(p) \in Disk \cup {Absent}
  BY DEF FileAt, Disks
<1>2. CASE NotAFile \/ IsFile
  BY <1>2 DEF NotAFile, IsFile, libVars
<1>3. CASE Canonicalize
  <2>1. entry \in Disk
    BY <1>3 DEF Canonicalize, SearchInv
  <2>2. Identity(entry) \in Disk
    BY <1>1, <2>1 DEF Identity
  <2> QED
    BY <1>3, <2>2 DEF Canonicalize, libVars
<1>4. ASSUME NEW p \in Disk \cup {Bare}, OpenLibrary(p)
      PROVE  MemoryInv'
  <2>1. Dlopen(p) \in Disk \cup {Absent}
    BY <1>1 DEF Dlopen
  <2> QED
    BY <1>4, <2>1 DEF OpenLibrary, iterVars
<1>5. CASE OpenFound
  <2>1. Last(yielded).place \in Disk
    <3>1. yielded # <<>> /\ yielded \in Seq([place : Disk, file : Disk \cup {Absent}])
      BY <1>5 DEF OpenFound, SearchInv
    <3>2. Len(yielded) \in 1..Len(yielded)
      BY <3>1, EmptySeq
    <3>3. Last(yielded) \in [place : Disk, file : Disk \cup {Absent}]
      BY <3>1, <3>2, ElementOfSeq DEF Last
    <3> QED
      BY <3>3
  <2> QED
    BY <1>4, <1>5, <2>1 DEF OpenFound
<1>6. CASE OpenByName
  BY <1>4, <1>6 DEF OpenByName
<1>7. CASE FromLibrary
  <2>1. mapped \in Disk
    BY <1>7 DEF FromLibrary, RuntimeInv, RuntimeIsWhole
  <2>2. table' \in [Symbols -> Pointers]
    BY <1>7, <2>1 DEF FromLibrary, Pointers
  <2> QED
    BY <1>7, <2>2 DEF FromLibrary, iterVars
<1>8. CASE SymbolMissing
  BY <1>8 DEF SymbolMissing, iterVars
<1>9. CASE DropRuntime
  BY <1>9 DEF DropRuntime, iterVars, Unresolved, Pointers
<1>10. ASSUME NEW p \in Disk, DiskChanges(p)
       PROVE  MemoryInv'
  <2>1. PICK q \in Disk \cup {Absent} :
          /\ disk' = [x \in Disk |-> IF x = p \/ disk[x] = p THEN q ELSE disk[x]]
          /\ Kept(disk')
    BY <1>10 DEF DiskChanges
  <2>2. disk' \in Disks
    BY <2>1 DEF Disks
  <2>3. changes' \in 0..MaxChanges
    BY <1>10, MaxChangesAssumption DEF DiskChanges
  <2> QED
    BY <1>10, <2>2, <2>3 DEF DiskChanges, iterVars, libVars
<1>11. CASE UNCHANGED vars
  BY <1>11 DEF vars, iterVars, libVars
<1> QED
  BY <1>2, <1>3, <1>5, <1>6, <1>7, <1>8, <1>9, <1>10, <1>11 DEF Next

(***************************************************************************)
(* The loader's and the search's invariants hold in every state.           *)
(***************************************************************************)
THEOREM LoadingInvariant == Spec => []LoadingInv
<1>1. Init => LoadingInv
  BY RuntimeInit, SearchInit, RestInit, MemoryInit DEF LoadingInv
<1>2. LoadingInv /\ [Next]_vars => LoadingInv'
  BY RuntimeStep, SearchStep, RestStep, MemoryStep DEF LoadingInv
<1> QED
  BY <1>1, <1>2, PTL DEF Spec

(***************************************************************************)
(* Every variable has its type; what is left of the search is always the   *)
(* rest of the candidate list of the environment it started in.            *)
(***************************************************************************)
THEOREM LoadingTypeCorrect == Spec => []LoadingTypeOK
<1>1. LoadingInv => LoadingTypeOK
  <2> SUFFICES ASSUME LoadingInv
               PROVE  LoadingTypeOK
    OBVIOUS
  <2>1. IsSuffix(rest, Candidates(env))
    <3>1. Candidates(env) \in Seq(Paths(env)) /\ rest \in Seq(Paths(env))
      BY CandidateTypes DEF LoadingInv, RestInv
    <3> QED
      BY <3>1, ShiftedIsSuffix DEF LoadingInv, RestInv, Past
  <2>2. \A i \in DOMAIN yielded : yielded[i].place \in Disk
    <3>1. yielded \in Seq([place : Disk, file : Disk \cup {Absent}])
      BY DEF LoadingInv, SearchInv
    <3>2. \A i \in DOMAIN yielded : yielded[i] \in [place : Disk, file : Disk \cup {Absent}]
      BY <3>1, ElementOfSeq, LenProperties
    <3> QED
      BY <3>2
  <2> QED
    BY <2>1, <2>2
    DEF LoadingInv, RuntimeInv, SearchInv, RestInv, MemoryInv, LoadingTypeOK
<1> QED
  BY <1>1, LoadingInvariant, PTL

-----------------------------------------------------------------------------
(***************************************************************************)
(* A sequence of places c goes through the first k of the sets K in order: *)
(* it has their places, and a place that is new to it is in no set before  *)
(* one that a place already passed is in.                                  *)
(***************************************************************************)
GoesThrough(c, K, k) ==
  /\ \A p \in Disk :
       (\E n \in 1..Len(c) : c[n] = p) <=> (\E j \in 1..k : p \in K[j])
  /\ \A m \in 1..Len(c) : \A n \in 1..m : \A j \in 1..k :
       /\ c[n] \in Disk /\ c[m] \in Disk /\ c[m] \in K[j]
       /\ \A x \in 1..(m - 1) : c[x] # c[m]
       => \E i \in 1..j : c[n] \in K[i]

(***************************************************************************)
(* Appending a block of candidates that has the places of the next class   *)
(* keeps the order (candidates).                                           *)
(***************************************************************************)
LEMMA GoesFurther ==
  ASSUME NEW S, NEW c \in Seq(S), NEW b \in Seq(S), NEW K, NEW k \in Nat,
         GoesThrough(c, K, k),
         \A p \in Disk : (\E n \in 1..Len(b) : b[n] = p) <=> p \in K[k + 1]
  PROVE  GoesThrough(c \o b, K, k + 1)
<1> DEFINE u == Len(c)
           v == Len(b)
           d == c \o b
<1>1. /\ u \in Nat /\ v \in Nat /\ Len(d) = u + v
      /\ \A i \in 1..u : d[i] = c[i]
      /\ \A i \in 1..v : d[u + i] = b[i]
  BY ConcatProperties
<1>2. \A p \in Disk : (\E n \in 1..u : c[n] = p) <=> (\E j \in 1..k : p \in K[j])
  BY DEF GoesThrough
<1>3. \A m \in 1..u : \A n \in 1..m : \A j \in 1..k :
        /\ c[n] \in Disk /\ c[m] \in Disk /\ c[m] \in K[j]
        /\ \A x \in 1..(m - 1) : c[x] # c[m]
        => \E i \in 1..j : c[n] \in K[i]
  BY DEF GoesThrough
<1>4. \A p \in Disk : (\E n \in 1..v : b[n] = p) <=> p \in K[k + 1]
  OBVIOUS
<1> HIDE DEF u, v, d
<1>5. ASSUME NEW p \in Disk
      PROVE  (\E n \in 1..(u + v) : d[n] = p) <=> (\E j \in 1..(k + 1) : p \in K[j])
  <2>1. ASSUME NEW n \in 1..(u + v), d[n] = p
        PROVE  \E j \in 1..(k + 1) : p \in K[j]
    <3>1. CASE n \in 1..u
      <4>1. \E j \in 1..k : p \in K[j]
        BY <1>1, <1>2, <2>1, <3>1
      <4> QED
        BY <4>1
    <3>2. CASE n - u \in 1..v
      <4>1. d[u + (n - u)] = b[n - u] /\ u + (n - u) = n
        BY <1>1, <3>2
      <4>2. p \in K[k + 1]
        BY <1>4, <2>1, <3>2, <4>1
      <4> QED
        BY <4>2
    <3> QED
      BY <1>1, <3>1, <3>2
  <2>2. ASSUME NEW j \in 1..(k + 1), p \in K[j]
        PROVE  \E n \in 1..(u + v) : d[n] = p
    <3>1. CASE j \in 1..k
      <4>1. PICK n \in 1..u : c[n] = p
        BY <1>2, <2>2, <3>1
      <4> QED
        BY <1>1, <4>1
    <3>2. CASE j = k + 1
      <4>1. PICK n \in 1..v : b[n] = p
        BY <1>4, <2>2, <3>2
      <4>2. d[u + n] = p /\ u + n \in 1..(u + v)
        BY <1>1, <4>1
      <4> QED
        BY <4>2
    <3> QED
      BY <3>1, <3>2
  <2> QED
    BY <2>1, <2>2
<1>6. ASSUME NEW m \in 1..(u + v), NEW n \in 1..m, NEW j \in 1..(k + 1),
             d[n] \in Disk, d[m] \in Disk, d[m] \in K[j],
             \A x \in 1..(m - 1) : d[x] # d[m]
      PROVE  \E i \in 1..j : d[n] \in K[i]
  <2>1. PICK i \in 1..(k + 1) : d[n] \in K[i]
    <3>1. n \in 1..(u + v)
      BY <1>1
    <3> QED
      BY <1>5, <1>6, <3>1
  <2>2. CASE j = k + 1
    BY <2>1, <2>2
  <2>3. CASE m \in 1..u /\ j \in 1..k
    <3>1. \A x \in 1..m : d[x] = c[x]
      BY <1>1, <2>3
    <3>2. /\ c[n] \in Disk /\ c[m] \in Disk /\ c[m] \in K[j]
          /\ \A x \in 1..(m - 1) : c[x] # c[m]
      BY <1>6, <3>1
    <3>3. \E l \in 1..j : c[n] \in K[l]
      BY <1>3, <2>3, <3>2
    <3> QED
      BY <3>1, <3>3
  <2>4. CASE m \notin 1..u /\ j \in 1..k
    <3>1. PICK x \in 1..u : c[x] = d[m]
      BY <1>2, <1>6, <2>4
    <3>2. x \in 1..(m - 1) /\ d[x] = c[x]
      BY <1>1, <2>4
    <3> QED
      BY <1>6, <3>1, <3>2
  <2> QED
    BY <2>2, <2>3, <2>4
<1>7. Len(d) = u + v
  BY <1>1
<1>8. GoesThrough(d, K, k + 1)
  BY <1>5, <1>6, <1>7 DEF GoesThrough
<1> QED
  BY <1>8 DEF d

(***************************************************************************)
(* The candidates go through the documented classes in order (candidates). *)
(***************************************************************************)
LEMMA CandidatesInOrder ==
  ASSUME env \in Environments
  PROVE  GoesThrough(Candidates(env), Classes, 6)
<1> DEFINE P  == Paths(env)
           c1 == Given(env.RKLLM_LIB)
           c2 == c1 \o Given(env.RKLLM_LIB_DIR)
           c3 == c2 \o env.LD_LIBRARY_PATH
           c4 == c3 \o ExeDirs
           c5 == c4 \o <<Bare>>
           s  == SYSTEM_DIRS \o MultiarchDirs
<1>1. /\ Given(env.RKLLM_LIB) \in Seq(P) /\ Given(env.RKLLM_LIB_DIR) \in Seq(P)
      /\ env.LD_LIBRARY_PATH \in Seq(P) /\ ExeDirs \in Seq(P)
      /\ <<Bare>> \in Seq(P) /\ SYSTEM_DIRS \in Seq(P) /\ MultiarchDirs \in Seq(P)
  BY CandidateTypes
<1>2. /\ <<>> \in Seq(P) /\ c1 \in Seq(P) /\ c2 \in Seq(P) /\ c3 \in Seq(P)
      /\ c4 \in Seq(P) /\ c5 \in Seq(P) /\ s \in Seq(P)
  BY <1>1, ConcatProperties
<1>3. Candidates(env) = c5 \o s
  <2>1. Candidates(env) = (c5 \o SYSTEM_DIRS) \o MultiarchDirs
    BY DEF Candidates
  <2>2. c5 \in Seq(P) /\ SYSTEM_DIRS \in Seq(P) /\ MultiarchDirs \in Seq(P)
    BY <1>1, <1>2
  <2> HIDE DEF c5, P
  <2>3. (c5 \o SYSTEM_DIRS) \o MultiarchDirs = c5 \o (SYSTEM_DIRS \o MultiarchDirs)
    BY <2>2, ConcatAssociative
  <2> QED
    BY <2>1, <2>3
<1>4. /\ Classes[1] = {env.RKLLM_LIB} /\ Classes[2] = {env.RKLLM_LIB_DIR}
      /\ Classes[3] = ToSet(env.LD_LIBRARY_PATH) /\ Classes[4] = ToSet(ExeDirs)
      /\ Classes[5] = {Bare} /\ Classes[6] = ToSet(s)
  BY DEF Classes
<1>5. ASSUME NEW x
      PROVE  \A p \in Disk : (\E n \in 1..Len(Given(x)) : Given(x)[n] = p) <=> p \in {x}
  <2>1. CASE x = Absent
    BY <2>1, DiskAssumption DEF Given
  <2>2. CASE x # Absent
    BY <2>2 DEF Given
  <2> QED
    BY <2>1, <2>2
<1>6. ASSUME NEW t \in Seq(P)
      PROVE  \A p \in Disk : (\E n \in 1..Len(t) : t[n] = p) <=> p \in ToSet(t)
  BY LenProperties DEF ToSet
<1>7. \A p \in Disk : (\E n \in 1..Len(<<Bare>>) : <<Bare>>[n] = p) <=> p \in {Bare}
  OBVIOUS
<1>8. GoesThrough(<<>>, Classes, 0)
  BY DEF GoesThrough
<1>9. <<>> \o c1 = c1
  BY <1>2, ConcatEmptySeq
<1> HIDE DEF c1, c2, c3, c4, c5, s, P
<1>10. GoesThrough(c1, Classes, 1)
  <2>1. Classes[0 + 1] = {env.RKLLM_LIB}
    BY <1>4
  <2>2. GoesThrough(<<>> \o c1, Classes, 0 + 1)
    BY <1>1, <1>2, <1>5, <1>8, <2>1, GoesFurther DEF c1
  <2> QED
    BY <1>9, <2>2
<1>11. GoesThrough(c2, Classes, 2)
  <2>1. Classes[1 + 1] = {env.RKLLM_LIB_DIR}
    BY <1>4
  <2>2. GoesThrough(c1 \o Given(env.RKLLM_LIB_DIR), Classes, 1 + 1)
    BY <1>1, <1>2, <1>5, <1>10, <2>1, GoesFurther
  <2> QED
    BY <2>2 DEF c2
<1>12. GoesThrough(c3, Classes, 3)
  <2>1. \A p \in Disk : (\E n \in 1..Len(env.LD_LIBRARY_PATH) : env.LD_LIBRARY_PATH[n] = p)
                          <=> p \in Classes[2 + 1]
    <3>1. Classes[2 + 1] = ToSet(env.LD_LIBRARY_PATH)
      BY <1>4
    <3>2. env.LD_LIBRARY_PATH \in Seq(P)
      BY <1>1
    <3> QED
      BY <1>6, <3>1, <3>2
  <2>2. GoesThrough(c2 \o env.LD_LIBRARY_PATH, Classes, 2 + 1)
    BY <1>1, <1>2, <1>11, <2>1, GoesFurther
  <2> QED
    BY <2>2 DEF c3
<1>13. GoesThrough(c4, Classes, 4)
  <2>1. Classes[3 + 1] = ToSet(ExeDirs)
    BY <1>4
  <2>2. GoesThrough(c3 \o ExeDirs, Classes, 3 + 1)
    BY <1>1, <1>2, <1>6, <1>12, <2>1, GoesFurther
  <2> QED
    BY <2>2 DEF c4
<1>14. GoesThrough(c5, Classes, 5)
  <2>1. Classes[4 + 1] = {Bare}
    BY <1>4
  <2>2. GoesThrough(c4 \o <<Bare>>, Classes, 4 + 1)
    BY <1>1, <1>2, <1>7, <1>13, <2>1, GoesFurther
  <2> QED
    BY <2>2 DEF c5
<1>15. GoesThrough(c5 \o s, Classes, 6)
  <2>1. \A p \in Disk : (\E n \in 1..Len(s) : s[n] = p)
                          <=> p \in Classes[5 + 1]
    BY <1>1, <1>2, <1>4, <1>6
  <2>2. GoesThrough(c5 \o s, Classes, 5 + 1)
    BY <1>1, <1>2, <1>14, <2>1, GoesFurther
  <2> QED
    BY <2>2
<1> QED
  BY <1>3, <1>15

(***************************************************************************)
(* Rank is the first class a place is in.                                  *)
(***************************************************************************)
LEMMA RankIsFirst ==
  ASSUME NEW p, NEW k \in 1..6, p \in Classes[k]
  PROVE  /\ Rank(p) \in 1..k /\ p \in Classes[Rank(p)]
<1> DEFINE First(i) == p \in Classes[i] /\ \A j \in 1..(i - 1) : p \notin Classes[j]
<1>1. DOMAIN Classes = 1..6
  BY DEF Classes
<1>2. \E i \in 1..6 : First(i)
  <2>1. CASE p \in Classes[1]
    BY <2>1
  <2>2. CASE p \notin Classes[1] /\ p \in Classes[2]
    BY <2>2
  <2>3. CASE p \notin Classes[1] /\ p \notin Classes[2] /\ p \in Classes[3]
    BY <2>3
  <2>4. CASE /\ p \notin Classes[1] /\ p \notin Classes[2] /\ p \notin Classes[3]
             /\ p \in Classes[4]
    BY <2>4
  <2>5. CASE /\ p \notin Classes[1] /\ p \notin Classes[2] /\ p \notin Classes[3]
             /\ p \notin Classes[4] /\ p \in Classes[5]
    BY <2>5
  <2>6. CASE /\ p \notin Classes[1] /\ p \notin Classes[2] /\ p \notin Classes[3]
             /\ p \notin Classes[4] /\ p \notin Classes[5] /\ p \in Classes[6]
    BY <2>6
  <2> QED
    BY <2>1, <2>2, <2>3, <2>4, <2>5, <2>6
<1>3. Rank(p) \in 1..6 /\ First(Rank(p))
  BY <1>1, <1>2 DEF Rank
<1> QED
  BY <1>3

(***************************************************************************)
(* A candidate that is looked at for the first time ranks no better than   *)
(* one that was looked at before it.                                       *)
(***************************************************************************)
LEMMA LaterRanksBehind ==
  ASSUME env \in Environments, NEW m \in 1..Len(Candidates(env)), NEW n \in 1..m,
         Candidates(env)[n] \in Disk, Candidates(env)[m] \in Disk,
         \A x \in 1..(m - 1) : Candidates(env)[x] # Candidates(env)[m]
  PROVE  Rank(Candidates(env)[n]) <= Rank(Candidates(env)[m])
<1> DEFINE p == Candidates(env)[n]
           q == Candidates(env)[m]
<1>1. PICK k \in 1..6 : q \in Classes[k]
  BY CandidatesInOrder DEF GoesThrough
<1>2. Rank(q) \in 1..6 /\ q \in Classes[Rank(q)]
  BY <1>1, RankIsFirst
<1>3. PICK i \in 1..Rank(q) : p \in Classes[i]
  BY <1>2, CandidatesInOrder DEF GoesThrough
<1>4. Rank(p) \in 1..i
  BY <1>2, <1>3, RankIsFirst
<1> QED
  BY <1>2, <1>3, <1>4

-----------------------------------------------------------------------------
(***************************************************************************)
(* Rank and Identity as functions of what they depend on.                  *)
(***************************************************************************)
ClassIn(K, p) ==
  CHOOSE i \in DOMAIN K : p \in K[i] /\ \A j \in 1..(i - 1) : p \notin K[j]
IdentityOn(d, p) == IF p \in Opaque \/ d[p] = Absent THEN p ELSE d[p]

(***************************************************************************)
(* The search of a disk d that has looked at the candidates c[n], n in     *)
(* done, and has yielded found and remembers known: what was yielded is a  *)
(* candidate and the file found there, best first; a candidate that was a  *)
(* file is remembered, and was yielded under a path at least as specific;  *)
(* and what is remembered was yielded.                                     *)
(***************************************************************************)
BestSoFar(c, done, K, d, found, known) ==
  /\ \A i \in DOMAIN found :
       /\ \E n \in done : found[i].place = c[n]
       /\ found[i].file = d[found[i].place]
       /\ found[i].file # Absent
  /\ \A j \in DOMAIN found : \A i \in 1..j :
       ClassIn(K, found[i].place) <= ClassIn(K, found[j].place)
  /\ \A n \in done : c[n] \in Disk /\ d[c[n]] # Absent =>
       /\ IdentityOn(d, c[n]) \in known
       /\ \E i \in DOMAIN found :
            /\ found[i].file = d[c[n]]
            /\ ClassIn(K, found[i].place) <= ClassIn(K, c[n])
  /\ \A x \in known : \E i \in DOMAIN found : IdentityOn(d, found[i].place) = x

(***************************************************************************)
(* That is what holds while the disk does not change.                      *)
(***************************************************************************)
OrderInv ==
  changes = 0 =>
    /\ entry # Absent => disk[entry] # Absent
    /\ BestSoFar(Candidates(env), Done, Classes, disk, yielded, seen)

(***************************************************************************)
(* Two paths with one identity are one file: a link leads to where the file*)
(* is kept.                                                                *)
(***************************************************************************)
LEMMA SameIdentitySameFile ==
  ASSUME disk \in Disks, NEW p \in Disk, NEW q \in Disk,
         disk[p] # Absent, disk[q] # Absent,
         IdentityOn(disk, p) = IdentityOn(disk, q)
  PROVE  disk[p] = disk[q]
<1>1. disk[disk[p]] = disk[p] /\ disk[disk[q]] = disk[q]
  BY DEF Disks, Kept
<1> QED
  BY <1>1 DEF IdentityOn

(***************************************************************************)
(* The same for Rank as a function of the classes.                         *)
(***************************************************************************)
LEMMA RankOfCandidates ==
  ASSUME env \in Environments, NEW m \in 1..Len(Candidates(env)), NEW n \in 1..m,
         Candidates(env)[n] \in Disk, Candidates(env)[m] \in Disk,
         \A x \in 1..(m - 1) : Candidates(env)[x] # Candidates(env)[m]
  PROVE  ClassIn(Classes, Candidates(env)[n]) <= ClassIn(Classes, Candidates(env)[m])
  BY LaterRanksBehind DEF Rank, ClassIn

(***************************************************************************)
(* A candidate that may hold a file is in one of the classes.              *)
(***************************************************************************)
LEMMA RankIsNat ==
  ASSUME env \in Environments, NEW m \in 1..Len(Candidates(env)),
         Candidates(env)[m] \in Disk
  PROVE  ClassIn(Classes, Candidates(env)[m]) \in Nat
<1>1. PICK k \in 1..6 : Candidates(env)[m] \in Classes[k]
  BY CandidatesInOrder DEF GoesThrough
<1>2. Rank(Candidates(env)[m]) \in Nat
  BY <1>1, RankIsFirst
<1> QED
  BY <1>2 DEF Rank, ClassIn

(***************************************************************************)
(* Nothing is done at the start, so nothing is out of order.               *)
(***************************************************************************)
LEMMA OrderInit == Init => OrderInv
<1> SUFFICES ASSUME Init
             PROVE  OrderInv
  OBVIOUS
<1>1. env \in Environments /\ rest = Candidates(env) /\ entry = Absent
      /\ seen = {} /\ yielded = <<>>
  BY DEF Init
<1>2. Len(Candidates(env)) \in Nat
  BY <1>1, CandidateTypes
<1>3. Done = {}
  BY <1>1, <1>2 DEF Done, Past
<1> QED
  BY <1>1, <1>3 DEF OrderInv, BestSoFar

(***************************************************************************)
(* The candidate whose identity is asked for is a file; it is yielded if it*)
(* is looked at for the first time and its file is new, and else there is  *)
(* a better path to it already (existing).                                 *)
(***************************************************************************)
LEMMA OrderCanonicalize ==
  ASSUME LoadingInv, OrderInv, changes = 0, Canonicalize
  PROVE  OrderInv'
<1> DEFINE c == Candidates(env)
           K == Classes
           k == Past
           new == [place |-> entry, file |-> FileAt(entry)]
           y == Len(yielded)
<1>0. BestSoFar(c, Done, K, disk, yielded, seen)
  BY DEF OrderInv
<1>1. /\ env \in Environments /\ entry \in Disk /\ disk \in Disks
      /\ entry # Absent /\ disk[entry] # Absent /\ entry = c[k]
      /\ disk \in [Disk -> Disk \cup {Absent}]
      /\ yielded \in Seq([place : Disk, file : Disk \cup {Absent}])
  BY DEF LoadingInv, SearchInv, RestInv, MemoryInv, OrderInv, Canonicalize
<1>2. k \in 1..Len(c) /\ Len(c) \in Nat
  <2>1. Len(c) \in Nat /\ Len(rest) \in Nat
    BY <1>1, CandidateTypes DEF LoadingInv, RestInv
  <2>2. k > 0 /\ k = Len(c) - Len(rest)
    BY <1>1 DEF LoadingInv, RestInv, Past
  <2> QED
    BY <2>1, <2>2
<1>3. /\ env' = env /\ disk' = disk /\ changes' = 0 /\ rest' = rest
      /\ entry' = Absent
      /\ seen' = seen \cup {IdentityOn(disk, entry)}
      /\ yielded' = IF IdentityOn(disk, entry) \in seen THEN yielded
                                                        ELSE Append(yielded, new)
      /\ new.place = entry /\ new.file = disk[entry]
  <2>1. FileAt(entry) = disk[entry]
    BY <1>1 DEF FileAt
  <2>2. Identity(entry) = IdentityOn(disk, entry)
    BY <2>1 DEF Identity, IdentityOn
  <2> QED
    BY <2>1, <2>2 DEF Canonicalize
<1>4. /\ Candidates(env)' = c /\ Classes' = K /\ Past' = k
      /\ Done = 1..(k - 1) /\ Done' = 1..k
  BY <1>1, <1>3 DEF Candidates, Classes, Past, Done
<1>5. /\ \A i \in 1..y : /\ \E n \in 1..(k - 1) : yielded[i].place = c[n]
                         /\ yielded[i].place \in Disk
                         /\ yielded[i].file = disk[yielded[i].place]
                         /\ yielded[i].file # Absent
      /\ y \in Nat /\ DOMAIN yielded = 1..y
  <2>1. y \in Nat /\ DOMAIN yielded = 1..y
    BY <1>1
  <2>2. \A i \in 1..y : yielded[i] \in [place : Disk, file : Disk \cup {Absent}]
    BY <1>1, ElementOfSeq
  <2> QED
    BY <1>0, <1>4, <2>1, <2>2 DEF BestSoFar
<1>6. \A j \in 1..y : \A i \in 1..j :
        ClassIn(K, yielded[i].place) <= ClassIn(K, yielded[j].place)
  BY <1>0, <1>5 DEF BestSoFar
<1>7. \A n \in 1..(k - 1) : c[n] \in Disk /\ disk[c[n]] # Absent =>
        /\ IdentityOn(disk, c[n]) \in seen
        /\ \E i \in 1..y : /\ yielded[i].file = disk[c[n]]
                           /\ ClassIn(K, yielded[i].place) <= ClassIn(K, c[n])
  BY <1>0, <1>4, <1>5 DEF BestSoFar
<1>8. \A x \in seen : \E i \in 1..y : IdentityOn(disk, yielded[i].place) = x
  BY <1>0, <1>5 DEF BestSoFar
<1>9. ASSUME \A n \in 1..(k - 1) : c[n] # entry, NEW i \in 1..y
      PROVE  ClassIn(K, yielded[i].place) <= ClassIn(K, entry)
  <2>1. PICK n \in 1..(k - 1) : yielded[i].place = c[n]
    BY <1>5
  <2> QED
    BY <1>1, <1>2, <1>5, <1>9, <2>1, RankOfCandidates
<1>10. ClassIn(K, entry) \in Nat
  BY <1>1, <1>2, RankIsNat
<1> HIDE DEF c, K, k, new, y
<1>11. ASSUME IdentityOn(disk, entry) \in seen
       PROVE  BestSoFar(c, 1..k, K, disk, yielded', seen')
  <2>1. yielded' = yielded /\ seen' = seen
    BY <1>3, <1>11
  <2>2. \E i \in 1..y : /\ yielded[i].file = disk[entry]
                        /\ ClassIn(K, yielded[i].place) <= ClassIn(K, entry)
    <3>1. CASE \A n \in 1..(k - 1) : c[n] # entry
      <4>1. PICK i \in 1..y :
              IdentityOn(disk, yielded[i].place) = IdentityOn(disk, entry)
        BY <1>8, <1>11
      <4>2. yielded[i].file = disk[entry]
        BY <1>1, <1>5, <4>1, SameIdentitySameFile
      <4> QED
        BY <1>9, <3>1, <4>2
    <3>2. ASSUME NEW n \in 1..(k - 1), c[n] = entry
          PROVE  \E i \in 1..y : /\ yielded[i].file = disk[entry]
                                 /\ ClassIn(K, yielded[i].place) <= ClassIn(K, entry)
      BY <1>1, <1>7, <3>2
    <3> QED
      BY <3>1, <3>2
  <2>3. \A i \in 1..y : \E n \in 1..k : yielded[i].place = c[n]
    BY <1>2, <1>5
  <2>4. ASSUME NEW n \in 1..k, c[n] \in Disk, disk[c[n]] # Absent
        PROVE  /\ IdentityOn(disk, c[n]) \in seen
               /\ \E i \in 1..y : /\ yielded[i].file = disk[c[n]]
                                  /\ ClassIn(K, yielded[i].place) <= ClassIn(K, c[n])
    <3>1. CASE n = k
      BY <1>1, <1>11, <2>2, <3>1
    <3>2. CASE n \in 1..(k - 1)
      BY <1>7, <2>4, <3>2
    <3> QED
      BY <1>2, <3>1, <3>2
  <2> QED
    BY <1>5, <1>6, <1>8, <2>1, <2>3, <2>4 DEF BestSoFar
<1>12. ASSUME IdentityOn(disk, entry) \notin seen
       PROVE  BestSoFar(c, 1..k, K, disk, yielded', seen')
  <2>1. \A n \in 1..(k - 1) : c[n] # entry
    BY <1>1, <1>7, <1>12
  <2>2. /\ DOMAIN yielded' = 1..(y + 1)
        /\ \A i \in 1..y : yielded'[i] = yielded[i]
        /\ yielded'[y + 1] = new
    <3>1. new \in [place : Disk, file : Disk \cup {Absent}]
      BY <1>1 DEF new, FileAt
    <3>2. yielded' = Append(yielded, new)
      BY <1>3, <1>12
    <3> QED
      BY <1>1, <3>1, <3>2, AppendProperties, LenProperties DEF y
  <2>3. ASSUME NEW i \in 1..(y + 1)
        PROVE  /\ \E n \in 1..k : yielded'[i].place = c[n]
               /\ yielded'[i].file = disk[yielded'[i].place]
               /\ yielded'[i].file # Absent
    <3>1. CASE i = y + 1
      <4>1. yielded'[i].place = entry /\ yielded'[i].file = disk[entry]
        BY <1>3, <2>2, <3>1
      <4> QED
        BY <1>1, <1>2, <4>1
    <3>2. CASE i \in 1..y
      BY <1>2, <1>5, <2>2, <3>2
    <3> QED
      BY <1>5, <3>1, <3>2
  <2>4. \A j \in 1..(y + 1) : \A i \in 1..j :
          ClassIn(K, yielded'[i].place) <= ClassIn(K, yielded'[j].place)
    <3> SUFFICES ASSUME NEW j \in 1..(y + 1), NEW i \in 1..j
                 PROVE  ClassIn(K, yielded'[i].place) <= ClassIn(K, yielded'[j].place)
      OBVIOUS
    <3>1. CASE j \in 1..y
      BY <1>5, <1>6, <2>2, <3>1
    <3>2. CASE j = y + 1 /\ i \in 1..y
      BY <1>3, <1>9, <2>1, <2>2, <3>2
    <3>3. CASE j = y + 1 /\ i = y + 1
      BY <1>3, <1>10, <2>2, <3>3
    <3> QED
      BY <1>5, <3>1, <3>2, <3>3
  <2>5. ASSUME NEW n \in 1..k, c[n] \in Disk, disk[c[n]] # Absent
        PROVE  /\ IdentityOn(disk, c[n]) \in seen'
               /\ \E i \in 1..(y + 1) :
                    /\ yielded'[i].file = disk[c[n]]
                    /\ ClassIn(K, yielded'[i].place) <= ClassIn(K, c[n])
    <3>1. CASE n = k
      <4>1. c[n] = entry /\ y + 1 \in 1..(y + 1)
        BY <1>1, <1>5, <3>1
      <4>2. yielded'[y + 1].file = disk[entry] /\ yielded'[y + 1].place = entry
        BY <1>3, <2>2
      <4> QED
        BY <1>3, <1>10, <4>1, <4>2
    <3>2. CASE n \in 1..(k - 1)
      <4>1. IdentityOn(disk, c[n]) \in seen
        BY <1>7, <2>5, <3>2
      <4>2. PICK i \in 1..y : /\ yielded[i].file = disk[c[n]]
                              /\ ClassIn(K, yielded[i].place) <= ClassIn(K, c[n])
        BY <1>7, <2>5, <3>2
      <4>3. i \in 1..(y + 1) /\ yielded'[i] = yielded[i]
        BY <1>5, <2>2
      <4> QED
        BY <1>3, <4>1, <4>2, <4>3
    <3> QED
      BY <1>2, <3>1, <3>2
  <2>6. ASSUME NEW x \in seen'
        PROVE  \E i \in 1..(y + 1) : IdentityOn(disk, yielded'[i].place) = x
    <3>1. CASE x \in seen
      <4>1. PICK i \in 1..y : IdentityOn(disk, yielded[i].place) = x
        BY <1>8, <3>1
      <4>2. i \in 1..(y + 1) /\ yielded'[i] = yielded[i]
        BY <1>5, <2>2
      <4> QED
        BY <4>1, <4>2
    <3>2. CASE x = IdentityOn(disk, entry)
      <4>1. y + 1 \in 1..(y + 1) /\ yielded'[y + 1].place = entry
        BY <1>3, <1>5, <2>2
      <4> QED
        BY <3>2, <4>1
    <3> QED
      BY <1>3, <2>6, <3>1, <3>2
  <2> QED
    BY <2>2, <2>3, <2>4, <2>5, <2>6 DEF BestSoFar
<1> QED
  <2>1. BestSoFar(c, 1..k, K, disk, yielded', seen')
    BY <1>11, <1>12
  <2> QED
    BY <1>3, <1>4, <2>1 DEF OrderInv

(***************************************************************************)
(* Looking at a candidate passes one that is no file over, and keeps one   *)
(* that is for Canonicalize (existing).                                    *)
(***************************************************************************)
LEMMA OrderLook ==
  ASSUME LoadingInv, OrderInv, changes = 0, NotAFile \/ IsFile
  PROVE  OrderInv'
<1> DEFINE c == Candidates(env)
           K == Classes
           k == Past
<1>1. /\ env \in Environments /\ rest # <<>> /\ rest' = Tail(rest) /\ entry = Absent
      /\ UNCHANGED <<env, disk, changes, seen, yielded>>
  BY DEF LoadingInv, RestInv, NotAFile, IsFile
<1>2. k \in Nat /\ Past' = k + 1 /\ Head(rest) = c[k + 1]
  BY <1>1, RestShrinks DEF LoadingInv
<1>3. Candidates(env)' = c /\ Classes' = K /\ Done = 1..k
  BY <1>1 DEF Candidates, Classes, Done
<1>4. BestSoFar(c, 1..k, K, disk, yielded, seen)
  BY <1>3 DEF OrderInv
<1> HIDE DEF c, K, k
<1>5. CASE NotAFile
  <2>1. ~(c[k + 1] \in Disk /\ disk[c[k + 1]] # Absent)
    BY <1>2, <1>5 DEF NotAFile, FileAt
  <2>2. entry' = Absent /\ Done' = 1..(k + 1)
    BY <1>1, <1>2, <1>5 DEF NotAFile, Done
  <2>3. 1..(k + 1) = 1..k \cup {k + 1}
    BY <1>2
  <2>4. BestSoFar(c, 1..(k + 1), K, disk, yielded, seen)
    BY <1>4, <2>1, <2>3 DEF BestSoFar
  <2> QED
    BY <1>1, <1>3, <2>2, <2>4 DEF OrderInv
<1>6. CASE IsFile
  <2>1. entry' = Head(rest) /\ FileAt(Head(rest)) # Absent
    BY <1>6 DEF IsFile
  <2>2. entry' \in Disk /\ disk[entry'] # Absent
    BY <2>1 DEF FileAt
  <2>3. Done' = 1..k
    <3>1. entry' # Absent /\ (k + 1) - 1 = k
      BY <1>2, <2>2, DiskAssumption
    <3> QED
      BY <1>2, <3>1 DEF Done
  <2> QED
    BY <1>1, <1>3, <1>4, <2>2, <2>3 DEF OrderInv
<1> QED
  BY <1>5, <1>6

(***************************************************************************)
(* No step of the search brings the paths out of order, and a change of    *)
(* the disk ends what is promised.                                         *)
(***************************************************************************)
LEMMA OrderStep == LoadingInv /\ OrderInv /\ [Next]_vars => OrderInv'
<1> SUFFICES ASSUME LoadingInv, OrderInv, [Next]_vars
             PROVE  OrderInv'
  OBVIOUS
<1>1. changes \in Nat
  BY MaxChangesAssumption DEF LoadingInv, MemoryInv
<1>2. ASSUME NEW p \in Disk, DiskChanges(p)
      PROVE  OrderInv'
  BY <1>1, <1>2 DEF DiskChanges, OrderInv
<1>3. CASE NotAFile \/ IsFile
  <2>1. changes' = changes
    BY <1>3 DEF NotAFile, IsFile
  <2> QED
    BY <1>3, <2>1, OrderLook DEF OrderInv
<1>4. CASE Canonicalize
  <2>1. changes' = changes
    BY <1>4 DEF Canonicalize
  <2> QED
    BY <1>4, <2>1, OrderCanonicalize DEF OrderInv
<1>5. CASE UNCHANGED <<env, disk, changes, rest, entry, seen, yielded>>
  <2>1. Candidates(env)' = Candidates(env) /\ Classes' = Classes /\ Done' = Done
    BY <1>5 DEF Candidates, Classes, Done, Past
  <2> QED
    BY <1>5, <2>1 DEF OrderInv
<1> QED
  BY <1>2, <1>3, <1>4, <1>5
  DEF Next, OpenFound, OpenByName, OpenLibrary, FromLibrary, SymbolMissing,
      DropRuntime, vars, iterVars

(***************************************************************************)
(* On a disk that does not change, find_library_path yields the paths in   *)
(* the documented order and hides no library, for every environment and    *)
(* disk, whatever is linked to what and whatever cannot be canonicalized.  *)
(***************************************************************************)
THEOREM BestComesFirst == Spec => []BestFirst
<1>1. LoadingInv /\ OrderInv => BestFirst
  <2> SUFFICES ASSUME LoadingInv, OrderInv, changes = 0
               PROVE  /\ \A i, j \in DOMAIN yielded :
                           i < j => Rank(yielded[i].place) <= Rank(yielded[j].place)
                      /\ \A p \in Examined : FileAt(p) # Absent =>
                           \E i \in DOMAIN yielded :
                             /\ yielded[i].file = FileAt(p)
                             /\ Rank(yielded[i].place) <= Rank(p)
    BY DEF BestFirst
  <2> DEFINE c == Candidates(env)
             k == Past
  <2>1. BestSoFar(c, Done, Classes, disk, yielded, seen)
    BY DEF OrderInv
  <2>2. \A p : Rank(p) = ClassIn(Classes, p)
    BY DEF Rank, ClassIn
  <2>3. k \in 0..Len(c) /\ Len(c) \in Nat /\ c \in Seq(Paths(env))
    <3>1. /\ c \in Seq(Paths(env)) /\ rest \in Seq(Paths(env))
          /\ Len(rest) <= Len(c)
      BY CandidateTypes DEF LoadingInv, RestInv
    <3>2. Len(c) \in Nat /\ Len(rest) \in Nat /\ k = Len(c) - Len(rest)
      BY <3>1 DEF Past
    <3> QED
      BY <3>1, <3>2
  <2>4. DOMAIN yielded = 1..Len(yielded) /\ Len(yielded) \in Nat
    BY DEF LoadingInv, SearchInv
  <2>5. ASSUME NEW i \in DOMAIN yielded, NEW j \in DOMAIN yielded, i < j
        PROVE  Rank(yielded[i].place) <= Rank(yielded[j].place)
    <3>1. i \in 1..j
      BY <2>4, <2>5
    <3> QED
      BY <2>1, <2>2, <3>1 DEF BestSoFar
  <2>6. ASSUME NEW p \in Examined, FileAt(p) # Absent
        PROVE  \E i \in DOMAIN yielded : /\ yielded[i].file = FileAt(p)
                                         /\ Rank(yielded[i].place) <= Rank(p)
    <3>1. p \in Disk /\ FileAt(p) = disk[p] /\ p # entry
      BY <2>6 DEF FileAt, Examined
    <3>2. PICK n \in 1..k : c[n] = p
      <4>1. p \in ToSet(SubSeq(c, 1, k))
        BY DEF Examined, Past
      <4>2. /\ DOMAIN SubSeq(c, 1, k) = 1..k
            /\ \A n \in 1..k : SubSeq(c, 1, k)[n] = c[n]
        BY <2>3, SubSeqProperties, LenProperties
      <4> QED
        BY <4>1, <4>2 DEF ToSet
    <3>3. n \in Done
      BY <2>3, <3>1, <3>2 DEF Done, LoadingInv, RestInv
    <3> QED
      BY <2>1, <2>2, <2>6, <3>1, <3>2, <3>3 DEF BestSoFar
  <2> QED
    BY <2>5, <2>6
<1>2. LoadingInv /\ OrderInv /\ [Next]_vars => OrderInv'
  BY OrderStep
<1> QED
  BY <1>1, <1>2, OrderInit, LoadingInvariant, PTL DEF Spec
=============================================================================
