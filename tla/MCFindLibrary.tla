--------------------------- MODULE MCFindLibrary ----------------------------
(***************************************************************************)
(* Instances of FindLibrary for TLC: a machine with a home directory, where*)
(* the program is started, a usual library directory and /lib, which may be*)
(* a link to it.                                                           *)
(***************************************************************************)
EXTENDS FindLibrary

Home == "/home"
SomePlaces == {Home, Bare, "/usr/lib", "/lib"}
HiddenPlaces == {"/lib"}
Beside == <<"/opt/bin", "/opt/bin/lib", "/opt/lib">>
LoaderDirs == <<"/lib", "/usr/lib">>

SomeEnvironments ==
  [RKLLM_LIB: {Absent, "/lib"}, RKLLM_LIB_DIR: {Absent, Home},
   LD_LIBRARY_PATH: {<<>>, <<Bare, Home>>}]

\* The copy in the usual directory is from an older SDK.
SomeExports ==
  [p \in SomePlaces |->
     IF p = "/usr/lib" THEN Symbols \ {"rkllm_set_cross_attn_params"} ELSE Symbols]
=============================================================================
