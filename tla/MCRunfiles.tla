---- MODULE MCRunfiles ----
(* A manifest is written, the tree is filled beside a link to it, and `test'     *)
(* reads the tree.  The tree holds links or, under --noenable_runfiles, none:    *)
(* that is the SymlinkTree's own definition and does not change the manifest.    *)
EXTENDS ActionCache
CONSTANTS s, manifest, symlinks, runfiles, test, list, MANIFEST, dir, w
MCIns == [a \in Actions |-> CASE a = manifest -> {s} [] a = symlinks -> {list}
                              [] a = runfiles -> {MANIFEST} [] a = test -> {dir}]
MCOuts == [a \in Actions |-> CASE a = manifest -> {list} [] a = symlinks -> {MANIFEST}
                               [] a = runfiles -> {dir} [] a = test -> {w}]
MCMakes == [a \in Actions |-> CASE a = runfiles -> {} [] a = symlinks -> {MANIFEST, dir}
                                [] OTHER -> MCOuts[a]]
(* Contents are 0 and 1, and 2 for what is made of a broken input. *)
MCMake(a, d, got, o) ==
  IF \E i \in Ins[a] : got[i] \in {Absent, Partial, 2} THEN 2
  ELSE LET of == CHOOSE v \in {got[i] : i \in Ins[a]} : TRUE
       IN  IF o = dir THEN of * d ELSE of
MCDefs == [a \in Actions |-> IF a = symlinks THEN {0, 1} ELSE {0}]
====
