---- MODULE MCActionCache ----
(* `gen' reads a directory among the sources, so it has no key; the file it      *)
(* makes is compiled with a source.  A tree is made of that, a link of the tree, *)
(* and the tree is read through the link; what comes out is a link that leads    *)
(* nowhere.  A runfiles tree is declared and not made.  `test' reads the         *)
(* directory that gen makes, that link and that tree.                            *)
EXTENDS ActionCache, FiniteSetsExt
CONSTANTS s, src, gen, compile, expand, ln, read, runfiles, test,
          g, dir, x, tree, link, gone, nodir, w
MCIns == [a \in Actions |-> CASE a = gen -> {src} [] a = compile -> {s, g} [] a = expand -> {x}
                              [] a = ln -> {tree} [] a = read -> {link, x}
                              [] a = runfiles -> {link} [] a = test -> {dir, gone, nodir}]
MCOuts == [a \in Actions |-> CASE a = gen -> {g, dir} [] a = compile -> {x} [] a = expand -> {tree}
                               [] a = ln -> {link} [] a = read -> {gone}
                               [] a = runfiles -> {nodir} [] a = test -> {w}]
MCMakes == [a \in Actions |-> IF a = runfiles THEN {} ELSE MCOuts[a]]
(* Contents are 0 and 1, and 2 for what is made of a broken input. *)
MCMake(a, d, got, o) ==
  IF \E i \in Ins[a] \ {nodir} : got[i] \in {Absent, Partial, 2} THEN 2
  ELSE IF a = test THEN 0 ELSE (d + SumSet({got[i] : i \in Ins[a]})) % 2
(* Only the compile's command line changes. *)
MCDefs == [a \in Actions |-> IF a = compile THEN {0, 1} ELSE {0}]
====
