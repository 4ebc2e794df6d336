------------------------------ MODULE FileStore ------------------------------
(***************************************************************************)
(* What pigFS promises, without its tables: files with names, some names   *)
(* of built-in files that are gone for good, and a restart that brings     *)
(* back the files of a fresh machine but not the names that are gone.      *)
(***************************************************************************)
CONSTANTS
  BuiltIn,  \* names of the files that are part of the kernel
  Fresh,    \* the run-time files of a machine that has just started
  Bundles   \* sets of names that one operation may write together

VARIABLES
  files,    \* the run-time files: records with a name, a kind and a content
  gone      \* the names of removed built-in files

Init == files = Fresh /\ gone = {}

NamesOf(F) == {f.name : f \in F}
Old == files \ files'
New == files' \ files

\* One file, or the files of one bundle, are made or written.
Write ==
  /\ (\E f \in New : New = {f}) \/ \E B \in Bundles : NamesOf(New) \subseteq B
  /\ NamesOf(Old) \subseteq NamesOf(New)
  /\ NamesOf(New) \cap gone = {}
  /\ UNCHANGED gone

Remove ==
  /\ (\E f \in Old : Old = {f}) /\ New = {}
  /\ UNCHANGED gone

\* A built-in file goes; no run-time file hides it.
Delete ==
  /\ \E p \in BuiltIn \ NamesOf(files) : gone' = gone \cup {p}
  /\ UNCHANGED files

Restart(kept) ==
  /\ gone' = kept
  /\ files' = {f \in Fresh : f.name \notin kept}

Next == Write \/ Remove \/ Delete \/ Restart(gone) \/ Restart({})

Spec == Init /\ [][Next]_<<files, gone>>
=============================================================================
