------------------------------ MODULE PigPath ------------------------------
(***************************************************************************)
(* Path names of pigFS and their resolution (kernel/pigfs.h, fs_resolve    *)
(* and path_normalize).                                                    *)
(*                                                                         *)
(* An absolute path is its sequence of components and whether its text     *)
(* ends in a slash: "/home/bob/" and "/home/bob" are two different names   *)
(* to every strcmp in the kernel.  The root is the empty sequence, without *)
(* the mark.  What the user types is an argument: absolute or relative,    *)
(* its components as typed, and the number of slashes at its end.          *)
(***************************************************************************)
EXTENDS Naturals, Sequences, SequencesExt

PathOver(S) == [comps: Seq(S), slash: BOOLEAN]
ArgOver(S)  == [abs: BOOLEAN, comps: Seq(S), trail: Nat]

Root == [comps |-> <<>>, slash |-> FALSE]
Abs(c) == [comps |-> c, slash |-> FALSE]
WithSlash(p) == IF p = Root THEN p ELSE [p EXCEPT !.slash = TRUE]

Typed(c, n) == [abs |-> FALSE, comps |-> c, trail |-> n]
TypedAbs(c, n) == [abs |-> TRUE, comps |-> c, trail |-> n]
Up == Typed(<<"..">>, 0)

\* A slash at the end goes, unless the path is the root.
path_normalize(p) == [p EXCEPT !.slash = FALSE]

(* Mutant of GoUp: the scan for the last slash stops too early. *)
MutGoUpStops(out) == path_normalize(out)

\* ".." cuts the text back to the character before its last slash: when the
\* text ends in a slash it is that slash, and no component, that goes.
GoUp(out) ==
  IF out.slash \/ out.comps = <<>>
    THEN path_normalize(out)
    ELSE Abs(Front(out.comps))

(* Mutant of Walk: "." is taken for a name. *)
MutWalkDot(out, c) == IF c = ".." THEN GoUp(out) ELSE Abs(Append(out.comps, c))

\* One component of a relative argument.
Walk(out, c) ==
  IF c = ".." THEN GoUp(out)
  ELSE IF c = "." THEN out
  ELSE Abs(Append(out.comps, c))

\* A relative argument is walked from cwd; an absolute one is taken as it is
\* typed, "." and ".." included.  path_normalize then takes one slash off the
\* end and makes one slash of each run of them, so that one is left of two.
fs_resolve(cwd, a) ==
  IF a = Typed(<<"~">>, 0) THEN Root
  ELSE IF ~a.abs THEN path_normalize(FoldLeft(Walk, cwd, a.comps))
  ELSE IF a.trail < 2 THEN Abs(a.comps)
  ELSE WithSlash(Abs(a.comps))

(***************************************************************************)
(* What a relative argument means: the names that are left when every      *)
(* "..", with the name before it, and every "." are struck out: a name     *)
(* stays when no later ".." climbs back above it.                          *)
(***************************************************************************)
DepthNext(d, c) ==
  CASE c = "."  -> d
    [] c = ".." -> IF d = 0 THEN 0 ELSE d - 1
    [] OTHER    -> d + 1

\* After the first j components: the names opened and not closed again.
Depth(s) ==
  LET d[j \in 0..Len(s)] == IF j = 0 THEN 0 ELSE DepthNext(d[j - 1], s[j])
  IN d

\* The names that are left of the first k components, and what they spell.
Kept(s, k) ==
  {i \in 1..k : /\ s[i] \notin {".", ".."}
                /\ \A j \in i..k : Depth(s)[j] >= Depth(s)[i]}
NameAt(s, k, n) == s[CHOOSE i \in Kept(s, k) : Depth(s)[i] = n]
MeaningUpTo(s, k) == [n \in 1..Depth(s)[k] |-> NameAt(s, k, n)]
Meaning(s) == MeaningUpTo(s, Len(s))
=============================================================================
