------------------------------ MODULE MCPigOs ------------------------------
(***************************************************************************)
(* Instances of PigOs for TLC: a built-in tree with one file or directory  *)
(* of each kind the kernel tells apart (plain, protected, below a          *)
(* protected one), and the paths a user types.                             *)
(***************************************************************************)
EXTENDS PigOs

MCVfsFile == {Abs(<<"README.txt">>), Abs(<<"wm", "wm.h">>),
              Abs(<<"etc", "passwd">>), NetLog}
MCVfsDir == {Root, Abs(<<"wm">>), Abs(<<"etc">>), Abs(<<"kernel">>),
             Abs(<<"home">>), Abs(<<"var">>), Abs(<<"var", "log">>)}
MCCritical == {<<"etc">>, <<"kernel">>}

\* A plain file, a plain directory, the same with slashes of which one is
\* left, and a name that is a protected file or a new one, as the current
\* directory is the root or not.
FileArgs == {TypedAbs(<<"README.txt">>, 0), TypedAbs(<<"wm">>, 0),
             TypedAbs(<<"wm">>, 2), Typed(<<"etc", "passwd">>, 0)}
\* A walk through the tree, to where menuconfig runs and back.
CfgArgs == {Up, TypedAbs(<<"kernel">>, 0), Typed(<<"..", "wm", ".">>, 1)}
\* A file of a user's home directory.
RcArgs == {TypedAbs(<<"home", "bob", ".lashrc">>, 0)}
=============================================================================
