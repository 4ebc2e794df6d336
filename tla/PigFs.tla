------------------------------- MODULE PigFs -------------------------------
(***************************************************************************)
(* pigFS (kernel/pigfs.h and the commands of shell/shell.h, vi.h that      *)
(* change files): a constant table of files built into the kernel, a       *)
(* table of files made at run time that hides it, and a list of deleted    *)
(* names kept at a fixed physical address so that it outlives a reboot.    *)
(* The kernel is one thread: a command is one step.                        *)
(***************************************************************************)
EXTENDS PigPath, FiniteSets

CONSTANTS
  VfsFile,         \* paths of the built-in files
  VfsDir,          \* paths of the built-in directories
  CRITICAL_PATHS,  \* component sequences of the protected paths, root apart
  MEMFS_MAX,
  DELETED_MAX,
  Args,            \* what the user may type as a path
  Texts            \* what the user may save from an editor

ASSUME FsAssumption ==
  /\ MEMFS_MAX \in Nat
  /\ DELETED_MAX \in Nat
  /\ Root \in VfsDir /\ Abs(<<"..">>) \notin VfsDir
  /\ \A p \in VfsFile \cup VfsDir : p \in PathOver(ToSet(p.comps)) /\ ~p.slash
  /\ \A a \in Args : a \in ArgOver(ToSet(a.comps))

VARIABLES
  memfs,      \* the slots taken so far; memfs_n is the length
  deleted,    \* deleted_paths[0..deleted_n-1]
  del_store,  \* the copy at 0x600000
  sh_cwd,
  halted,     \* the machine has stopped
  net_log     \* the text of the network driver's log, Empty for none

fsVars == <<memfs, deleted, del_store>>

VFS == VfsFile \cup VfsDir
Empty == ""
DirMark == "[dir]"
NetLog == Abs(<<"var", "log", "netdebug.log">>)
-----------------------------------------------------------------------------
(* Looking names up. *)
fs_is_deleted(p) == p \in ToSet(del_store) \cup ToSet(deleted)

Live(m, k) == m[k].used /\ ~fs_is_deleted(m[k].path)
Matches(m, p) == {k \in DOMAIN m : m[k].path = p /\ Live(m, k)}

\* The first slot in use under the name, or 0 for NULL.
memfs_find(m, p) ==
  LET found == Matches(m, p)
  IN IF found = {} THEN 0
     ELSE CHOOSE k \in found : \A j \in found : k <= j
InMemfs(p) == memfs_find(memfs, p) # 0
MemDir(p) == InMemfs(p) /\ memfs[memfs_find(memfs, p)].is_dir

fs_find_vnode(p) == p \in VFS /\ ~fs_is_deleted(p)
VnodeDir(p) == fs_find_vnode(p) /\ p \in VfsDir

Exists(p) == InMemfs(p) \/ fs_find_vnode(p)

(* Mutant of fs_cat: the log is shown before a saved copy is looked for. *)
MutCatLogFirst(p) ==
  LET k == memfs_find(memfs, p)
  IN IF p = NetLog /\ fs_find_vnode(p) /\ net_log # Empty THEN net_log
     ELSE IF k # 0 THEN memfs[k].content
     ELSE IF ~fs_find_vnode(p) THEN "cat: No such file or directory"
     ELSE IF p \in VfsDir THEN "cat: Is a directory"
     ELSE "built-in text"

\* What cat shows: the run-time file, else the built-in one.  The built-in
\* network log has no text of its own and shows the driver's log as it is
\* now; the other two logs (pigfs.h:489-495) are never written.
fs_cat(p) ==
  LET k == memfs_find(memfs, p)
  IN IF k # 0 THEN memfs[k].content
     ELSE IF ~fs_find_vnode(p) THEN "cat: No such file or directory"
     ELSE IF p \in VfsDir THEN "cat: Is a directory"
     ELSE IF p = NetLog /\ net_log # Empty THEN net_log
     ELSE "built-in text"
-----------------------------------------------------------------------------
(* The run-time table.  A slot is taken when the name is not found, and    *)
(* never given back.                                                       *)
(* Mutant of Slot: the slot is not marked as used. *)
MutSlotUnused(p) ==
  [path |-> p, used |-> FALSE, is_dir |-> p.slash, content |-> Empty]

Slot(p) == [path |-> p, used |-> TRUE, is_dir |-> p.slash, content |-> Empty]

memfs_create(m, p) ==
  IF memfs_find(m, p) # 0 THEN [fs |-> m, at |-> memfs_find(m, p)]
  ELSE IF Len(m) >= MEMFS_MAX THEN [fs |-> m, at |-> 0]
  ELSE [fs |-> Append(m, Slot(p)), at |-> Len(m) + 1]

\* memfs_create and what its callers write into the entry it returns.
PutFile(m, p, text) ==
  LET r == memfs_create(m, p)
  IN IF r.at = 0 THEN r.fs ELSE [r.fs EXCEPT ![r.at].content = text]
PutDir(m, p) ==
  LET r == memfs_create(m, p)
  IN IF r.at = 0 THEN r.fs
     ELSE [r.fs EXCEPT ![r.at].is_dir = TRUE, ![r.at].content = DirMark]

(* Mutant of Freed: the newest entry is given up, not the one found. *)
MutFreedNewest(m, k) == [m EXCEPT ![Len(m)].used = FALSE]

Freed(m, k) == [m EXCEPT ![k].used = FALSE]
-----------------------------------------------------------------------------
(* The list of deleted names: appended to while there is room, and copied  *)
(* to the store whether or not there was.                                  *)

(* Mutant of fs_mark_deleted: the copy to the store is left out. *)
MutMarkUnsynced(p) ==
  /\ deleted' = IF Len(deleted) < DELETED_MAX THEN Append(deleted, p)
                                              ELSE deleted
  /\ UNCHANGED del_store

fs_mark_deleted(p) ==
  /\ deleted' = IF Len(deleted) < DELETED_MAX THEN Append(deleted, p)
                                              ELSE deleted
  /\ del_store' = deleted'

(* Mutant of del_sync_from_store: the list starts empty at every boot. *)
MutNoSyncAtBoot == deleted' = <<>> /\ UNCHANGED del_store

\* At boot the list is read back; the machine's RAM has kept the store.
del_sync_from_store ==
  /\ deleted' = SubSeq(del_store, 1,
                       IF Len(del_store) > DELETED_MAX THEN DELETED_MAX
                                                       ELSE Len(del_store))
  /\ UNCHANGED del_store

is_critical_path(p) ==
  p = Root \/ \E c \in CRITICAL_PATHS : IsPrefix(c, p.comps)
-----------------------------------------------------------------------------
(* The commands that change files.  A command that only prints an error is *)
(* a step that changes nothing, and is left out.                           *)
FilesOnly == UNCHANGED <<deleted, del_store, sh_cwd, halted>>

fs_touch(a) ==
  LET p == fs_resolve(sh_cwd, a)
  IN /\ ~Exists(p)
     /\ memfs' = memfs_create(memfs, p).fs
     /\ FilesOnly

cmd_mkdir(a) ==
  LET p == fs_resolve(sh_cwd, a)
  IN /\ ~InMemfs(p)
     /\ memfs' = PutDir(memfs, p)
     /\ FilesOnly

cmd_rmdir(a) ==
  LET p == fs_resolve(sh_cwd, a)
  IN /\ MemDir(p)
     /\ memfs' = [memfs EXCEPT ![memfs_find(memfs, p)] =
                    [@ EXCEPT !.used = FALSE, !.is_dir = FALSE,
                              !.content = Empty]]
     /\ FilesOnly

\* Saving from pnano or pivi: the entry found, else a new one, else nothing.
editor_save(a, text) ==
  /\ memfs' = PutFile(memfs, fs_resolve(sh_cwd, a), text)
  /\ FilesOnly

\* rm goes ahead: the root needs --no-preserve-root, a directory needs -r.
RmAllowed(p, recursive, no_preserve_root) ==
  /\ p = Root => no_preserve_root
  /\ Exists(p)
  /\ (VnodeDir(p) \/ MemDir(p)) => recursive

rm_panics(p) ==
  /\ is_critical_path(p)
  /\ halted' = TRUE
  /\ UNCHANGED <<memfs, deleted, del_store, sh_cwd>>
rm_memfile(p) ==
  /\ ~is_critical_path(p)
  /\ InMemfs(p)
  /\ memfs' = Freed(memfs, memfs_find(memfs, p))
  /\ FilesOnly

rm_vnode(p) ==
  /\ ~is_critical_path(p)
  /\ ~InMemfs(p)
  /\ fs_mark_deleted(p)
  /\ UNCHANGED <<memfs, sh_cwd, halted>>

fs_rm(a, recursive, no_preserve_root) ==
  LET p == fs_resolve(sh_cwd, a)
  IN /\ RmAllowed(p, recursive, no_preserve_root)
     /\ rm_panics(p) \/ rm_memfile(p) \/ rm_vnode(p)

\* Where cd goes: a run-time directory, with or without the slash at its
\* end, then a built-in one, then the argument taken from the root.
CdTargets(a) ==
  LET p == fs_resolve(sh_cwd, a)
  IN IF MemDir(p) THEN {p}
     ELSE IF MemDir(WithSlash(p)) THEN {WithSlash(p)}
     ELSE IF VnodeDir(p) THEN {p}
     ELSE IF /\ ~fs_find_vnode(p) /\ ~a.abs /\ a.trail < 2
             /\ VnodeDir(Abs(a.comps))
       THEN {Abs(a.comps)}
     ELSE {}
fs_cd(a) ==
  /\ sh_cwd' \in CdTargets(a)
  /\ UNCHANGED <<memfs, deleted, del_store, halted>>
-----------------------------------------------------------------------------
(* What ls shows of a directory: the built-in entries right below it, and  *)
(* the first component below it of every run-time file.                    *)
Below(d, p) ==
  IsPrefix(d.comps, p.comps) /\ Len(p.comps) > Len(d.comps)
\* The directory's own name with a slash is an entry too, with no text.
Itself(d, p) == p = WithSlash(d) /\ p # d
Entry(d, p) == IF Below(d, p) THEN p.comps[Len(d.comps) + 1] ELSE ""

\* ls tries the path, the path with a slash more or less at its end, and the
\* argument taken from the root: a directory it ends at is one of these.
LsLists(t) == VnodeDir(t) \/ MemDir(t)

VnodesIn(t) ==
  {q \in VFS : /\ ~fs_is_deleted(q)
               /\ ~t.slash
               /\ Below(t, q)
               /\ Len(q.comps) = Len(t.comps) + 1}

(* Mutant of MemFilesIn: as in find and grep, deleted names are not skipped. *)
MutUsedFilesIn(t) ==
  {p \in {memfs[k].path : k \in {j \in DOMAIN memfs : memfs[j].used}} :
     Below(t, p) \/ Itself(t, p)}

MemFilesIn(t) ==
  {p \in {memfs[k].path : k \in {j \in DOMAIN memfs : Live(memfs, j)}} :
     Below(t, p) \/ Itself(t, p)}

fs_ls(t) == {Entry(t, p) : p \in VnodesIn(t) \cup MemFilesIn(t)}
=============================================================================
