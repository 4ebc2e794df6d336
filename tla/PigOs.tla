------------------------------- MODULE PigOs -------------------------------
(***************************************************************************)
(* A pigOS machine: pigFS (module PigFs) with the parts of the kernel and  *)
(* of the shell that keep their state in it or lose their state with it:   *)
(* users and groups (kernel/users.h), the package manager (shell/rpk.h),   *)
(* the module configuration (shell/menuconfig.h, kernel.c rt_cfg), boot,   *)
(* reboot and halt (kernel.c, poing.h, shell.h).                           *)
(***************************************************************************)
EXTENDS PigFs

CONSTANTS
  UserNames,   \* names adduser may be given
  GroupNames,  \* names groupadd may be given
  GROUP_HEAD,  \* the words of a Group before its members: name and gid
  Pkgs,        \* packages of rpk_db, none of them installed at boot
  NetLogs,     \* what the network log may hold after a network command
  MAX_U, MAX_G,
  RPK_INSTALLED_CMDS

\* The name of a group that no one can type: the empty one, or one whose
\* first word holds an index.
NoName == "(no name)"

ASSUME OsAssumption ==
  /\ MAX_U \in Nat \ {0}
  /\ MAX_G \in Nat /\ MAX_G >= 3
  /\ GROUP_HEAD \in Nat \ {0}
  /\ NoName \notin GroupNames
  /\ MEMFS_MAX >= 3
  /\ RPK_INSTALLED_CMDS \in Nat
  /\ IsFiniteSet(Pkgs) /\ Cardinality(Pkgs) <= RPK_INSTALLED_CMDS

VARIABLES
  users,      \* users[0..nu-1]
  groups,     \* the table of MAX_G groups, counted from 1
  ng,         \* how many of them are in use
  added,      \* whom adduser and usermod added to each group (not in the code)
  over,       \* the first group written past its end, MAX_G + 1 for none
  installed,  \* the packages whose installed flag is set
  cmds,       \* rpk_installed_cmds[0..rpk_ncmds-1]
  mcfg,       \* the menuconfig setting of one kernel module
  cfg         \* whether the kernel started that module at boot

userVars == <<users, groups, ng, added, over>>
rpkVars  == <<installed, cmds>>
cfgVars  == <<mcfg, cfg, net_log>>
vars == <<fsVars, sh_cwd, halted, userVars, rpkVars, cfgVars>>
-----------------------------------------------------------------------------
(* Names and texts the kernel itself uses. *)
SkelDir     == WithSlash(Abs(<<"etc", "skel">>))
SkelRc      == Abs(<<"etc", "skel", ".lashrc">>)
SkelProfile == Abs(<<"etc", "skel", ".lashrc-profile">>)
MCFG_PATH   == Abs(<<"etc", "pigos.conf">>)

Home(u)        == WithSlash(Abs(<<"home", u>>))
HomeRc(u)      == Abs(<<"home", u, ".lashrc">>)
HomeProfile(u) == Abs(<<"home", u, ".lashrc-profile">>)
UsrBin(k)      == Abs(<<"usr", "bin", k>>)

\* /etc is protected, and no built-in file lies in a home directory.
ASSUME TreeAssumption ==
  /\ <<"etc">> \in CRITICAL_PATHS
  /\ \A u \in UserNames : HomeRc(u) \notin VFS /\ HomeProfile(u) \notin VFS

RcText      == "# .lashrc"
ProfileText == "# .lashrc-profile"
ConfText(v) == IF v THEN "CONFIG_X=y" ELSE "CONFIG_X is not set"
BinText     == "[installed binary]"

\* What the kernel makes of the configuration file at boot.
rt_cfg(m) ==
  LET k == memfs_find(m, MCFG_PATH)
  IN k # 0 => m[k].content # ConfText(FALSE)
-----------------------------------------------------------------------------
(* Boot.  RAM is cleared except the store of deleted names, whose magic    *)
(* number tells whether the reset left it alone.                           *)
NoFiles == <<>>
(* Mutant of SkelFiles: the second file of the skeleton is not made. *)
MutSkelNoProfile == PutFile(PutDir(NoFiles, SkelDir), SkelRc, RcText)

SkelFiles ==
  PutFile(PutFile(PutDir(NoFiles, SkelDir), SkelRc, RcText),
          SkelProfile, ProfileText)

User(u) == [name |-> u, active |-> TRUE]
Group(g, n) == [name |-> g, mem |-> [j \in 0..(MAX_U - 1) |-> 0], nm |-> n]

\* The groups of a fresh machine; the table is static memory, cleared at boot.
FreshGroups ==
  [k \in 1..MAX_G |-> CASE k = 1 -> Group("root", 1)
                        [] k = 2 -> Group("wheel", 1)
                        [] k = 3 -> Group("users", 0)
                        [] OTHER -> Group(NoName, 0)]
FreshAdded == [k \in 1..MAX_G |-> IF k <= 2 THEN {0} ELSE {}]

users_init ==
  /\ memfs' = SkelFiles
  /\ users' = <<User("root")>>
  /\ groups' = FreshGroups
  /\ ng' = 3
  /\ added' = FreshAdded
  /\ over' = MAX_G + 1

kernel_main ==
  /\ cfg' = rt_cfg(NoFiles)
  /\ users_init
  /\ sh_cwd' = Root
  /\ installed' = {}
  /\ cmds' = <<>>
  /\ mcfg' = TRUE
  /\ net_log' \in NetLogs \cup {Empty}
  /\ halted' = FALSE

reboot == kernel_main /\ del_sync_from_store

halt ==
  /\ halted' = TRUE
  /\ UNCHANGED <<fsVars, sh_cwd, userVars, rpkVars, cfgVars>>

\* The power goes and comes back: the magic number is not there.
power_cycle ==
  /\ kernel_main
  /\ del_store' = <<>>
  /\ deleted' = <<>>

Init ==
  /\ memfs = <<[Slot(SkelDir) EXCEPT !.content = DirMark],
               [Slot(SkelRc) EXCEPT !.content = RcText],
               [Slot(SkelProfile) EXCEPT !.content = ProfileText]>>
  /\ users = <<User("root")>>
  /\ groups = FreshGroups
  /\ ng = 3
  /\ added = FreshAdded
  /\ over = MAX_G + 1
  /\ sh_cwd = Root
  /\ installed = {}
  /\ cmds = <<>>
  /\ mcfg = TRUE
  /\ cfg = TRUE
  /\ net_log \in NetLogs \cup {Empty}
  /\ halted = FALSE
  /\ del_store = <<>>
  /\ deleted = <<>>
-----------------------------------------------------------------------------
(* Users and groups.  A member is the index of a user, counted from 0.     *)
ufind(u) == {k \in DOMAIN users : users[k].active /\ users[k].name = u}
gfind(g) == {k \in 1..ng :
               /\ groups[k].name = g
               /\ \A j \in 1..(k - 1) : groups[j].name # g}

(* Mutant of Copied: the target is looked up, not created. *)
MutCopiedIfThere(m, from, to) ==
  IF memfs_find(m, from) = 0 \/ memfs_find(m, to) = 0
    THEN m
    ELSE PutFile(m, to, m[memfs_find(m, from)].content)

\* One file of the skeleton copied into a home directory.
Copied(m, from, to) ==
  IF memfs_find(m, from) = 0
    THEN m
    ELSE PutFile(m, to, m[memfs_find(m, from)].content)
WithHome(m, u) ==
  Copied(Copied(PutDir(m, Home(u)), SkelRc, HomeRc(u)),
         SkelProfile, HomeProfile(u))

(* Mutant of AddMember: nu is stored where nu-1 is meant. *)
MutAddMemberNext(g, ui) ==
  [g EXCEPT !.mem[g.nm] = ui + 1, !.nm = g.nm + 1]

AddMember(g, ui) ==
  [g EXCEPT !.mem[g.nm] = ui, !.nm = g.nm + 1]

cmd_adduser(u) ==
  /\ ufind(u) = {}
  /\ Len(users) < MAX_U
  /\ users' = Append(users, User(u))
  /\ LET in == {k \in gfind("users") : groups[k].nm < MAX_U}
     IN /\ groups' = [k \in 1..MAX_G |->
                        IF k \in in THEN AddMember(groups[k], Len(users))
                                    ELSE groups[k]]
        /\ added' = [k \in 1..MAX_G |->
                        IF k \in in THEN added[k] \cup {Len(users)} ELSE added[k]]
  /\ UNCHANGED <<ng, over>>
  /\ memfs' = WithHome(memfs, u)
  /\ UNCHANGED <<deleted, del_store, sh_cwd, halted, rpkVars, cfgVars>>

cmd_deluser(u) ==
  /\ u # "root"
  /\ \E k \in ufind(u) : users' = [users EXCEPT ![k].active = FALSE]
  /\ UNCHANGED <<groups, ng, added, over>>
  /\ UNCHANGED <<fsVars, sh_cwd, halted, rpkVars, cfgVars>>

\* usermod does not check the index nm.  One past the array lies nm itself,
\* which then holds the user's index or, if the increment is stored last,
\* MAX_U + 1; further on lie the words of the next groups.
GROUP_WORDS == GROUP_HEAD + MAX_U + 1

\* The word at an offset of a group is written over.  With an index in its
\* first word the name ends there; its other words and the gid are not
\* looked at.
Hit(r, o, v) ==
  IF o = 0 THEN [r EXCEPT !.name = NoName]
  ELSE IF o < GROUP_HEAD THEN r
  ELSE IF o < GROUP_HEAD + MAX_U THEN [r EXCEPT !.mem[o - GROUP_HEAD] = v]
  ELSE [r EXCEPT !.nm = v]

\* groups[k].mem[groups[k].nm++] = ui, wherever that is.  Past the end of the
\* whole table it is not followed.
MemberWritten(k, ui) ==
  LET past == groups[k].nm - MAX_U - 1
      h    == k + 1 + past \div GROUP_WORDS
  IN \/ /\ groups[k].nm < MAX_U
        /\ groups' = [groups EXCEPT ![k] = AddMember(@, ui)]
     \/ /\ groups[k].nm = MAX_U
        /\ \E n \in {ui, MAX_U + 1} : groups' = [groups EXCEPT ![k].nm = n]
     \/ /\ groups[k].nm > MAX_U
        /\ h <= MAX_G
        /\ groups' = [groups EXCEPT ![k].nm = @ + 1,
                                    ![h] = Hit(@, past % GROUP_WORDS, ui)]

cmd_usermod(g, u) ==
  /\ \E ui \in ufind(u), k \in gfind(g) :
       /\ MemberWritten(k, ui - 1)
       /\ added' = [added EXCEPT ![k] = @ \cup {ui - 1}]
       /\ over' = IF groups[k].nm >= MAX_U /\ k < over THEN k ELSE over
  /\ UNCHANGED <<fsVars, sh_cwd, halted, users, ng, rpkVars, cfgVars>>

(* Mutant of cmd_groupadd: the last group in use is written, not the next. *)
MutGroupaddLast(g) ==
  /\ ng < MAX_G
  /\ ng' = ng + 1
  /\ groups' = [groups EXCEPT ![ng] = [@ EXCEPT !.name = g, !.nm = 0]]
  /\ added' = [added EXCEPT ![ng] = {}]
  /\ UNCHANGED <<fsVars, sh_cwd, halted, users, over, rpkVars, cfgVars>>

cmd_groupadd(g) ==
  /\ ng < MAX_G
  /\ ng' = ng + 1
  /\ groups' = [groups EXCEPT ![ng + 1] = [@ EXCEPT !.name = g, !.nm = 0]]
  /\ added' = [added EXCEPT ![ng + 1] = {}]
  /\ UNCHANGED <<fsVars, sh_cwd, halted, users, over, rpkVars, cfgVars>>

\* su: the password typed is the user's; the shell goes to the home directory.
cmd_su(u) ==
  /\ ufind(u) # {}
  /\ sh_cwd' = IF u = "root" THEN Root ELSE Home(u)
  /\ UNCHANGED <<fsVars, halted, userVars, rpkVars, cfgVars>>
-----------------------------------------------------------------------------
(* Packages. *)
rpk_install(k) ==
  /\ k \notin installed
  /\ installed' = installed \cup {k}
  /\ cmds' = IF Len(cmds) < RPK_INSTALLED_CMDS THEN Append(cmds, k) ELSE cmds
  /\ memfs' = PutFile(memfs, UsrBin(k), BinText)
  /\ UNCHANGED <<deleted, del_store, sh_cwd, halted, userVars, cfgVars>>

(* Mutant of rpk_remove: the command stays on the list. *)
MutRemoveKeepsCmd(k) ==
  /\ k \in installed
  /\ installed' = installed \ {k}
  /\ UNCHANGED <<cmds, fsVars, sh_cwd, halted, userVars, cfgVars>>

rpk_remove(k) ==
  /\ k \in installed
  /\ installed' = installed \ {k}
  /\ cmds' = LET at == {j \in DOMAIN cmds : cmds[j] = k}
             IN IF at = {} THEN cmds
                ELSE RemoveAt(cmds, CHOOSE j \in at : \A h \in at : j <= h)
  /\ UNCHANGED <<fsVars, sh_cwd, halted, userVars, cfgVars>>
-----------------------------------------------------------------------------
(* menuconfig, from /kernel.  mcfg_load's loop over a configuration file   *)
(* steps over the end of the text and stops only at the end of the mapped  *)
(* gigabyte: with no handler for the fault, the machine starts again.      *)
McfgLoads ==
  LET k == memfs_find(memfs, MCFG_PATH)
  IN k # 0 => memfs[k].content = Empty

cmd_menuconfig(v, save) ==
  /\ sh_cwd = Abs(<<"kernel">>)
  /\ McfgLoads
  /\ mcfg' = v
  /\ memfs' = IF save THEN PutFile(memfs, MCFG_PATH, ConfText(v)) ELSE memfs
  /\ UNCHANGED <<deleted, del_store, sh_cwd, halted, userVars, rpkVars>>
  /\ UNCHANGED <<cfg, net_log>>

menuconfig_faults ==
  /\ sh_cwd = Abs(<<"kernel">>)
  /\ ~McfgLoads
  /\ reboot

\* A command that uses the card, which logs what it does.
net_command(text) ==
  /\ net_log' = text
  /\ UNCHANGED <<fsVars, sh_cwd, halted, userVars, rpkVars, mcfg, cfg>>

\* rtldebug keeps the log in a file; an empty log leaves the slot unused.
rtldebug ==
  /\ LET r == memfs_create(memfs, NetLog)
     IN memfs' = IF r.at = 0 THEN r.fs
                 ELSE IF net_log = Empty THEN Freed(r.fs, r.at)
                 ELSE [r.fs EXCEPT ![r.at].content = net_log, ![r.at].used = TRUE]
  /\ UNCHANGED <<deleted, del_store, sh_cwd, halted>>
  /\ UNCHANGED <<userVars, rpkVars, cfgVars>>
-----------------------------------------------------------------------------
FsCommand ==
  /\ \E a \in Args :
       \/ fs_touch(a)
       \/ cmd_mkdir(a)
       \/ cmd_rmdir(a)
       \/ \E text \in Texts : editor_save(a, text)
       \/ \E r, n \in BOOLEAN : fs_rm(a, r, n)
       \/ fs_cd(a)
  /\ UNCHANGED <<userVars, rpkVars, cfgVars>>

UserCommand ==
  \/ \E u \in UserNames : cmd_adduser(u) \/ cmd_deluser(u)
  \/ \E u \in UserNames \cup {"root"} :
       cmd_su(u) \/ \E g \in GroupNames : cmd_usermod(g, u)
  \/ \E g \in GroupNames : cmd_groupadd(g)

RpkCommand == \E k \in Pkgs : rpk_install(k) \/ rpk_remove(k)

CfgCommand ==
  \/ \E v, save \in BOOLEAN : cmd_menuconfig(v, save)
  \/ menuconfig_faults

Command ==
  \/ FsCommand
  \/ UserCommand
  \/ RpkCommand
  \/ CfgCommand
  \/ \E text \in NetLogs : net_command(text)
  \/ rtldebug
  \/ reboot
  \/ halt

Next ==
  \/ ~halted /\ Command
  \/ halted /\ power_cycle

Spec == Init /\ [][Next]_vars
-----------------------------------------------------------------------------
(* The paths a state or a command can mention. *)
UserPaths == UNION {{Home(u), HomeRc(u), HomeProfile(u)} : u \in UserNames}
SlotPaths == {memfs[k].path : k \in DOMAIN memfs}
Paths ==
  VFS \cup SlotPaths \cup UserPaths \cup ToSet(del_store)
  \cup {UsrBin(k) : k \in Pkgs} \cup {MCFG_PATH, NetLog}
  \cup {fs_resolve(sh_cwd, a) : a \in Args}

\* What the components of a path, and the texts of a file, can be.
KernelNames ==
  {"etc", "skel", ".lashrc", ".lashrc-profile", "pigos.conf", "var", "log",
   "netdebug.log", "home", "usr", "bin"}
Components ==
  (UNION {ToSet(p.comps) : p \in VFS \cup Args}) \cup UserNames \cup Pkgs \cup KernelNames
Contents ==
  Texts \cup NetLogs
  \cup {Empty, DirMark, RcText, ProfileText, ConfText(TRUE), ConfText(FALSE), BinText}

Path    == PathOver(Components)
MemFile == [path: Path, used: BOOLEAN, is_dir: BOOLEAN, content: Contents]

\* Every table keeps to the size it is declared with, and every slot is a
\* file or a directory of pigfs.h.
TypeOK ==
  /\ memfs \in Seq(MemFile) /\ Len(memfs) <= MEMFS_MAX
  /\ deleted \in Seq(VFS) /\ Len(deleted) <= DELETED_MAX
  /\ Len(del_store) <= DELETED_MAX
  /\ sh_cwd \in Path
  /\ Len(users) \in 1..MAX_U
  /\ DOMAIN groups = 1..MAX_G /\ ng \in 3..MAX_G
  /\ net_log \in NetLogs \cup {Empty}
  /\ installed \subseteq Pkgs
  /\ halted \in BOOLEAN /\ mcfg \in BOOLEAN /\ cfg \in BOOLEAN

\* memfs_find can be asked for any name: no two slots in use and not deleted
\* have the same path, however often it was made, removed and made again.
Unique(m) ==
  \A j, k \in DOMAIN m :
    Live(m, j) /\ Live(m, k) /\ m[j].path = m[k].path => j = k
LiveUnique == Unique(memfs)

\* The list in the kernel's memory and the store at 0x600000 agree after
\* every command, so that a reboot at any moment restores what was known.
MirrorMatches == deleted = del_store

\* A name is listed once: rm of a deleted file does not use up the list.
NoDoubleDelete == IsInjective(del_store)

\* The files and directories is_critical_path protects can always be found
\* on a running machine.
CriticalKept ==
  ~halted => \A p \in VFS : is_critical_path(p) => fs_find_vnode(p)

\* The tables stay sound through every command, failure and restart: types,
\* one live slot for a name, one list of deleted names in two places, without
\* repetitions and without the protected paths.
TablesSound ==
  /\ TypeOK
  /\ LiveUnique
  /\ MirrorMatches
  /\ NoDoubleDelete
  /\ CriticalKept

\* A name on the list stays there, and nothing can be found under it, until
\* the power goes: no command and no reboot brings a deleted file back.
DeletedStays ==
  [][ ~halted => \A p \in ToSet(del_store) :
        p \in ToSet(del_store') /\ ~Exists(p)' ]_vars

\* "rm: removed": nothing can be found any more under a path rm has removed,
\* unless it was a run-time file that hid a built-in one, which comes back.
RemovedIsGone ==
  [][ \A a \in Args, r, n \in BOOLEAN :
        LET p == fs_resolve(sh_cwd, a)
        IN fs_rm(a, r, n) /\ ~halted' /\ ~(InMemfs(p) /\ p \in VFS)
             => ~Exists(p)' ]_fsVars

\* What cat shows of a path changes only by a command that names this path,
\* or by a restart of the machine.  The built-in network log, while it is not
\* deleted and no saved copy hides it, is no file but the driver's log
\* (pigfs.h:497-503) and changes with every network command.
Names(p) ==
  \/ \E a \in Args :
       /\ fs_resolve(sh_cwd, a) = p
       /\ \/ fs_touch(a)
          \/ cmd_mkdir(a)
          \/ cmd_rmdir(a)
          \/ \E text \in Texts : editor_save(a, text)
          \/ \E r, n \in BOOLEAN : fs_rm(a, r, n)
  \/ \E u \in UserNames :
       cmd_adduser(u) /\ p \in {Home(u), HomeRc(u), HomeProfile(u)}
  \/ \E k \in Pkgs : rpk_install(k) /\ p = UsrBin(k)
  \/ \E v \in BOOLEAN : cmd_menuconfig(v, TRUE) /\ p = MCFG_PATH
  \/ rtldebug /\ p = NetLog
LiveLog(p) == p = NetLog /\ ~InMemfs(p) /\ fs_find_vnode(p)
OnlyNamedChange ==
  [][ \A p \in Paths :
        fs_cat(p)' # fs_cat(p) =>
          \/ Names(p)
          \/ kernel_main
          \/ LiveLog(p) /\ \E text \in NetLogs : net_command(text) ]_<<fsVars, net_log>>

\* ls and cat agree: a directory that ls can list shows exactly the names
\* under which something below it can be found, at any depth, but for two
\* kinds of built-in file.  A directory found with a slash at the end of its
\* name shows none of them: the loop over them expects a slash after the name
\* (pigfs.h:384).  And a built-in file whose directory was removed is cut
\* off: rm -r marks the directory alone as deleted, so cat still finds the
\* files in it (after rm -r /wm, cat /wm/wm.h) though ls shows no way there.
CutOff(t, q) ==
  ~InMemfs(q) /\ ~fs_find_vnode(Abs(SubSeq(q.comps, 1, Len(t.comps) + 1)))
FoundBelow(t) ==
  {q \in Paths : /\ Exists(q)
                 /\ Below(t, q)
                 /\ ~InMemfs(q) => ~t.slash
                 /\ ~CutOff(t, q)}
LsAgrees ==
  \A t \in Paths : LsLists(t) =>
    fs_ls(t) \ {""} = {Entry(t, p) : p \in FoundBelow(t)} \ {""}

\* The groups command tells the truth: it shows of a group exactly those whom
\* adduser and usermod added, all of them users of the table, and a group keeps
\* its name.  usermod on a full group ends that, but only for this group and the
\* ones after it in the table, which its writes run into (users.h:129) and which
\* groups reads past their arrays (users.h:142); what their arrays hold are
\* users of the table still.
Members(r) == {r.mem[j] : j \in {i \in 0..(MAX_U - 1) : i < r.nm}}
GroupsTrue ==
  \A g \in 1..ng :
    /\ Members(groups[g]) \subseteq 0..(Len(users) - 1)
    /\ g <= over => groups[g].name # NoName
    /\ g < over => groups[g].nm <= MAX_U /\ Members(groups[g]) = added[g]

\* A user whom adduser adds while three slots are free has both skeleton
\* files, also when files of these names were made or removed before.
HomeComplete ==
  [][ \A u \in UserNames :
        cmd_adduser(u) /\ Len(memfs) + 3 <= MEMFS_MAX
          => Exists(HomeRc(u))' /\ Exists(HomeProfile(u))' ]_vars

\* The commands rpk made runnable are the packages it shows as installed,
\* each once.
CmdsAreInstalled == ToSet(cmds) = installed /\ IsInjective(cmds)

\* A relative path means what its components mean, from a directory whose
\* name has no slash at its end and no "." or ".." in it, which only an
\* absolute argument can put there.
ResolvesAsMeant ==
  (~sh_cwd.slash /\ {".", ".."} \cap ToSet(sh_cwd.comps) = {}) =>
    \A a \in Args :
      ~a.abs /\ a # Typed(<<"~">>, 0) =>
        fs_resolve(sh_cwd, a) = Abs(Meaning(sh_cwd.comps \o a.comps))
-----------------------------------------------------------------------------
(* What the code's own messages and comments say. *)

\* "touch: created" (pigfs.h:517): the file touch has created can be found,
\* unless the name is one of a built-in file that was removed: the slot made
\* for it stays hidden by the list of deleted names.
TouchedExists ==
  [][ \A a \in Args :
        LET p == fs_resolve(sh_cwd, a)
        IN fs_touch(a) /\ memfs' # memfs => Exists(p)' \/ fs_is_deleted(p) ]_vars

\* What touch and rm say they did is so.
MessagesTrue == TouchedExists /\ RemovedIsGone

\* "Go up" (pigfs.h:225): cd .. leads to a directory nearer the root, except
\* from a directory whose name has a slash at its end: of such a name, which
\* pigfs.h:214 says is copied without it, only the slash goes.
CdUpLeaves ==
  [][ fs_cd(Up) /\ sh_cwd # Root /\ ~sh_cwd.slash
        => Len(sh_cwd'.comps) < Len(sh_cwd.comps) ]_vars
-----------------------------------------------------------------------------
(* The tables implement a store of named files (module FileStore): a file  *)
(* is a slot in use that is not deleted, and a name is gone when either    *)
(* list has it.                                                            *)
File(p, dir, text) == [name |-> p, is_dir |-> dir, content |-> text]
Files(m) ==
  {File(m[k].path, m[k].is_dir, m[k].content) : k \in {j \in DOMAIN m : Live(m, j)}}
Gone == ToSet(deleted) \cup ToSet(del_store)
Bundle(u) == {Home(u), HomeRc(u), HomeProfile(u)}

Store == INSTANCE FileStore WITH
  BuiltIn <- VFS,
  Fresh <- {File(SkelDir, TRUE, DirMark), File(SkelRc, FALSE, RcText),
            File(SkelProfile, FALSE, ProfileText)},
  Bundles <- {Bundle(u) : u \in UserNames},
  files <- Files(memfs),
  gone <- Gone

\* Slots that are never given back, slots hidden by the list of deleted names,
\* a table or a list that is full, and the two copies of the list show only
\* as steps of the store, or as no step at all.
RefinesStore == Store!Spec
=============================================================================
