-------------------------------- MODULE Jobs --------------------------------
(***************************************************************************)
(* Job control of larpshell (shell/larpshell/jobs.go with its callers in   *)
(* walk.go, builtins.go and main.go): the job table, the foreground wait,  *)
(* the reaping at each prompt and the goroutine that waits for a           *)
(* background pipeline, against processes that exit or stop at any moment. *)
(*                                                                         *)
(* Three places collect children with wait4: waitForeground takes any      *)
(* child, reapZombies the first process of every job that is marked        *)
(* Running, and the goroutine each process of its pipeline.  A status is   *)
(* collected once, by whoever comes first.  (A fourth is left out: a line  *)
(* with a process substitution runs a second waitForeground in a goroutine *)
(* of its own, expansion.go.)                                              *)
(*                                                                         *)
(* Every process leads a group of its own (SysProcAttr.Setpgid), and       *)
(* waitForeground's setpgid comes after exec and fails, so a signal to a   *)
(* job's group reaches the job's first process only.                       *)
(***************************************************************************)
EXTENDS Naturals, Sequences, SequencesExt

CONSTANTS
  Pids,     \* process ids; none is used twice
  MaxJobs   \* bound on the length of jobTable

ASSUME JobsAssumption == MaxJobs \in Nat

VARIABLES
  proc,       \* kernel: the state of every process
  jobTable,
  pc,         \* what the shell's main goroutine does next
  pids,       \* the argument of waitForeground
  remaining,  \* its processes not collected yet
  waiters,    \* pids each goroutine of a background pipeline has yet to wait for
  entered,    \* pids a job was ever entered for
  exposed     \* pids that ran in a pipeline or were brought back by fg

vars == <<proc, jobTable, pc, pids, remaining, waiters, entered, exposed>>

Entry(p, state) == [pid |-> p, state |-> state]
-----------------------------------------------------------------------------
(* The kernel's side.  "stopped" is a stop no wait4 has reported yet; a    *)
(* process that is "resumed" runs because somebody other than fg or bg     *)
(* continued it.                                                           *)

Runs(p) == proc[p] \in {"running", "resumed"}
Alive(p) == proc[p] \in {"running", "resumed", "stopped", "halted"}

Exit(p) ==
  /\ Alive(p)
  /\ proc' = [proc EXCEPT ![p] = "zombie"]
  /\ UNCHANGED <<jobTable, pc, pids, remaining, waiters, entered, exposed>>

(* Ctrl-Z reaches the first process of the foreground job; a background    *)
(* process may stop because it reads from the terminal; kill stops any.    *)
Stop(p) ==
  /\ Runs(p)
  /\ proc' = [proc EXCEPT ![p] = "stopped"]
  /\ UNCHANGED <<jobTable, pc, pids, remaining, waiters, entered, exposed>>

(* The builtin kill (or anybody else) sends SIGCONT to a stopped process;  *)
(* the job table is left as it is.                                         *)
Resume(p) ==
  /\ proc[p] \in {"stopped", "halted"}
  /\ proc' = [proc EXCEPT ![p] = "resumed"]
  /\ UNCHANGED <<jobTable, pc, pids, remaining, waiters, entered, exposed>>

(* SIGCONT, which also takes back a stop that was not reported. *)
Continued(p) ==
  IF proc[p] \in {"stopped", "halted", "resumed"} THEN [proc EXCEPT ![p] = "running"]
  ELSE proc

(* wait4 has something to say about p: it ended, or (WUNTRACED) stopped. *)
Reportable(p) == proc[p] \in {"zombie", "stopped"}

Collected(p) ==
  [proc EXCEPT ![p] = IF @ = "zombie" THEN "gone" ELSE "halted"]

(* The goroutine of initJobControl: a SIGTSTP the shell itself gets is     *)
(* passed on to every process of the foreground.                           *)
ForwardStop ==
  /\ pc \in {"wait", "stopping"}
  /\ \E p \in ToSet(pids) : Runs(p)
  /\ proc' = [p \in Pids |->
                IF p \in ToSet(pids) /\ Runs(p) THEN "stopped"
                ELSE proc[p]]
  /\ UNCHANGED <<jobTable, pc, pids, remaining, waiters, entered, exposed>>
-----------------------------------------------------------------------------
(* The job table. *)

Listed(table, p) == {k \in DOMAIN table : table[k].pid = p}

(* The loop of cleanupDoneJobsLocked: alive after the first n entries. *)
cleanupDoneJobsLocked(table) ==
  LET alive[n \in 0..Len(table)] ==
        IF n = 0 THEN <<>>
        ELSE IF table[n].state = "Done" THEN alive[n - 1]
        ELSE Append(alive[n - 1], table[n])
  IN  alive[Len(table)]

addJob(p, state) ==
  Append(cleanupDoneJobsLocked(jobTable), Entry(p, state))

(* markJobDone, markJobStopped and markJobRunningByPID change the first    *)
(* entry with the pid, whatever its state.                                 *)
Mark(table, p, state) ==
  IF Listed(table, p) = {} THEN table
  ELSE LET k == CHOOSE k \in Listed(table, p) :
                  \A l \in Listed(table, p) : k <= l
       IN  [table EXCEPT ![k].state = state]

(* Mutant of handleChildReap: a stop is taken for an end. *)
MutReapStopIsDone(table, p) ==
  IF \E k \in Listed(table, p) : table[k].state # "Done"
  THEN Mark(table, p, "Done")
  ELSE table

(* handleChildReap for a process whose status is what proc[p] says; its    *)
(* notification is printed at the next prompt.                             *)
handleChildReap(table, p) ==
  IF \E k \in Listed(table, p) : table[k].state # "Done"
  THEN Mark(table, p, IF proc[p] = "stopped" THEN "Stopped" ELSE "Done")
  ELSE table
-----------------------------------------------------------------------------
(* The main goroutine: main.go's loop. *)

(* Mutant of BgPids: the loop stops at the first job. *)
MutBgPidsFirst ==
  {jobTable[k].pid : k \in {l \in DOMAIN jobTable : l = 1 /\ jobTable[l].state = "Running"}}

(* The processes reapZombies looks at. *)
BgPids == {jobTable[k].pid : k \in {l \in DOMAIN jobTable : jobTable[l].state = "Running"}}

(* reapZombies: each of them that has something to report is collected,    *)
(* in the order of the table; the loop does not wait.                      *)
reapZombies ==
  /\ pc = "reap"
  /\ IF \E p \in BgPids : Reportable(p)
     THEN \E p \in BgPids :
            /\ Reportable(p)
            /\ jobTable' = handleChildReap(jobTable, p)
            /\ proc' = Collected(p)
            /\ UNCHANGED pc
     ELSE /\ pc' = "prompt"
          /\ UNCHANGED <<proc, jobTable>>
  /\ UNCHANGED <<pids, remaining, waiters, entered, exposed>>

(* A line that starts nothing. *)
EmptyLine ==
  /\ pc = "prompt"
  /\ pc' = "reap"
  /\ UNCHANGED <<proc, jobTable, pids, remaining, waiters, entered, exposed>>

Fresh == {p \in Pids : proc[p] = "none"}

Start(ps) ==
  [p \in Pids |-> IF p \in ToSet(ps) THEN "running" ELSE proc[p]]

(* The pipelines a line can start: one or two processes, the first of them *)
(* the one a job is known by.                                              *)
Commands ==
  {<<p>> : p \in Fresh}
    \cup {ps \in Fresh \X Fresh : ps[1] # ps[2]}

(* executePipelineNode whose second process cannot be started: the first   *)
(* runs, but is in no table and nobody waits for it.                       *)
StartFails(p) ==
  /\ pc = "prompt"
  /\ proc' = Start(<<p>>)
  /\ pc' = "reap"
  /\ UNCHANGED <<jobTable, pids, remaining, waiters, entered, exposed>>

(* executeForeground, or executePipelineNode in the foreground: on to      *)
(* waitForeground.                                                         *)
RunForeground(ps) ==
  /\ pc = "prompt"
  /\ proc' = Start(ps)
  /\ pids' = ps
  /\ remaining' = ToSet(ps)
  /\ pc' = "wait"
  /\ exposed' = IF Len(ps) = 1 THEN exposed ELSE exposed \cup ToSet(ps)
  /\ UNCHANGED <<jobTable, waiters, entered>>

(* executeBackground, and executePipelineNode with its goroutine. *)
RunBackground(ps) ==
  /\ pc = "prompt"
  /\ proc' = Start(ps)
  /\ jobTable' = addJob(Head(ps), "Running")
  /\ pc' = "reap"
  /\ IF Len(ps) = 1
     THEN UNCHANGED <<waiters, exposed>>
     ELSE /\ waiters' = waiters \cup {ps}
          /\ exposed' = exposed \cup ToSet(ps)
  /\ entered' = entered \cup {Head(ps)}
  /\ UNCHANGED <<pids, remaining>>

(* The entries fg and bg can name: by number or pid, or the most recent. *)
Nameable == {k \in DOMAIN jobTable : jobTable[k].state # "Done"}

(* fg: the job is marked Running, continued and waited for; it stays in    *)
(* the table.                                                              *)
Fg(k) ==
  LET p == jobTable[k].pid IN
  /\ pc = "prompt"
  /\ jobTable' = Mark(jobTable, p, "Running")
  /\ proc' = Continued(p)
  /\ pids' = <<p>>
  /\ remaining' = {p}
  /\ pc' = "wait"
  /\ exposed' = exposed \cup {p}
  /\ UNCHANGED <<waiters, entered>>

(* bg of a stopped job. *)
Bg(k) ==
  LET p == jobTable[k].pid IN
  /\ pc = "prompt"
  /\ jobTable[k].state = "Stopped"
  /\ jobTable' = Mark(jobTable, p, "Running")
  /\ proc' = Continued(p)
  /\ pc' = "reap"
  /\ UNCHANGED <<pids, remaining, waiters, entered, exposed>>

NoChildren == \A p \in Pids : proc[p] \in {"none", "gone"}

(* waitForeground is done. *)
Return(table) ==
  /\ pc' = "reap"
  /\ pids' = <<>>
  /\ remaining' = {}
  /\ jobTable' = table

(* Mutant of WaitOther: the status of another job's process is dropped. *)
MutWaitOtherDrops(p) ==
  /\ pc = "wait"
  /\ Reportable(p) /\ p \notin remaining
  /\ proc' = Collected(p)
  /\ UNCHANGED <<jobTable, pc, pids, remaining, waiters, entered, exposed>>

(* wait4(-1) in waitForeground returns a process of another job. *)
WaitOther(p) ==
  /\ pc = "wait"
  /\ Reportable(p) /\ p \notin remaining
  /\ jobTable' = handleChildReap(jobTable, p)
  /\ proc' = Collected(p)
  /\ UNCHANGED <<pc, pids, remaining, waiters, entered, exposed>>

(* It returns a foreground process that ended. *)
WaitEnded(p) ==
  /\ pc = "wait"
  /\ proc[p] = "zombie" /\ p \in remaining
  /\ proc' = Collected(p)
  /\ IF remaining = {p}
     THEN Return(jobTable)
     ELSE /\ remaining' = remaining \ {p}
          /\ UNCHANGED <<jobTable, pc, pids>>
  /\ UNCHANGED <<waiters, entered, exposed>>

(* There is no child left to wait for. *)
WaitNone ==
  /\ pc = "wait"
  /\ NoChildren
  /\ Return(jobTable)
  /\ UNCHANGED <<proc, waiters, entered, exposed>>

(* Mutant of WaitStopped: the process that stopped is waited for again. *)
MutWaitStoppedAgain(p) ==
  /\ pc = "wait"
  /\ proc[p] = "stopped" /\ p \in remaining
  /\ proc' = Collected(p)
  /\ pc' = "stopping"
  /\ UNCHANGED <<jobTable, pids, remaining, waiters, entered, exposed>>

(* It returns a foreground process that stopped: SIGTSTP goes to the job's *)
(* group, that is to its first process.                                    *)
WaitStopped(p) ==
  LET leader == Head(pids) IN
  /\ pc = "wait"
  /\ proc[p] = "stopped" /\ p \in remaining
  /\ proc' = IF leader # p /\ Runs(leader)
             THEN [Collected(p) EXCEPT ![leader] = "stopped"]
             ELSE Collected(p)
  /\ remaining' = remaining \ {p}
  /\ pc' = "stopping"
  /\ UNCHANGED <<jobTable, pids, waiters, entered, exposed>>

(* The inner loop waits for each of the other processes in turn. *)
WaitRest(p) ==
  /\ pc = "stopping"
  /\ p \in remaining
  /\ \/ Reportable(p) /\ proc' = Collected(p)
     \/ proc[p] = "gone" /\ UNCHANGED proc
  /\ remaining' = remaining \ {p}
  /\ UNCHANGED <<jobTable, pc, pids, waiters, entered, exposed>>

(* All have stopped or ended: the job is entered as stopped. *)
EnterStopped ==
  /\ pc = "stopping"
  /\ remaining = {}
  /\ Return(addJob(Head(pids), "Stopped"))
  /\ entered' = entered \cup {Head(pids)}
  /\ UNCHANGED <<proc, waiters, exposed>>

(* The goroutine of a background pipeline waits for its next process to    *)
(* end, or finds that somebody else collected it.                          *)
PipelineWaiter(ps) ==
  /\ \/ proc[Head(ps)] = "zombie" /\ proc' = Collected(Head(ps))
     \/ proc[Head(ps)] = "gone" /\ UNCHANGED proc
  /\ waiters' = (waiters \ {ps}) \cup (IF Len(ps) = 1 THEN {} ELSE {Tail(ps)})
  /\ UNCHANGED <<jobTable, pc, pids, remaining, entered, exposed>>
-----------------------------------------------------------------------------
Init ==
  /\ proc = [p \in Pids |-> "none"]
  /\ jobTable = <<>>
  /\ pc = "reap"
  /\ pids = <<>>
  /\ remaining = {}
  /\ waiters = {}
  /\ entered = {}
  /\ exposed = {}

WaitOwn == \E p \in Pids : WaitEnded(p) \/ WaitStopped(p) \/ WaitRest(p)

Wait ==
  \/ \E p \in Pids : WaitOther(p)
  \/ WaitOwn
  \/ WaitNone
  \/ EnterStopped

Line ==
  \/ EmptyLine
  \/ /\ Len(jobTable) < MaxJobs
     /\ \/ \E p \in Fresh : StartFails(p)
        \/ \E ps \in Commands : RunForeground(ps) \/ RunBackground(ps)
        \/ \E k \in Nameable : Fg(k) \/ Bg(k)

Next ==
  \/ \E p \in Pids : Exit(p) \/ Stop(p) \/ Resume(p)
  \/ ForwardStop
  \/ reapZombies
  \/ Line
  \/ Wait
  \/ \E ps \in waiters : PipelineWaiter(ps)

Spec == Init /\ [][Next]_vars

(* The shell goes on when it can, its goroutines too, and the user comes   *)
(* back to the keyboard.  No process has to exit or stop.  wait4 of any    *)
(* child passes over no child for ever, however often another one stops.   *)
FairSpec ==
  /\ Spec
  /\ WF_vars(reapZombies)
  /\ WF_vars(Line)
  /\ WF_vars(Wait)
  /\ WF_vars(WaitOwn)
  /\ \A p \in Pids : WF_vars(WaitOther(p))
-----------------------------------------------------------------------------
(* Every variable has its type. *)
TypeOK ==
  /\ proc \in [Pids -> {"none", "running", "resumed", "stopped", "halted", "zombie", "gone"}]
  /\ jobTable \in Seq([pid: Pids, state: {"Running", "Stopped", "Done"}])
  /\ Len(jobTable) <= MaxJobs
  /\ pc \in {"reap", "prompt", "wait", "stopping"}
  /\ pids \in Seq(Pids) /\ remaining \subseteq ToSet(pids)
  /\ waiters \subseteq Seq(Pids)
  /\ entered \cup exposed \subseteq Pids
  /\ pids = <<>> <=> pc \in {"reap", "prompt"}

Live(p) == {k \in Listed(jobTable, p) : jobTable[k].state # "Done"}

(* A process that was given to the background, or stopped in the           *)
(* foreground, can be named by fg, bg and kill until it has ended: no      *)
(* clean-up, mark or reaping in any of the three places forgets it, however *)
(* often it is stopped and brought back.                                   *)
NeverForgotten == \A p \in entered : Alive(p) => Live(p) # {}

(* jobs tells the truth about a job that was neither a pipeline nor        *)
(* brought back by fg: one entry, which is Done exactly when the process   *)
(* was collected, and Stopped only if it did stop.  A stopped job that was *)
(* continued by kill rather than by fg or bg runs while it is listed as    *)
(* Stopped.                                                                *)
TableTruthful ==
  \A k \in DOMAIN jobTable :
    LET j == jobTable[k] IN
    j.pid \notin exposed =>
      /\ Listed(jobTable, j.pid) = {k}
      /\ j.state = "Done" <=> proc[j.pid] = "gone"
      /\ j.state = "Stopped" => proc[j.pid] # "running"

(* The table has its type and is right about the jobs it lists. *)
JobTableSound == TypeOK /\ TableTruthful

(* A process that waitForeground waits for was collected elsewhere. *)
Stolen == \E p \in remaining : proc[p] = "gone"

(* The shell comes back from a foreground job once none of its processes   *)
(* runs, unless a goroutine collected one of them or kill continues one    *)
(* before its stop is collected.  While one runs, it waits, also when the  *)
(* others were stopped.                                                    *)
ShellReturns ==
  pc \in {"wait", "stopping"} /\ (\A p \in remaining : Reportable(p)) ~>
    pc = "reap" \/ Stolen \/ \E p \in remaining : proc[p] = "resumed"

(* A background job that ended while marked Running is noticed, unless the *)
(* shell waits for the rest of a stopped pipeline.  (One killed while      *)
(* marked Stopped is not: reapZombies does not look at it.)                *)
EndNoticed ==
  \A p \in Pids :
    /\ \E k \in Listed(jobTable, p) : jobTable[k].state = "Running"
    /\ p \notin exposed
    /\ proc[p] = "zombie"
    ~>
      \/ Live(p) = {} \/ p \in exposed
      \/ (pc = "stopping" /\ \E q \in remaining : Runs(q))
=============================================================================
