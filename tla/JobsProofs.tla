----------------------------- MODULE JobsProofs -----------------------------
(***************************************************************************)
(* Job control for any number of processes and jobs: no background or      *)
(* stopped process is ever forgotten, and the table is right about every   *)
(* job that is neither a pipeline nor was brought back by fg.              *)
(***************************************************************************)
EXTENDS Jobs, Functions, SequenceTheorems, WellFoundedInduction, TLAPS

Job == [pid: Pids, state: {"Running", "Stopped", "Done"}]

(* While the shell waits there is room for the job it may enter. *)
RoomLeft == pc \in {"wait", "stopping"} => Len(jobTable) < MaxJobs

(* Whoever is entered, listed or waited for was started, so that a fresh   *)
(* process is none of them.                                                *)
Started ==
  /\ \A p \in entered : proc[p] # "none"
  /\ \A p \in ToSet(pids) : proc[p] # "none"
  /\ \A k \in DOMAIN jobTable : proc[jobTable[k].pid] # "none"

(* A foreground command that is neither a pipeline nor brought back by fg  *)
(* is one process, in no entry of the table; once it has stopped, nobody   *)
(* but the shell can collect it, and it runs again only if kill says so.   *)
Foreground ==
  \A p \in ToSet(pids) \ exposed :
    /\ Listed(jobTable, p) = {}
    /\ Len(pids) = 1
    /\ pc = "wait" => remaining = {p}
    /\ pc = "stopping" => remaining = {} /\ proc[p] \notin {"running", "gone"}

(* The goroutines wait for processes of pipelines. *)
WaitersExposed == \A ps \in waiters : ps # <<>> /\ ToSet(ps) \subseteq exposed

JobsInv ==
  /\ TypeOK /\ RoomLeft /\ Started
  /\ TableTruthful /\ NeverForgotten
  /\ Foreground /\ WaitersExposed
-----------------------------------------------------------------------------
(* cleanupDoneJobsLocked, by induction on the entries the loop has passed: *)
(* there is no least number of entries for which the claim fails.          *)

(* The order on the naturals as a relation, for the well-founded induction of the library. *)
LEMMA LessRel ==
  ASSUME NEW k \in Nat, NEW n \in Nat, k < n
  PROVE  <<k, n>> \in OpToRel(<, Nat)
BY DEF OpToRel

(* A set of naturals that is not empty has a least element: induction without an operator parameter. *)
LEMMA LeastNatural ==
  ASSUME NEW S, S \subseteq Nat, S # {}
  PROVE  \E n \in S : \A k \in S : n <= k
<1>1. PICK n \in S : \A k \in S : ~(<<k, n>> \in OpToRel(<, Nat))
  BY NatLessThanWellFounded, WFMin, Zenon
<1>2. \A k \in S : ~(k < n)
  BY <1>1, LessRel, Zenon
<1>3. QED
  BY <1>2

(* One step of the loop. *)
CleanStep(f, table, n) ==
  IF n = 0 THEN <<>>
  ELSE IF table[n].state = "Done" THEN f[n - 1]
  ELSE Append(f[n - 1], table[n])
CleanFun(f, table, m) == f = [n \in 0..m |-> CleanStep(f, table, n)]

(* cleanupDoneJobsLocked is the last value of the recursive function it is defined by. *)
LEMMA CleanIs ==
  ASSUME NEW table
  PROVE  cleanupDoneJobsLocked(table) =
           (CHOOSE f : CleanFun(f, table, Len(table)))[Len(table)]
BY DEF cleanupDoneJobsLocked, CleanFun, CleanStep

(* Up to every bound there is a function that satisfies the recursion of cleanupDoneJobsLocked. *)
LEMMA CleanExists ==
  ASSUME NEW table, NEW m \in Nat
  PROVE  \E f : CleanFun(f, table, m)
<1> DEFINE Good(k) == \E f : CleanFun(f, table, k)
           Bad == {k \in Nat : ~Good(k)}
<1>1. Good(0)
  <2> DEFINE f == [n \in 0..0 |-> <<>>]
  <2>1. CleanFun(f, table, 0)
    BY DEF CleanFun, CleanStep
  <2>2. QED
    BY <2>1
<1>2. ASSUME NEW k \in Nat, Good(k) PROVE Good(k + 1)
  <2>1. PICK f : CleanFun(f, table, k)
    BY <1>2
  <2> DEFINE g == [n \in 0..(k + 1) |-> IF n = k + 1 THEN CleanStep(f, table, n) ELSE f[n]]
  <2>2. ASSUME NEW n \in 0..(k + 1) PROVE g[n] = CleanStep(g, table, n)
    <3>1. n # 0 => n - 1 \in 0..k /\ g[n - 1] = f[n - 1]
      OBVIOUS
    <3>2. CleanStep(g, table, n) = CleanStep(f, table, n)
      BY <3>1 DEF CleanStep
    <3>3. CASE n = k + 1
      BY <3>2, <3>3
    <3>4. CASE n # k + 1
      <4>1. n \in 0..k /\ g[n] = f[n]
        BY <3>4
      <4>2. QED
        BY <2>1, <3>2, <4>1 DEF CleanFun
    <3>5. QED
      BY <3>3, <3>4
  <2>3. g = [n \in 0..(k + 1) |-> CleanStep(g, table, n)]
    <3> DEFINE e == [n \in 0..(k + 1) |-> CleanStep(g, table, n)]
    <3>1. \A n \in 0..(k + 1) : g[n] = e[n]
      BY <2>2
    <3>2. QED
      BY <3>1
  <2> HIDE DEF g
  <2>4. CleanFun(g, table, k + 1)
    BY <2>3 DEF CleanFun
  <2>5. QED
    BY <2>4
<1> HIDE DEF Good
<1>3. SUFFICES ASSUME ~Good(m) PROVE FALSE
  BY DEF Good
<1>4. PICK n \in Bad : \A k \in Bad : n <= k
  BY <1>3, LeastNatural
<1>5. n # 0 /\ n - 1 \in Nat /\ n - 1 \notin Bad
  BY <1>1, <1>4
<1>6. QED
  BY <1>2, <1>4, <1>5

(* What the loop has kept of the first n entries: those that are not Done, *)
(* and of a process with one entry no second.                              *)
OneEntry(table, n, p) ==
  \A i, j \in 1..n : table[i].pid = p /\ table[j].pid = p => i = j
Cleaned(table, n, r) ==
  /\ r \in Seq(Job) /\ Len(r) <= n
  /\ \A k \in DOMAIN r : \E j \in 1..n : r[k] = table[j] /\ table[j].state # "Done"
  /\ \A j \in 1..n : table[j].state # "Done" => \E k \in DOMAIN r : r[k] = table[j]
  /\ \A p : OneEntry(table, n, p) => OneEntry(r, Len(r), p)

(* The loop of cleanupDoneJobsLocked keeps what it has achieved when it looks at one more job. *)
LEMMA CleanOne ==
  ASSUME NEW table \in Seq(Job), NEW n \in Nat, n < Len(table), NEW r, Cleaned(table, n, r)
  PROVE  Cleaned(table, n + 1,
                 IF table[n + 1].state = "Done" THEN r ELSE Append(r, table[n + 1]))
<1>1. /\ r \in Seq(Job) /\ Len(r) \in Nat /\ DOMAIN r = 1..Len(r) /\ Len(r) <= n
      /\ table[n + 1] \in Job
  BY DEF Cleaned
<1>2. CASE table[n + 1].state = "Done"
  <2>1. \A j \in 1..(n + 1) : table[j].state # "Done" => j \in 1..n
    BY <1>2
  <2>2. \A p : OneEntry(table, n + 1, p) => OneEntry(table, n, p)
    BY DEF OneEntry
  <2>3. \A j \in 1..n : j \in 1..(n + 1)
    OBVIOUS
  <2>4. Cleaned(table, n + 1, r)
    BY <1>1, <2>1, <2>2, <2>3 DEF Cleaned
  <2>5. QED
    BY <1>2, <2>4
<1>3. CASE table[n + 1].state # "Done"
  <2> DEFINE t == Append(r, table[n + 1])
  <2>1. /\ t \in Seq(Job) /\ Len(t) = Len(r) + 1 /\ DOMAIN t = 1..(Len(r) + 1)
        /\ t[Len(r) + 1] = table[n + 1] /\ \A k \in DOMAIN r : t[k] = r[k]
    BY <1>1
  <2> HIDE DEF t
  <2>2. \A k \in DOMAIN t : k \in DOMAIN r \/ k = Len(r) + 1
    BY <1>1, <2>1
  <2>3. \A k \in DOMAIN t : \E j \in 1..(n + 1) : t[k] = table[j] /\ table[j].state # "Done"
    BY <1>3, <2>1, <2>2 DEF Cleaned
  <2>4. \A j \in 1..(n + 1) : table[j].state # "Done" => \E k \in DOMAIN t : t[k] = table[j]
    <3>1. SUFFICES ASSUME NEW j \in 1..(n + 1), table[j].state # "Done"
                   PROVE  \E k \in DOMAIN t : t[k] = table[j]
      OBVIOUS
    <3>2. CASE j = n + 1
      BY <1>1, <2>1, <3>2
    <3>3. CASE j # n + 1
      <4>1. j \in 1..n
        BY <3>3
      <4>2. PICK k \in DOMAIN r : r[k] = table[j]
        BY <3>1, <4>1 DEF Cleaned
      <4>3. k \in DOMAIN t /\ t[k] = table[j]
        BY <1>1, <2>1, <4>2
      <4>4. QED
        BY <4>3
    <3>4. QED
      BY <3>2, <3>3
  <2>5. ASSUME NEW p, OneEntry(table, n + 1, p), NEW i \in DOMAIN t, NEW k \in DOMAIN t,
               t[i].pid = p, t[k].pid = p
        PROVE  i = k
    <3>1. ASSUME NEW h \in DOMAIN r, r[h].pid = p, table[n + 1].pid = p PROVE FALSE
      <4>1. PICK j \in 1..n : r[h] = table[j]
        BY DEF Cleaned
      <4>2. j \in 1..(n + 1) /\ n + 1 \in 1..(n + 1) /\ j # n + 1
        OBVIOUS
      <4>3. QED
        BY <2>5, <3>1, <4>1, <4>2 DEF OneEntry
    <3>2. OneEntry(r, Len(r), p)
      <4>1. OneEntry(table, n, p)
        BY <2>5 DEF OneEntry
      <4>2. QED
        BY <4>1 DEF Cleaned
    <3>3. CASE i \in DOMAIN r /\ k \in DOMAIN r
      BY <1>1, <2>1, <2>5, <3>2, <3>3 DEF OneEntry
    <3>4. QED
      BY <2>1, <2>2, <2>5, <3>1, <3>3
  <2>6. Cleaned(table, n + 1, t)
    <3>1. \A p : OneEntry(table, n + 1, p) => OneEntry(t, Len(t), p)
      BY <2>1, <2>5 DEF OneEntry
    <3>2. QED
      BY <1>1, <2>1, <2>3, <2>4, <3>1 DEF Cleaned
  <2>7. QED
    BY <1>3, <2>6 DEF t
<1>4. QED
  BY <1>2, <1>3

(* cleanupDoneJobsLocked keeps exactly the jobs that are not done, and makes no second entry of a pid. *)
LEMMA CleanSpec ==
  ASSUME NEW table \in Seq(Job)
  PROVE  Cleaned(table, Len(table), cleanupDoneJobsLocked(table))
<1> DEFINE f == CHOOSE g : CleanFun(g, table, Len(table))
           Good(n) == Cleaned(table, n, f[n])
           Bad == {n \in 0..Len(table) : ~Good(n)}
<1>1. CleanFun(f, table, Len(table))
  BY CleanExists
<1>2. cleanupDoneJobsLocked(table) = f[Len(table)]
  BY CleanIs
<1> HIDE DEF f
<1>3. Good(0)
  <2>1. f[0] = <<>>
    BY <1>1 DEF CleanFun, CleanStep
  <2>2. QED
    BY <2>1 DEF Cleaned, OneEntry
<1>4. ASSUME NEW n \in Nat, n < Len(table), Good(n) PROVE Good(n + 1)
  <2>1. n + 1 \in 0..Len(table) /\ n + 1 # 0 /\ (n + 1) - 1 = n
    BY <1>4
  <2>2. f[n + 1] = CleanStep(f, table, n + 1)
    BY <1>1, <2>1 DEF CleanFun
  <2>3. f[n + 1] = IF table[n + 1].state = "Done" THEN f[n] ELSE Append(f[n], table[n + 1])
    BY <2>1, <2>2 DEF CleanStep
  <2>4. QED
    BY <1>4, <2>3, CleanOne
<1> HIDE DEF Good
<1>5. Good(Len(table))
  <2>1. SUFFICES ASSUME ~Good(Len(table)) PROVE FALSE
    OBVIOUS
  <2>2. PICK m \in Bad : \A k \in Bad : m <= k
    <3>1. Bad \subseteq Nat /\ Bad # {}
      BY <2>1
    <3>2. QED
      BY <3>1, LeastNatural
  <2>3. m # 0 /\ m - 1 \in 0..Len(table) /\ m - 1 < Len(table) /\ m - 1 \notin Bad
    BY <1>3, <2>2
  <2>4. QED
    BY <1>4, <2>2, <2>3
<1>6. QED
  BY <1>2, <1>5 DEF Good
-----------------------------------------------------------------------------
(* The marks. *)

(* t is table with an entry of p, the only one if there is only one, set   *)
(* to st.                                                                  *)
Marked(table, t, p, st) ==
  /\ t \in Seq(Job) /\ Len(t) = Len(table) /\ DOMAIN t = DOMAIN table
  /\ \A k \in DOMAIN table :
       /\ t[k].pid = table[k].pid
       /\ t[k] = table[k] \/ (table[k].pid = p /\ t[k].state = st)
       /\ Listed(table, p) = {k} => t[k].state = st
  /\ \A q : Listed(t, q) = Listed(table, q)
  /\ \E k \in Listed(t, p) : t[k].state = st

(* A mark changes the state of the first entry with the pid, and nothing else. *)
LEMMA MarkSpec ==
  ASSUME NEW table \in Seq(Job), NEW p, NEW st \in {"Running", "Stopped", "Done"},
         Listed(table, p) # {}
  PROVE  Marked(table, Mark(table, p, st), p, st)
<1> DEFINE k == CHOOSE k \in Listed(table, p) : \A l \in Listed(table, p) : k <= l
<1>1. Listed(table, p) \subseteq Nat /\ Listed(table, p) \subseteq DOMAIN table
  BY DEF Listed
<1>2. k \in Listed(table, p)
  BY <1>1, LeastNatural
<1> DEFINE e == [table[k] EXCEPT !.state = st]
           t == [table EXCEPT ![k] = e]
<1>3. Mark(table, p, st) = t
  BY DEF Mark
<1> HIDE DEF k
<1>4. k \in DOMAIN table /\ table[k].pid = p /\ table[k] \in Job
  BY <1>1, <1>2 DEF Listed
<1>5. e \in Job /\ e.pid = p /\ e.state = st
  BY <1>4 DEF Job
<1> HIDE DEF e
<1>6. /\ t \in Seq(Job) /\ Len(t) = Len(table) /\ DOMAIN t = DOMAIN table
      /\ t[k] = e /\ \A j \in DOMAIN table : j # k => t[j] = table[j]
  BY <1>4, <1>5
<1> HIDE DEF t
<1>7. \A j \in DOMAIN table : t[j].pid = table[j].pid
  BY <1>4, <1>5, <1>6
<1>8. \A q : Listed(t, q) = Listed(table, q)
  BY <1>6, <1>7 DEF Listed
<1>9. \A j \in DOMAIN table : Listed(table, p) = {j} => t[j].state = st
  BY <1>2, <1>5, <1>6
<1>10. \E j \in Listed(t, p) : t[j].state = st
  BY <1>2, <1>5, <1>6, <1>8
<1>11. Marked(table, t, p, st)
  BY <1>4, <1>5, <1>6, <1>7, <1>8, <1>9, <1>10 DEF Marked
<1>12. QED
  BY <1>3, <1>11

(* What handleChildReap does to the table. *)
LEMMA ReapSpec ==
  ASSUME NEW table \in Seq(Job), NEW p
  PROVE  \/ /\ handleChildReap(table, p) = table
            /\ \A k \in Listed(table, p) : table[k].state = "Done"
         \/ Marked(table, handleChildReap(table, p), p,
                   IF proc[p] = "stopped" THEN "Stopped" ELSE "Done")
<1>1. CASE \E k \in Listed(table, p) : table[k].state # "Done"
  <2> DEFINE st == IF proc[p] = "stopped" THEN "Stopped" ELSE "Done"
  <2>1. handleChildReap(table, p) = Mark(table, p, st)
    BY <1>1 DEF handleChildReap
  <2>2. st \in {"Running", "Stopped", "Done"} /\ Listed(table, p) # {}
    BY <1>1
  <2> HIDE DEF st
  <2>3. Marked(table, Mark(table, p, st), p, st)
    BY <2>2, MarkSpec
  <2>4. QED
    BY <2>1, <2>3 DEF st
<1>2. CASE ~\E k \in Listed(table, p) : table[k].state # "Done"
  BY <1>2 DEF handleChildReap
<1>3. QED
  BY <1>1, <1>2

(* What addJob makes of the table. *)
Added(table, t, p, st) ==
  /\ t \in Seq(Job) /\ Len(t) <= Len(table) + 1
  /\ \A k \in DOMAIN t : k = Len(t) \/ \E j \in DOMAIN table : t[k] = table[j]
  /\ t[Len(t)] = Entry(p, st) /\ Len(t) \in DOMAIN t
  /\ \A j \in DOMAIN table : table[j].state # "Done" =>
       \E k \in DOMAIN t : t[k] = table[j]
  /\ \A q : q # p /\ (\A i, j \in DOMAIN table : table[i].pid = q /\ table[j].pid = q => i = j)
       => \A i, j \in DOMAIN t : t[i].pid = q /\ t[j].pid = q => i = j
  /\ Listed(table, p) = {} => Listed(t, p) = {Len(t)}

(* addJob drops jobs that are done and appends the new one. *)
LEMMA AddSpec ==
  ASSUME jobTable \in Seq(Job), NEW p \in Pids, NEW st \in {"Running", "Stopped"}
  PROVE  Added(jobTable, addJob(p, st), p, st)
<1> DEFINE r == cleanupDoneJobsLocked(jobTable)
           n == Len(jobTable)
           e == Entry(p, st)
           t == Append(r, e)
<1>1. Cleaned(jobTable, n, r)
  BY CleanSpec
<1>2. addJob(p, st) = t
  BY DEF addJob
<1> HIDE DEF r
<1>3. r \in Seq(Job) /\ Len(r) <= n /\ n \in Nat /\ Len(r) \in Nat
      /\ DOMAIN jobTable = 1..n /\ DOMAIN r = 1..Len(r)
  BY <1>1 DEF Cleaned
<1>4. e \in Job /\ e.pid = p
  BY DEF Entry, Job
<1> HIDE DEF n, e
<1>5. /\ t \in Seq(Job) /\ Len(t) = Len(r) + 1 /\ DOMAIN t = 1..(Len(r) + 1)
      /\ t[Len(r) + 1] = e /\ \A k \in DOMAIN r : t[k] = r[k]
  BY <1>3, <1>4
<1> HIDE DEF t
<1>6. \A k \in DOMAIN t : k = Len(t) \/ k \in DOMAIN r
  BY <1>3, <1>5
<1>7. \A k \in DOMAIN r : \E j \in DOMAIN jobTable : r[k] = jobTable[j]
  BY <1>1, <1>3 DEF Cleaned
<1>8. \A j \in DOMAIN jobTable : jobTable[j].state # "Done" => \E k \in DOMAIN t : t[k] = jobTable[j]
  <2>1. SUFFICES ASSUME NEW j \in DOMAIN jobTable, jobTable[j].state # "Done"
                 PROVE  \E k \in DOMAIN t : t[k] = jobTable[j]
    OBVIOUS
  <2>2. PICK k \in DOMAIN r : r[k] = jobTable[j]
    BY <1>1, <1>3, <2>1 DEF Cleaned
  <2>3. k \in DOMAIN t /\ t[k] = r[k]
    BY <1>3, <1>5
  <2>4. QED
    BY <2>2, <2>3
<1>9. ASSUME NEW q, q # p,
             \A i, j \in DOMAIN jobTable : jobTable[i].pid = q /\ jobTable[j].pid = q => i = j,
             NEW i \in DOMAIN t, NEW j \in DOMAIN t, t[i].pid = q, t[j].pid = q
      PROVE  i = j
  <2>1. OneEntry(jobTable, n, q)
    BY <1>3, <1>9 DEF OneEntry
  <2>2. OneEntry(r, Len(r), q)
    BY <1>1, <2>1 DEF Cleaned
  <2>3. i # Len(t) /\ j # Len(t)
    BY <1>4, <1>5, <1>9
  <2>4. i \in DOMAIN r /\ j \in DOMAIN r
    BY <1>6, <2>3
  <2>5. QED
    BY <1>3, <1>5, <1>9, <2>2, <2>4 DEF OneEntry
<1>10. ASSUME Listed(jobTable, p) = {} PROVE Listed(t, p) = {Len(t)}
  <2>1. \A k \in DOMAIN r : r[k].pid # p
    BY <1>7, <1>10 DEF Listed
  <2>2. QED
    BY <1>4, <1>5, <1>6, <2>1 DEF Listed
<1>11. \A k \in DOMAIN t : k = Len(t) \/ \E j \in DOMAIN jobTable : t[k] = jobTable[j]
  BY <1>5, <1>6, <1>7
<1>12. Added(jobTable, t, p, st)
  <2>1. t \in Seq(Job) /\ Len(t) <= Len(jobTable) + 1
    BY <1>3, <1>5 DEF n
  <2>2. t[Len(t)] = Entry(p, st) /\ Len(t) \in DOMAIN t
    BY <1>3, <1>5 DEF e
  <2>3. QED
    BY <1>8, <1>9, <1>10, <1>11, <2>1, <2>2 DEF Added
<1>13. QED
  BY <1>2, <1>12
-----------------------------------------------------------------------------
(* The steps.  What every step has to say of the table, in two lemmas: one *)
(* for steps that leave it alone, and one for those that collect a status. *)

ProcStates == {"none", "running", "resumed", "stopped", "halted", "zombie", "gone"}

(* The invariant gives each variable its type. *)
LEMMA Types ==
  ASSUME JobsInv
  PROVE  /\ proc \in [Pids -> ProcStates]
         /\ jobTable \in Seq(Job) /\ Len(jobTable) <= MaxJobs
         /\ pids \in Seq(Pids) /\ remaining \subseteq ToSet(pids)
         /\ ToSet(pids) \subseteq Pids
         /\ pc \in {"reap", "prompt", "wait", "stopping"}
         /\ pids = <<>> <=> pc \in {"reap", "prompt"}
         /\ waiters \subseteq Seq(Pids)
         /\ entered \cup exposed \subseteq Pids
<1>1. pids \in Seq(Pids)
  BY DEF JobsInv, TypeOK
<1>2. ToSet(pids) \subseteq Pids
  BY <1>1 DEF ToSet
<1>3. QED
  BY <1>1, <1>2 DEF JobsInv, TypeOK, ProcStates, Job

(* An entry of a job table has a pid and one of the three states. *)
LEMMA EntryType ==
  ASSUME NEW t \in Seq(Job), NEW k \in DOMAIN t
  PROVE  t[k].pid \in Pids /\ t[k].state \in {"Running", "Stopped", "Done"}
<1>1. t[k] \in Job
  OBVIOUS
<1>2. QED
  BY <1>1 DEF Job

Talk == TableTruthful /\ NeverForgotten

(* The table stays true through a step that changes processes only, and collects none it speaks for. *)
LEMMA TableKept ==
  ASSUME JobsInv, UNCHANGED <<jobTable, entered>>, exposed \subseteq exposed',
         proc' \in [Pids -> ProcStates],
         \A p \in Pids : proc[p] # "none" => proc'[p] # "none",
         \A p \in Pids : proc[p] # "none" /\ Alive(p)' => Alive(p),
         \A p \in Pids \ exposed : Listed(jobTable, p) # {} =>
           /\ proc'[p] = "gone" <=> proc[p] = "gone"
           /\ proc'[p] = "running" => proc[p] = "running"
  PROVE  /\ Talk'
         /\ \A p \in entered' : proc'[p] # "none"
         /\ \A k \in DOMAIN jobTable' : proc'[jobTable'[k].pid] # "none"
<1>1. jobTable \in Seq(Job) /\ entered \subseteq Pids
  BY Types
<1>2. \A k \in DOMAIN jobTable : jobTable[k].pid \in Pids
  BY <1>1, EntryType
<1>3. TableTruthful'
  <2>1. SUFFICES ASSUME NEW k \in DOMAIN jobTable, jobTable[k].pid \notin exposed
                 PROVE  /\ Listed(jobTable, jobTable[k].pid) = {k}
                        /\ jobTable[k].state = "Done" <=> proc'[jobTable[k].pid] = "gone"
                        /\ jobTable[k].state = "Stopped" =>
                             proc'[jobTable[k].pid] # "running"
    BY DEF TableTruthful, Listed
  <2>2. /\ Listed(jobTable, jobTable[k].pid) = {k}
        /\ jobTable[k].state = "Done" <=> proc[jobTable[k].pid] = "gone"
        /\ jobTable[k].state = "Stopped" =>
             proc[jobTable[k].pid] # "running"
    BY <2>1 DEF JobsInv, TableTruthful
  <2>3. QED
    BY <1>2, <2>1, <2>2
<1>4. NeverForgotten'
  <2>1. \A p \in entered : proc[p] # "none" /\ (Alive(p) => Live(p) # {})
    BY DEF JobsInv, Started, NeverForgotten
  <2>2. \A p : Live(p)' = Live(p)
    BY DEF Live, Listed
  <2>3. QED
    BY <1>1, <2>1, <2>2 DEF NeverForgotten
<1>5. QED
  BY <1>1, <1>2, <1>3, <1>4 DEF JobsInv, Started, Talk

(* A status that is collected and entered by handleChildReap keeps the invariant. *)
LEMMA CollectKept ==
  ASSUME JobsInv, NEW p \in Pids, Reportable(p),
         jobTable' = handleChildReap(jobTable, p), proc' = Collected(p),
         UNCHANGED <<entered, exposed>>
  PROVE  /\ Talk'
         /\ \A q \in entered' : proc'[q] # "none"
         /\ \A k \in DOMAIN jobTable' : proc'[jobTable'[k].pid] # "none"
         /\ jobTable' \in Seq(Job) /\ Len(jobTable') = Len(jobTable)
         /\ proc' \in [Pids -> ProcStates]
         /\ \A q \in Pids \ {p} : proc'[q] = proc[q]
         /\ \A q : Listed(jobTable, q)' = Listed(jobTable, q)
<1>1. /\ proc \in [Pids -> ProcStates] /\ jobTable \in Seq(Job)
      /\ entered \subseteq Pids /\ DOMAIN jobTable = 1..Len(jobTable)
  BY Types
<1>2. \A k \in DOMAIN jobTable : jobTable[k].pid \in Pids
  BY <1>1, EntryType
<1>3. /\ proc' \in [Pids -> ProcStates] /\ \A q \in Pids \ {p} : proc'[q] = proc[q]
      /\ \/ proc[p] = "zombie" /\ proc'[p] = "gone"
         \/ proc[p] = "stopped" /\ proc'[p] = "halted"
  BY <1>1 DEF Collected, Reportable, ProcStates
<1>4. /\ \A q \in Pids : proc'[q] # "none" <=> proc[q] # "none"
      /\ \A q \in Pids : Alive(q)' => Alive(q)
  BY <1>3 DEF Alive
<1>5. CASE /\ jobTable' = jobTable
           /\ \A k \in Listed(jobTable, p) : jobTable[k].state = "Done"
  <2>1. Listed(jobTable, p) # {} => p \in exposed
    <3>1. SUFFICES ASSUME NEW k \in Listed(jobTable, p), p \notin exposed PROVE FALSE
      OBVIOUS
    <3>2. k \in DOMAIN jobTable /\ jobTable[k].pid = p /\ jobTable[k].state = "Done"
      BY <1>5 DEF Listed
    <3>3. proc[p] = "gone"
      BY <3>1, <3>2 DEF JobsInv, TableTruthful
    <3>4. QED
      BY <1>3, <3>3
  <2>2. \A q \in Pids \ exposed : Listed(jobTable, q) # {} => proc'[q] = proc[q]
    BY <1>3, <2>1
  <2>3. \A q : Listed(jobTable, q)' = Listed(jobTable, q)
    BY <1>5 DEF Listed
  <2>4. /\ Talk'
        /\ \A q \in entered' : proc'[q] # "none"
        /\ \A k \in DOMAIN jobTable' : proc'[jobTable'[k].pid] # "none"
    BY <1>3, <1>4, <1>5, <2>2, TableKept
  <2>5. QED
    BY <1>1, <1>3, <1>5, <2>3, <2>4
<1>6. CASE Marked(jobTable, jobTable', p, IF proc[p] = "stopped" THEN "Stopped" ELSE "Done")
  <2> DEFINE st == IF proc[p] = "stopped" THEN "Stopped" ELSE "Done"
  <2>1. /\ jobTable' \in Seq(Job) /\ Len(jobTable') = Len(jobTable)
        /\ DOMAIN jobTable' = DOMAIN jobTable
        /\ \A k \in DOMAIN jobTable :
             /\ jobTable'[k].pid = jobTable[k].pid
             /\ jobTable[k].pid # p => jobTable'[k] = jobTable[k]
             /\ jobTable[k].pid = p /\ Listed(jobTable, p) = {k} => jobTable'[k].state = st
    BY <1>6 DEF Marked
  <2>2. \A q : Listed(jobTable, q)' = Listed(jobTable, q)
    BY <2>1 DEF Listed
  <2>3. \E k \in Listed(jobTable, p)' : jobTable'[k].state = st
    BY <1>6 DEF Marked, Listed
  <2>4. st = "Done" <=> proc'[p] = "gone"
    BY <1>3
  <2>5. st = "Stopped" => proc'[p] = "halted"
    BY <1>3
  <2> HIDE DEF st
  <2>6. TableTruthful'
    <3>1. SUFFICES ASSUME NEW k \in DOMAIN jobTable, jobTable[k].pid \notin exposed
                   PROVE  /\ Listed(jobTable, jobTable[k].pid) = {k}
                          /\ jobTable'[k].state = "Done" <=> proc'[jobTable[k].pid] = "gone"
                          /\ jobTable'[k].state = "Stopped" =>
                               proc'[jobTable[k].pid] # "running"
      <4>1. \A k \in DOMAIN jobTable' :
              /\ k \in DOMAIN jobTable /\ jobTable'[k].pid = jobTable[k].pid
              /\ Listed(jobTable', jobTable'[k].pid) = Listed(jobTable, jobTable[k].pid)
        BY <2>1 DEF Listed
      <4>2. QED
        BY <4>1 DEF TableTruthful
    <3>2. /\ Listed(jobTable, jobTable[k].pid) = {k}
          /\ jobTable[k].state = "Done" <=> proc[jobTable[k].pid] = "gone"
          /\ jobTable[k].state = "Stopped" =>
               proc[jobTable[k].pid] # "running"
      BY <3>1 DEF JobsInv, TableTruthful
    <3>3. CASE jobTable[k].pid = p
      BY <2>1, <2>4, <2>5, <3>2, <3>3
    <3>4. CASE jobTable[k].pid # p
      BY <1>2, <1>3, <2>1, <3>2, <3>4
    <3>5. QED
      BY <3>3, <3>4
  <2>7. NeverForgotten'
    <3>1. SUFFICES ASSUME NEW q \in entered, Alive(q)' PROVE Live(q)' # {}
      BY DEF NeverForgotten
    <3>2. PICK k \in Live(q) : TRUE
      BY <1>1, <1>4, <3>1 DEF JobsInv, NeverForgotten
    <3>3. k \in Listed(jobTable, q) /\ jobTable[k].state # "Done" /\ k \in DOMAIN jobTable
          /\ jobTable[k].pid = q
      BY DEF Live, Listed
    <3>4. CASE q = p
      <4>1. st # "Done"
        BY <1>3, <2>4, <3>1, <3>4 DEF Alive
      <4>2. QED
        BY <2>3, <3>4, <4>1 DEF Live
    <3>5. CASE q # p
      <4>1. jobTable'[k] = jobTable[k]
        BY <2>1, <3>3, <3>5
      <4>2. k \in Live(q)'
        BY <2>2, <3>3, <4>1 DEF Live
      <4>3. QED
        BY <4>2
    <3>6. QED
      BY <3>4, <3>5
  <2>8. \A k \in DOMAIN jobTable' : proc'[jobTable'[k].pid] # "none"
    BY <1>2, <1>4, <2>1 DEF JobsInv, Started
  <2>9. \A q \in entered' : proc'[q] # "none"
    BY <1>1, <1>4 DEF JobsInv, Started
  <2>10. QED
    BY <1>3, <2>1, <2>2, <2>6, <2>7, <2>8, <2>9 DEF Talk
<1>7. QED
  BY <1>1, <1>5, <1>6, ReapSpec

(* A pipeline of a line: one or two processes that did not run before. *)
LEMMA CommandShape ==
  ASSUME JobsInv, NEW ps \in Commands
  PROVE  /\ ps \in Seq(Pids) /\ Len(ps) \in {1, 2} /\ ps # <<>>
         /\ ToSet(ps) \subseteq Fresh /\ Head(ps) \in ToSet(ps)
         /\ Len(ps) = 1 => ToSet(ps) = {Head(ps)}
<1>1. Fresh \subseteq Pids
  BY DEF Fresh
<1>2. CASE \E p \in Fresh : ps = <<p>>
  BY <1>1, <1>2 DEF ToSet
<1>3. CASE ps \in Fresh \X Fresh
  <2>1. PICK p \in Fresh, q \in Fresh : ps = <<p, q>>
    BY <1>3
  <2>2. ps \in Seq(Pids) /\ Len(ps) = 2 /\ ps # <<>> /\ Head(ps) = p
    BY <1>1, <2>1
  <2>3. ToSet(ps) = {p, q}
    <3>1. DOMAIN ps = 1..2 /\ ps[1] = p /\ ps[2] = q
      BY <2>1
    <3>2. QED
      BY <3>1 DEF ToSet
  <2>4. QED
    BY <2>2, <2>3
<1>4. QED
  BY <1>2, <1>3 DEF Commands
-----------------------------------------------------------------------------
(* The parts of the invariant, put together. *)
LEMMA Assemble ==
  ASSUME Talk', RoomLeft', Foreground', WaitersExposed',
         \A p \in entered' : proc'[p] # "none",
         \A k \in DOMAIN jobTable' : proc'[jobTable'[k].pid] # "none",
         \A p \in ToSet(pids') : proc'[p] # "none",
         proc' \in [Pids -> ProcStates], jobTable' \in Seq(Job), Len(jobTable') <= MaxJobs,
         pids' \in Seq(Pids), remaining' \subseteq ToSet(pids'),
         pc' \in {"reap", "prompt", "wait", "stopping"},
         pids' = <<>> <=> pc' \in {"reap", "prompt"},
         waiters' \subseteq Seq(Pids), entered' \cup exposed' \subseteq Pids
  PROVE  JobsInv'
<1>1. TypeOK'
  BY DEF TypeOK, ProcStates, Job
<1>2. Started'
  BY DEF Started
<1>3. QED
  BY <1>1, <1>2 DEF JobsInv, Talk

(* A process ends, stops or is continued, and the shell does nothing. *)
LEMMA ByItself ==
  ASSUME JobsInv, proc' \in [Pids -> ProcStates],
         \A p \in Pids : \/ proc'[p] = proc[p]
                         \/ Alive(p) /\ proc'[p] \in {"zombie", "stopped", "resumed"},
         UNCHANGED <<jobTable, pc, pids, remaining, waiters, entered, exposed>>
  PROVE  JobsInv'
<1>1. /\ ToSet(pids) \subseteq Pids /\ jobTable \in Seq(Job) /\ Len(jobTable) <= MaxJobs
      /\ pids \in Seq(Pids) /\ remaining \subseteq ToSet(pids)
      /\ pc \in {"reap", "prompt", "wait", "stopping"}
      /\ pids = <<>> <=> pc \in {"reap", "prompt"}
      /\ waiters \subseteq Seq(Pids) /\ entered \cup exposed \subseteq Pids
  BY Types
<1>2. /\ \A p \in Pids : proc[p] # "none" => proc'[p] # "none"
      /\ \A p \in Pids : Alive(p)' => Alive(p)
      /\ \A p \in Pids : proc'[p] = "gone" <=> proc[p] = "gone"
      /\ \A p \in Pids : proc'[p] = "running" => proc[p] = "running"
  BY DEF Alive
<1>3. /\ Talk'
      /\ \A p \in entered' : proc'[p] # "none"
      /\ \A k \in DOMAIN jobTable' : proc'[jobTable'[k].pid] # "none"
  BY <1>2, TableKept
<1>4. Foreground'
  BY <1>1 DEF JobsInv, Foreground, Listed, Alive
<1>5. RoomLeft' /\ WaitersExposed'
  BY DEF JobsInv, RoomLeft, WaitersExposed
<1>6. \A p \in ToSet(pids') : proc'[p] # "none"
  BY <1>1, <1>2 DEF JobsInv, Started
<1>7. QED
  BY <1>1, <1>3, <1>4, <1>5, <1>6, Assemble

(* A process that ends, stops or is continued by kill keeps the invariant. *)
LEMMA ExitKeeps ==
  ASSUME JobsInv, NEW p \in Pids, Exit(p) \/ Stop(p) \/ Resume(p)
  PROVE  JobsInv'
<1>1. proc \in [Pids -> ProcStates]
  BY Types
<1>2. proc' \in [Pids -> ProcStates] /\ \A q \in Pids \ {p} : proc'[q] = proc[q]
  BY <1>1 DEF Exit, Stop, Resume, ProcStates
<1>3. \A q \in Pids : \/ proc'[q] = proc[q]
                      \/ Alive(q) /\ proc'[q] \in {"zombie", "stopped", "resumed"}
  BY <1>1, <1>2 DEF Exit, Stop, Resume, Runs, Alive
<1>4. QED
  BY <1>2, <1>3, ByItself DEF Exit, Stop, Resume

(* The goroutine that forwards SIGTSTP keeps the invariant. *)
LEMMA ForwardStopKeeps ==
  ASSUME JobsInv, ForwardStop
  PROVE  JobsInv'
<1>1. proc \in [Pids -> ProcStates]
  BY Types
<1>2. /\ proc' \in [Pids -> ProcStates]
      /\ \A q \in Pids : \/ proc'[q] = proc[q]
                         \/ Alive(q) /\ proc'[q] \in {"zombie", "stopped", "resumed"}
  BY <1>1 DEF ForwardStop, ProcStates, Runs, Alive
<1>3. QED
  BY <1>2, ByItself DEF ForwardStop
-----------------------------------------------------------------------------
(* The foreground wait and the goroutines. *)

(* A status of the foreground or of a pipeline is collected. *)
LEMMA OthersKept ==
  ASSUME JobsInv, UNCHANGED <<jobTable, entered, exposed>>,
         proc' \in [Pids -> ProcStates],
         \A p \in Pids : \/ proc'[p] = proc[p]
                         \/ /\ p \in exposed \cup ToSet(pids)
                            /\ \/ proc[p] = "zombie" /\ proc'[p] = "gone"
                               \/ proc[p] = "stopped" /\ proc'[p] = "halted"
                               \/ Runs(p) /\ proc'[p] = "stopped"
  PROVE  /\ Talk'
         /\ \A p \in entered' : proc'[p] # "none"
         /\ \A k \in DOMAIN jobTable' : proc'[jobTable'[k].pid] # "none"
         /\ \A p \in ToSet(pids) : proc'[p] # "none"
<1>1. ToSet(pids) \subseteq Pids
  BY Types
<1>2. /\ \A p \in Pids : proc[p] # "none" => proc'[p] # "none"
      /\ \A p \in Pids : Alive(p)' => Alive(p)
  BY DEF Alive, Runs
<1>3. \A p \in Pids \ exposed : Listed(jobTable, p) # {} => proc'[p] = proc[p]
  BY DEF JobsInv, Foreground
<1>4. QED
  BY <1>1, <1>2, <1>3, TableKept DEF JobsInv, Started

(* wait4 changes the state of the process it reports, to collected or to a stop that was seen. *)
LEMMA CollectedIs ==
  ASSUME JobsInv, NEW p \in Pids, Reportable(p)
  PROVE  /\ Collected(p) \in [Pids -> ProcStates]
         /\ \A q \in Pids \ {p} : Collected(p)[q] = proc[q]
         /\ \/ proc[p] = "zombie" /\ Collected(p)[p] = "gone"
            \/ proc[p] = "stopped" /\ Collected(p)[p] = "halted"
<1>1. proc \in [Pids -> ProcStates]
  BY Types
<1>2. QED
  BY <1>1 DEF Collected, Reportable, ProcStates

(* The goroutine that waits for a background pipeline keeps the invariant. *)
LEMMA WaiterKeeps ==
  ASSUME JobsInv, NEW ps \in waiters, PipelineWaiter(ps)
  PROVE  JobsInv'
<1>1. /\ ToSet(pids) \subseteq Pids /\ jobTable \in Seq(Job) /\ Len(jobTable) <= MaxJobs
      /\ pids \in Seq(Pids) /\ remaining \subseteq ToSet(pids)
      /\ pc \in {"reap", "prompt", "wait", "stopping"}
      /\ pids = <<>> <=> pc \in {"reap", "prompt"}
      /\ waiters \subseteq Seq(Pids) /\ entered \cup exposed \subseteq Pids
      /\ proc \in [Pids -> ProcStates]
  BY Types
<1>2. /\ ps \in Seq(Pids) /\ ps # <<>> /\ ToSet(ps) \subseteq exposed
  BY <1>1 DEF JobsInv, WaitersExposed
<1>3. Head(ps) \in ToSet(ps) /\ Head(ps) \in Pids
  BY <1>2 DEF ToSet
<1>4. /\ proc' \in [Pids -> ProcStates] /\ \A q \in Pids \ {Head(ps)} : proc'[q] = proc[q]
      /\ \/ proc'[Head(ps)] = proc[Head(ps)]
         \/ proc[Head(ps)] = "zombie" /\ proc'[Head(ps)] = "gone"
  <2>1. CASE proc[Head(ps)] = "zombie" /\ proc' = Collected(Head(ps))
    BY <1>3, <2>1, CollectedIs DEF Reportable
  <2>2. CASE proc[Head(ps)] = "gone" /\ UNCHANGED proc
    BY <1>1, <2>2
  <2>3. QED
    BY <2>1, <2>2 DEF PipelineWaiter
<1>5. \A q \in Pids : \/ proc'[q] = proc[q]
                      \/ /\ q \in exposed /\ proc[q] = "zombie" /\ proc'[q] = "gone"
  BY <1>2, <1>3, <1>4
<1>6. /\ Talk'
      /\ \A p \in entered' : proc'[p] # "none"
      /\ \A k \in DOMAIN jobTable' : proc'[jobTable'[k].pid] # "none"
      /\ \A p \in ToSet(pids) : proc'[p] # "none"
  BY <1>4, <1>5, OthersKept DEF PipelineWaiter
<1>7. waiters' \subseteq Seq(Pids) /\ WaitersExposed'
  <2>1. CASE Len(ps) = 1
    BY <1>1, <2>1 DEF PipelineWaiter, JobsInv, WaitersExposed
  <2>2. CASE Len(ps) # 1
    <3>1. Tail(ps) \in Seq(Pids) /\ Tail(ps) # <<>>
      <4>1. Len(ps) \in Nat /\ Len(ps) # 0
        BY <1>2
      <4>2. Tail(ps) \in Seq(Pids) /\ Len(Tail(ps)) = Len(ps) - 1
        BY <1>2
      <4>3. Len(Tail(ps)) # 0
        BY <2>2, <4>1, <4>2
      <4>4. ASSUME NEW t, t = <<>> PROVE Len(t) = 0
        BY <4>4
      <4>5. QED
        BY <4>2, <4>3, <4>4
    <3>2. ToSet(Tail(ps)) \subseteq ToSet(ps)
      BY <1>2 DEF ToSet
    <3>3. waiters' \subseteq waiters \cup {Tail(ps)} /\ exposed' = exposed
      BY <2>2 DEF PipelineWaiter
    <3>4. \A qs \in waiters \cup {Tail(ps)} : qs # <<>> /\ ToSet(qs) \subseteq exposed
      BY <1>2, <3>1, <3>2 DEF JobsInv, WaitersExposed
    <3>5. QED
      BY <1>1, <3>1, <3>3, <3>4 DEF WaitersExposed
  <2>3. QED
    BY <2>1, <2>2
<1>8. Foreground' /\ RoomLeft'
  BY <1>1, <1>5 DEF PipelineWaiter, JobsInv, Foreground, Listed, RoomLeft
<1>9. QED
  BY <1>1, <1>4, <1>6, <1>7, <1>8, Assemble DEF PipelineWaiter

(* After Return there is no foreground. *)
LEMMA NoForeground ==
  ASSUME pids' = <<>>, pc' = "reap", remaining' = {}
  PROVE  /\ Foreground' /\ RoomLeft' /\ pids' \in Seq(Pids)
         /\ remaining' \subseteq ToSet(pids')
         /\ \A p \in ToSet(pids') : proc'[p] # "none"
<1>1. ToSet(pids') = {}
  BY DEF ToSet
<1>2. QED
  BY <1>1 DEF Foreground, RoomLeft

(* The foreground wait on a process that ended keeps the invariant. *)
LEMMA WaitEndedKeeps ==
  ASSUME JobsInv, NEW p \in Pids, WaitEnded(p)
  PROVE  JobsInv'
<1>1. /\ jobTable \in Seq(Job) /\ Len(jobTable) <= MaxJobs
      /\ pids \in Seq(Pids) /\ remaining \subseteq ToSet(pids) /\ ToSet(pids) \subseteq Pids
      /\ pids # <<>> /\ pc = "wait"
      /\ waiters \subseteq Seq(Pids) /\ entered \cup exposed \subseteq Pids
  BY Types DEF WaitEnded
<1>2. /\ proc' \in [Pids -> ProcStates] /\ \A q \in Pids \ {p} : proc'[q] = proc[q]
      /\ proc[p] = "zombie" /\ proc'[p] = "gone"
  BY CollectedIs DEF WaitEnded, Reportable
<1>3. jobTable' = jobTable
  BY DEF WaitEnded, Return
<1>4. /\ Talk'
      /\ \A q \in entered' : proc'[q] # "none"
      /\ \A k \in DOMAIN jobTable' : proc'[jobTable'[k].pid] # "none"
      /\ \A q \in ToSet(pids) : proc'[q] # "none"
  BY <1>1, <1>2, <1>3, OthersKept DEF WaitEnded
<1>5. WaitersExposed'
  BY DEF WaitEnded, JobsInv, WaitersExposed
<1>6. CASE remaining = {p}
  <2>1. pids' = <<>> /\ pc' = "reap" /\ remaining' = {}
    BY <1>6 DEF WaitEnded, Return
  <2>2. QED
    BY <1>1, <1>2, <1>3, <1>4, <1>5, <2>1, NoForeground, Assemble DEF WaitEnded
<1>7. CASE remaining # {p}
  <2>1. UNCHANGED <<pids, pc>> /\ remaining' = remaining \ {p}
    BY <1>7 DEF WaitEnded
  <2>2. ToSet(pids) \ exposed = {}
    BY <1>1, <1>7 DEF WaitEnded, JobsInv, Foreground
  <2>3. Foreground'
    BY <2>1, <2>2 DEF Foreground, WaitEnded
  <2>4. RoomLeft'
    BY <1>3, <2>1 DEF JobsInv, RoomLeft
  <2>5. QED
    BY <1>1, <1>2, <1>3, <1>4, <1>5, <2>1, <2>3, <2>4, Assemble DEF WaitEnded
<1>8. QED
  BY <1>6, <1>7

(* The foreground wait on a process that stopped keeps the invariant. *)
LEMMA WaitStoppedKeeps ==
  ASSUME JobsInv, NEW p \in Pids, WaitStopped(p)
  PROVE  JobsInv'
<1> DEFINE leader == Head(pids)
<1>1. /\ jobTable \in Seq(Job) /\ Len(jobTable) <= MaxJobs
      /\ pids \in Seq(Pids) /\ remaining \subseteq ToSet(pids) /\ ToSet(pids) \subseteq Pids
      /\ pids # <<>> /\ pc = "wait" /\ p \in remaining
      /\ waiters \subseteq Seq(Pids) /\ entered \cup exposed \subseteq Pids
      /\ UNCHANGED <<jobTable, pids, waiters, entered, exposed>>
      /\ pc' = "stopping" /\ remaining' = remaining \ {p}
  BY Types DEF WaitStopped
<1>2. /\ Collected(p) \in [Pids -> ProcStates]
      /\ \A q \in Pids \ {p} : Collected(p)[q] = proc[q]
      /\ proc[p] = "stopped" /\ Collected(p)[p] = "halted"
  BY CollectedIs DEF WaitStopped, Reportable
<1>3. leader \in ToSet(pids) /\ leader \in Pids
  BY <1>1 DEF ToSet
<1>4. /\ proc' \in [Pids -> ProcStates]
      /\ \A q \in Pids \ {p, leader} : proc'[q] = proc[q]
      /\ proc'[p] = "halted"
      /\ leader # p => \/ proc'[leader] = proc[leader]
                       \/ Runs(leader) /\ proc'[leader] = "stopped"
  <2>1. CASE leader # p /\ Runs(leader)
    <3>1. proc' = [Collected(p) EXCEPT ![leader] = "stopped"]
      BY <2>1 DEF WaitStopped
    <3>2. QED
      BY <1>2, <1>3, <2>1, <3>1 DEF ProcStates
  <2>2. CASE ~(leader # p /\ Runs(leader))
    <3>1. proc' = Collected(p)
      BY <2>2 DEF WaitStopped
    <3>2. QED
      BY <1>2, <1>3, <3>1
  <2>3. QED
    BY <2>1, <2>2
<1>5. /\ Talk'
      /\ \A q \in entered' : proc'[q] # "none"
      /\ \A k \in DOMAIN jobTable' : proc'[jobTable'[k].pid] # "none"
      /\ \A q \in ToSet(pids) : proc'[q] # "none"
  <2>1. \A q \in Pids : \/ proc'[q] = proc[q]
                        \/ /\ q \in exposed \cup ToSet(pids)
                           /\ \/ proc[q] = "zombie" /\ proc'[q] = "gone"
                              \/ proc[q] = "stopped" /\ proc'[q] = "halted"
                              \/ Runs(q) /\ proc'[q] = "stopped"
    BY <1>1, <1>2, <1>3, <1>4
  <2>2. QED
    BY <1>1, <1>4, <2>1, OthersKept
<1>6. WaitersExposed' /\ RoomLeft'
  BY <1>1 DEF JobsInv, WaitersExposed, RoomLeft
<1>7. Foreground'
  <2>1. \A q \in ToSet(pids) \ exposed :
          Listed(jobTable, q) = {} /\ Len(pids) = 1 /\ remaining = {q}
    BY <1>1 DEF JobsInv, Foreground
  <2>2. \A q \in ToSet(pids) \ exposed : q = p
    BY <1>1, <2>1
  <2>3. Listed(jobTable', p) = Listed(jobTable, p)
    BY <1>1
  <2>4. QED
    BY <1>1, <1>4, <2>1, <2>2, <2>3 DEF Foreground
<1>8. remaining' \subseteq ToSet(pids') /\ pids' # <<>>
  BY <1>1
<1>9. QED
  BY <1>1, <1>4, <1>5, <1>6, <1>7, <1>8, Assemble

(* The wait for the rest of a pipeline that stopped keeps the invariant. *)
LEMMA WaitRestKeeps ==
  ASSUME JobsInv, NEW p \in Pids, WaitRest(p)
  PROVE  JobsInv'
<1>1. /\ jobTable \in Seq(Job) /\ Len(jobTable) <= MaxJobs
      /\ pids \in Seq(Pids) /\ remaining \subseteq ToSet(pids) /\ ToSet(pids) \subseteq Pids
      /\ pids # <<>> /\ pc = "stopping" /\ p \in remaining
      /\ waiters \subseteq Seq(Pids) /\ entered \cup exposed \subseteq Pids
      /\ proc \in [Pids -> ProcStates]
      /\ UNCHANGED <<jobTable, pc, pids, waiters, entered, exposed>>
      /\ remaining' = remaining \ {p}
  BY Types DEF WaitRest
<1>2. /\ proc' \in [Pids -> ProcStates] /\ \A q \in Pids \ {p} : proc'[q] = proc[q]
      /\ \/ proc'[p] = proc[p]
         \/ proc[p] = "zombie" /\ proc'[p] = "gone"
         \/ proc[p] = "stopped" /\ proc'[p] = "halted"
  <2>1. CASE Reportable(p) /\ proc' = Collected(p)
    BY <2>1, CollectedIs
  <2>2. CASE UNCHANGED proc
    BY <1>1, <2>2
  <2>3. QED
    BY <2>1, <2>2 DEF WaitRest
<1>3. /\ Talk'
      /\ \A q \in entered' : proc'[q] # "none"
      /\ \A k \in DOMAIN jobTable' : proc'[jobTable'[k].pid] # "none"
      /\ \A q \in ToSet(pids) : proc'[q] # "none"
  BY <1>1, <1>2, OthersKept
<1>4. WaitersExposed' /\ RoomLeft'
  BY <1>1 DEF JobsInv, WaitersExposed, RoomLeft
<1>5. ToSet(pids) \ exposed = {}
  BY <1>1 DEF JobsInv, Foreground
<1>6. Foreground'
  BY <1>1, <1>5 DEF Foreground
<1>7. remaining' \subseteq ToSet(pids') /\ pids' # <<>>
  BY <1>1
<1>8. QED
  BY <1>1, <1>2, <1>3, <1>4, <1>6, <1>7, Assemble

(* The foreground wait without children left keeps the invariant. *)
LEMMA WaitNoneKeeps ==
  ASSUME JobsInv, WaitNone
  PROVE  JobsInv'
<1>1. /\ jobTable \in Seq(Job) /\ Len(jobTable) <= MaxJobs
      /\ waiters \subseteq Seq(Pids) /\ entered \cup exposed \subseteq Pids
      /\ proc \in [Pids -> ProcStates]
      /\ UNCHANGED <<proc, jobTable, waiters, entered, exposed>>
      /\ pids' = <<>> /\ pc' = "reap" /\ remaining' = {}
  BY Types DEF WaitNone, Return
<1>2. /\ Talk'
      /\ \A q \in entered' : proc'[q] # "none"
      /\ \A k \in DOMAIN jobTable' : proc'[jobTable'[k].pid] # "none"
  BY <1>1, OthersKept
<1>3. WaitersExposed'
  BY <1>1 DEF JobsInv, WaitersExposed
<1>4. QED
  BY <1>1, <1>2, <1>3, NoForeground, Assemble

(* A line that starts nothing. *)
LEMMA EmptyLineKeeps ==
  ASSUME JobsInv, EmptyLine
  PROVE  JobsInv'
<1>1. /\ jobTable \in Seq(Job) /\ Len(jobTable) <= MaxJobs
      /\ waiters \subseteq Seq(Pids) /\ entered \cup exposed \subseteq Pids
      /\ proc \in [Pids -> ProcStates] /\ pids = <<>> /\ remaining \subseteq ToSet(pids)
      /\ UNCHANGED <<proc, jobTable, pids, remaining, waiters, entered, exposed>>
      /\ pc' = "reap"
  BY Types DEF EmptyLine
<1>2. ToSet(pids) = {}
  BY <1>1 DEF ToSet
<1>3. remaining' = {}
  BY <1>1, <1>2
<1>4. /\ Talk'
      /\ \A q \in entered' : proc'[q] # "none"
      /\ \A k \in DOMAIN jobTable' : proc'[jobTable'[k].pid] # "none"
  BY <1>1, OthersKept
<1>5. WaitersExposed'
  BY <1>1 DEF JobsInv, WaitersExposed
<1>6. QED
  BY <1>1, <1>3, <1>4, <1>5, NoForeground, Assemble
-----------------------------------------------------------------------------
(* Statuses of other jobs: the reaping at the prompt, and what wait4(-1)   *)
(* returns to waitForeground.                                              *)
LEMMA ReapKeeps ==
  ASSUME JobsInv, reapZombies
  PROVE  JobsInv'
<1>1. /\ jobTable \in Seq(Job) /\ Len(jobTable) <= MaxJobs
      /\ waiters \subseteq Seq(Pids) /\ entered \cup exposed \subseteq Pids
      /\ proc \in [Pids -> ProcStates] /\ pids = <<>> /\ remaining \subseteq ToSet(pids)
      /\ UNCHANGED <<pids, remaining, waiters, entered, exposed>>
      /\ pc' \in {"reap", "prompt"}
  BY Types DEF reapZombies
<1>2. ToSet(pids) = {}
  BY <1>1 DEF ToSet
<1>3. Foreground' /\ RoomLeft' /\ WaitersExposed'
  BY <1>1, <1>2 DEF Foreground, RoomLeft, JobsInv, WaitersExposed
<1>4. CASE UNCHANGED <<proc, jobTable>>
  <2>1. /\ Talk'
        /\ \A q \in entered' : proc'[q] # "none"
        /\ \A k \in DOMAIN jobTable' : proc'[jobTable'[k].pid] # "none"
    BY <1>1, <1>4, OthersKept
  <2>2. QED
    BY <1>1, <1>2, <1>3, <1>4, <2>1, Assemble
<1>5. CASE \E p \in BgPids : /\ Reportable(p)
                             /\ jobTable' = handleChildReap(jobTable, p)
                             /\ proc' = Collected(p)
  <2>1. PICK p \in BgPids : /\ Reportable(p)
                            /\ jobTable' = handleChildReap(jobTable, p)
                            /\ proc' = Collected(p)
    BY <1>5
  <2>2. p \in Pids
    BY <1>1, EntryType DEF BgPids
  <2>3. /\ Talk'
        /\ \A q \in entered' : proc'[q] # "none"
        /\ \A k \in DOMAIN jobTable' : proc'[jobTable'[k].pid] # "none"
        /\ jobTable' \in Seq(Job) /\ Len(jobTable') = Len(jobTable)
        /\ proc' \in [Pids -> ProcStates]
    BY <1>1, <2>1, <2>2, CollectKept
  <2>4. QED
    BY <1>1, <1>2, <1>3, <2>3, Assemble
<1>6. QED
  BY <1>4, <1>5 DEF reapZombies

(* The foreground wait that collects another job enters it in the table, and keeps the invariant. *)
LEMMA WaitOtherKeeps ==
  ASSUME JobsInv, NEW p \in Pids, WaitOther(p)
  PROVE  JobsInv'
<1>1. /\ jobTable \in Seq(Job) /\ Len(jobTable) <= MaxJobs
      /\ pids \in Seq(Pids) /\ remaining \subseteq ToSet(pids) /\ ToSet(pids) \subseteq Pids
      /\ pids # <<>> /\ pc = "wait"
      /\ waiters \subseteq Seq(Pids) /\ entered \cup exposed \subseteq Pids
      /\ UNCHANGED <<pc, pids, remaining, waiters, entered, exposed>>
  BY Types DEF WaitOther
<1>2. /\ Talk'
      /\ \A q \in entered' : proc'[q] # "none"
      /\ \A k \in DOMAIN jobTable' : proc'[jobTable'[k].pid] # "none"
      /\ jobTable' \in Seq(Job) /\ Len(jobTable') = Len(jobTable)
      /\ proc' \in [Pids -> ProcStates]
      /\ \A q \in Pids \ {p} : proc'[q] = proc[q]
      /\ \A q : Listed(jobTable, q)' = Listed(jobTable, q)
  BY <1>1, CollectKept DEF WaitOther
<1>3. \A q \in ToSet(pids) : proc'[q] # "none"
  <2>1. proc'[p] # "none"
    BY CollectedIs DEF WaitOther
  <2>2. QED
    BY <1>1, <1>2, <2>1 DEF JobsInv, Started
<1>4. Foreground'
  <2>1. \A q \in ToSet(pids) \ exposed :
          Listed(jobTable, q) = {} /\ Len(pids) = 1 /\ remaining = {q}
    BY <1>1 DEF JobsInv, Foreground
  <2>2. \A q : Listed(jobTable', q) = Listed(jobTable, q)
    BY <1>2
  <2>3. QED
    BY <1>1, <2>1, <2>2 DEF Foreground
<1>5. RoomLeft' /\ WaitersExposed'
  BY <1>1, <1>2 DEF RoomLeft, JobsInv, WaitersExposed
<1>6. QED
  BY <1>1, <1>2, <1>3, <1>4, <1>5, Assemble
-----------------------------------------------------------------------------
(* A job is entered. *)
LEMMA AddKept ==
  ASSUME JobsInv, NEW p \in Pids, NEW st \in {"Running", "Stopped"},
         jobTable' = addJob(p, st), entered' = entered \cup {p},
         exposed \subseteq exposed', exposed' \subseteq Pids, proc' \in [Pids -> ProcStates],
         \A q \in Pids : proc[q] # "none" => proc'[q] = proc[q],
         proc'[p] # "none",
         p \notin exposed' => /\ Listed(jobTable, p) = {} /\ proc'[p] # "gone"
                              /\ st = "Stopped" => proc'[p] # "running"
  PROVE  /\ Talk'
         /\ \A q \in entered' : proc'[q] # "none"
         /\ \A k \in DOMAIN jobTable' : proc'[jobTable'[k].pid] # "none"
         /\ jobTable' \in Seq(Job) /\ Len(jobTable') <= Len(jobTable) + 1
         /\ \A q : q # p /\ Listed(jobTable, q) = {} => Listed(jobTable', q) = {}
<1> DEFINE t == jobTable'
<1>1. jobTable \in Seq(Job) /\ entered \subseteq Pids
  BY Types
<1>2. Added(jobTable, t, p, st)
  BY <1>1, AddSpec
<1> HIDE DEF t
<1>3. /\ t \in Seq(Job) /\ Len(t) <= Len(jobTable) + 1
      /\ \A k \in DOMAIN t : k = Len(t) \/ \E j \in DOMAIN jobTable : t[k] = jobTable[j]
      /\ t[Len(t)] = Entry(p, st) /\ Len(t) \in DOMAIN t
      /\ \A j \in DOMAIN jobTable : jobTable[j].state # "Done" =>
           \E k \in DOMAIN t : t[k] = jobTable[j]
      /\ Listed(jobTable, p) = {} => Listed(t, p) = {Len(t)}
  BY <1>2 DEF Added
<1>4. t[Len(t)].pid = p /\ t[Len(t)].state = st
  BY <1>3 DEF Entry
<1>5. \A j \in DOMAIN jobTable : jobTable[j].pid \in Pids /\ proc'[jobTable[j].pid] # "none"
                                 /\ proc'[jobTable[j].pid] = proc[jobTable[j].pid]
  BY <1>1, EntryType DEF JobsInv, Started
<1>6. \A k \in DOMAIN t : proc'[t[k].pid] # "none"
  BY <1>3, <1>4, <1>5
<1>7. \A q \in entered' : proc'[q] # "none"
  BY <1>1 DEF JobsInv, Started
<1>8. \A q : q # p /\ Listed(jobTable, q) = {} => Listed(t, q) = {}
  BY <1>3, <1>4 DEF Listed
<1>9. TableTruthful'
  <2>1. SUFFICES ASSUME NEW k \in DOMAIN t, t[k].pid \notin exposed'
                 PROVE  /\ Listed(t, t[k].pid) = {k}
                        /\ t[k].state = "Done" <=> proc'[t[k].pid] = "gone"
                        /\ t[k].state = "Stopped" =>
                             proc'[t[k].pid] # "running"
    BY DEF TableTruthful, t
  <2>2. CASE k = Len(t)
    BY <1>3, <1>4, <2>1, <2>2
  <2>3. CASE k # Len(t)
    <3>1. PICK j \in DOMAIN jobTable : t[k] = jobTable[j]
      BY <1>3, <2>3
    <3> DEFINE q == t[k].pid
    <3>2. q = jobTable[j].pid /\ q \notin exposed /\ Listed(jobTable, q) # {}
      BY <2>1, <3>1 DEF Listed
    <3>3. q # p
      BY <2>1, <3>2
    <3>4. /\ Listed(jobTable, q) = {j}
          /\ jobTable[j].state = "Done" <=> proc[q] = "gone"
          /\ jobTable[j].state = "Stopped" => proc[q] # "running"
      BY <3>2 DEF JobsInv, TableTruthful
    <3>5. \A i, l \in DOMAIN jobTable : jobTable[i].pid = q /\ jobTable[l].pid = q => i = l
      BY <3>4 DEF Listed
    <3>6. \A i, l \in DOMAIN t : t[i].pid = q /\ t[l].pid = q => i = l
      <4>1. q # p /\ (\A i, l \in DOMAIN jobTable : jobTable[i].pid = q /\ jobTable[l].pid = q => i = l)
            => \A i, l \in DOMAIN t : t[i].pid = q /\ t[l].pid = q => i = l
        BY <1>2 DEF Added
      <4>2. QED
        BY <3>3, <3>5, <4>1
    <3>7. Listed(t, q) = {k}
      BY <3>6 DEF Listed
    <3>8. QED
      BY <1>5, <3>1, <3>2, <3>4, <3>7
  <2>4. QED
    BY <2>2, <2>3
<1>10. NeverForgotten'
  <2>1. SUFFICES ASSUME NEW q \in entered \cup {p}, Alive(q)'
                 PROVE  \E k \in DOMAIN t : t[k].pid = q /\ t[k].state # "Done"
    BY DEF NeverForgotten, Live, Listed, t
  <2>2. CASE q = p
    BY <1>3, <1>4, <2>2
  <2>3. CASE q \in entered
    <3>1. Alive(q)
      BY <1>1, <2>1, <2>3 DEF JobsInv, Started, Alive
    <3>2. PICK j \in Live(q) : TRUE
      BY <2>3, <3>1 DEF JobsInv, NeverForgotten
    <3>3. j \in DOMAIN jobTable /\ jobTable[j].pid = q /\ jobTable[j].state # "Done"
      BY DEF Live, Listed
    <3>4. QED
      BY <1>3, <3>3
  <2>4. QED
    BY <2>1, <2>2, <2>3
<1>11. QED
  BY <1>3, <1>6, <1>7, <1>8, <1>9, <1>10 DEF t, Talk

(* The stopped foreground job is entered in the table, and the invariant stays. *)
LEMMA EnterStoppedKeeps ==
  ASSUME JobsInv, EnterStopped
  PROVE  JobsInv'
<1> DEFINE p == Head(pids)
<1>1. /\ jobTable \in Seq(Job) /\ Len(jobTable) <= MaxJobs
      /\ pids \in Seq(Pids) /\ pids # <<>> /\ pc = "stopping"
      /\ waiters \subseteq Seq(Pids) /\ entered \cup exposed \subseteq Pids
      /\ proc \in [Pids -> ProcStates]
      /\ UNCHANGED <<proc, waiters, exposed>> /\ entered' = entered \cup {p}
      /\ jobTable' = addJob(p, "Stopped")
      /\ pids' = <<>> /\ pc' = "reap" /\ remaining' = {}
  BY Types DEF EnterStopped, Return
<1>2. p \in ToSet(pids) /\ p \in Pids
  BY <1>1 DEF ToSet
<1>3. p \notin exposed => Listed(jobTable, p) = {} /\ proc[p] \notin {"running", "gone"}
  BY <1>1, <1>2 DEF JobsInv, Foreground
<1>4. proc[p] # "none"
  BY <1>2 DEF JobsInv, Started
<1> HIDE DEF p
<1>5. /\ Talk'
      /\ \A q \in entered' : proc'[q] # "none"
      /\ \A k \in DOMAIN jobTable' : proc'[jobTable'[k].pid] # "none"
      /\ jobTable' \in Seq(Job) /\ Len(jobTable') <= Len(jobTable) + 1
  BY <1>1, <1>2, <1>3, <1>4, AddKept
<1>6. Len(jobTable') <= MaxJobs
  <2>1. Len(jobTable) < MaxJobs
    BY <1>1 DEF JobsInv, RoomLeft
  <2>2. Len(jobTable) \in Nat /\ Len(jobTable') \in Nat
    BY <1>1, <1>5
  <2>3. QED
    BY <1>5, <2>1, <2>2, JobsAssumption
<1>7. WaitersExposed'
  BY <1>1 DEF JobsInv, WaitersExposed
<1>8. QED
  BY <1>1, <1>2, <1>5, <1>6, <1>7, NoForeground, Assemble
-----------------------------------------------------------------------------
(* The lines that start or continue something. *)

(* Start makes the processes of a command run and touches no other. *)
LEMMA StartIs ==
  ASSUME JobsInv, NEW ps \in Commands
  PROVE  /\ Start(ps) \in [Pids -> ProcStates]
         /\ \A q \in ToSet(ps) : q \in Pids /\ proc[q] = "none" /\ Start(ps)[q] = "running"
         /\ \A q \in Pids : proc[q] # "none" => Start(ps)[q] = proc[q]
         /\ \A q \in ToSet(ps) : Listed(jobTable, q) = {} /\ q \notin entered
<1>1. proc \in [Pids -> ProcStates] /\ jobTable \in Seq(Job)
  BY Types
<1>2. ToSet(ps) \subseteq Fresh
  BY CommandShape
<1>3. \A q \in ToSet(ps) : q \in Pids /\ proc[q] = "none"
  BY <1>2 DEF Fresh
<1>4. \A q \in ToSet(ps) : Listed(jobTable, q) = {} /\ q \notin entered
  BY <1>3 DEF JobsInv, Started, Listed
<1>5. QED
  BY <1>1, <1>3, <1>4 DEF Start, ProcStates

(* A pipeline whose second process cannot be started keeps the invariant. *)
LEMMA StartFailsKeeps ==
  ASSUME JobsInv, NEW p \in Fresh, StartFails(p)
  PROVE  JobsInv'
<1>1. /\ jobTable \in Seq(Job) /\ Len(jobTable) <= MaxJobs
      /\ waiters \subseteq Seq(Pids) /\ entered \cup exposed \subseteq Pids
      /\ pids = <<>> /\ remaining \subseteq ToSet(pids)
      /\ proc' = Start(<<p>>) /\ UNCHANGED <<jobTable, waiters, entered, exposed>>
      /\ UNCHANGED <<pids, remaining>> /\ pc' = "reap"
  BY Types DEF StartFails
<1>2. remaining' = {} /\ pids' = <<>>
  BY <1>1 DEF ToSet
<1>3. <<p>> \in Commands
  BY DEF Commands
<1>4. /\ proc' \in [Pids -> ProcStates]
      /\ \A q \in Pids : proc[q] # "none" => proc'[q] = proc[q]
  BY <1>1, <1>3, StartIs
<1>5. /\ Talk'
      /\ \A q \in entered' : proc'[q] # "none"
      /\ \A k \in DOMAIN jobTable' : proc'[jobTable'[k].pid] # "none"
  <2>1. \A q \in Pids : Listed(jobTable, q) # {} => proc[q] # "none"
    BY DEF JobsInv, Started, Listed
  <2>2. \A q \in Pids : proc[q] # "none" /\ Alive(q)' => Alive(q)
    BY <1>4 DEF Alive
  <2>3. QED
    BY <1>1, <1>4, <2>1, <2>2, TableKept
<1>6. WaitersExposed'
  BY <1>1 DEF JobsInv, WaitersExposed
<1>7. QED
  BY <1>1, <1>2, <1>4, <1>5, <1>6, NoForeground, Assemble

(* A foreground command, reapZombies before it, keeps the invariant. *)
LEMMA RunForegroundKeeps ==
  ASSUME JobsInv, Len(jobTable) < MaxJobs, NEW ps \in Commands, RunForeground(ps)
  PROVE  JobsInv'
<1>1. /\ jobTable \in Seq(Job) /\ Len(jobTable) <= MaxJobs
      /\ waiters \subseteq Seq(Pids) /\ entered \cup exposed \subseteq Pids
      /\ proc' = Start(ps) /\ UNCHANGED <<jobTable, waiters, entered>>
      /\ pids' = ps /\ remaining' = ToSet(ps) /\ pc' = "wait"
  BY Types DEF RunForeground
<1>2. /\ ps \in Seq(Pids) /\ Len(ps) \in {1, 2} /\ ps # <<>>
      /\ Len(ps) = 1 => ToSet(ps) = {Head(ps)}
  BY CommandShape
<1>3. /\ proc' \in [Pids -> ProcStates]
      /\ \A q \in ToSet(ps) : q \in Pids /\ proc'[q] = "running" /\ Listed(jobTable, q) = {}
      /\ \A q \in ToSet(ps) : proc[q] = "none" /\ q \notin entered
      /\ \A q \in Pids : proc[q] # "none" => proc'[q] = proc[q]
  BY <1>1, StartIs
<1>4. exposed \subseteq exposed' /\ exposed' \subseteq Pids
      /\ (Len(ps) # 1 => ToSet(ps) \subseteq exposed')
  BY <1>1, <1>3 DEF RunForeground
<1>5. /\ Talk'
      /\ \A p \in entered' : proc'[p] # "none"
      /\ \A k \in DOMAIN jobTable' : proc'[jobTable'[k].pid] # "none"
  <2>1. \A p \in Pids : Listed(jobTable, p) # {} => proc[p] # "none"
    BY DEF JobsInv, Started, Listed
  <2>2. \A p \in Pids : proc[p] # "none" /\ Alive(p)' => Alive(p)
    BY <1>3 DEF Alive
  <2>3. QED
    BY <1>1, <1>3, <1>4, <2>1, <2>2, TableKept
<1>6. Foreground'
  <2>1. \A q \in ToSet(ps) \ exposed' : Len(ps) = 1 /\ ToSet(ps) = {q}
    BY <1>2, <1>4
  <2>2. QED
    BY <1>1, <1>3, <2>1 DEF Foreground
<1>7. RoomLeft'
  BY <1>1 DEF RoomLeft
<1>8. WaitersExposed'
  BY <1>1, <1>4 DEF JobsInv, WaitersExposed
<1>9. QED
  BY <1>1, <1>2, <1>3, <1>4, <1>5, <1>6, <1>7, <1>8, Assemble

(* A background command, reapZombies before it and addJob, keeps the invariant. *)
LEMMA RunBackgroundKeeps ==
  ASSUME JobsInv, Len(jobTable) < MaxJobs, NEW ps \in Commands, RunBackground(ps)
  PROVE  JobsInv'
<1> DEFINE p == Head(ps)
<1>1. /\ jobTable \in Seq(Job) /\ pids = <<>> /\ remaining \subseteq ToSet(pids)
      /\ waiters \subseteq Seq(Pids) /\ entered \cup exposed \subseteq Pids
      /\ proc' = Start(ps) /\ UNCHANGED <<pids, remaining>> /\ pc' = "reap"
      /\ jobTable' = addJob(p, "Running") /\ entered' = entered \cup {p}
  BY Types DEF RunBackground
<1>2. remaining' = {} /\ pids' = <<>>
  BY <1>1 DEF ToSet
<1>3. ps \in Seq(Pids) /\ ps # <<>> /\ p \in ToSet(ps)
  BY CommandShape
<1>4. /\ proc' \in [Pids -> ProcStates]
      /\ \A q \in ToSet(ps) : q \in Pids /\ proc'[q] = "running" /\ Listed(jobTable, q) = {}
      /\ \A q \in Pids : proc[q] # "none" => proc'[q] = proc[q]
  BY <1>1, StartIs
<1>5. exposed \subseteq exposed' /\ exposed' \subseteq Pids
      /\ waiters' \subseteq Seq(Pids) /\ WaitersExposed'
  <2>1. CASE Len(ps) = 1
    <3>1. UNCHANGED <<waiters, exposed>>
      BY <2>1 DEF RunBackground
    <3>2. QED
      BY <1>1, <3>1 DEF JobsInv, WaitersExposed
  <2>2. CASE Len(ps) # 1
    <3>1. waiters' = waiters \cup {ps} /\ exposed' = exposed \cup ToSet(ps)
      BY <2>2 DEF RunBackground
    <3>2. QED
      BY <1>1, <1>3, <1>4, <3>1 DEF JobsInv, WaitersExposed
  <2>3. QED
    BY <2>1, <2>2
<1>6. /\ p \in Pids /\ proc'[p] # "none" /\ proc'[p] # "gone" /\ Listed(jobTable, p) = {}
  BY <1>3, <1>4
<1> HIDE DEF p
<1>7. /\ Talk'
      /\ \A q \in entered' : proc'[q] # "none"
      /\ \A k \in DOMAIN jobTable' : proc'[jobTable'[k].pid] # "none"
      /\ jobTable' \in Seq(Job) /\ Len(jobTable') <= Len(jobTable) + 1
  BY <1>1, <1>4, <1>5, <1>6, AddKept
<1>8. Len(jobTable') <= MaxJobs
  <2>1. Len(jobTable) \in Nat /\ Len(jobTable') \in Nat
    BY <1>1, <1>7
  <2>2. QED
    BY <1>7, <2>1, JobsAssumption
<1>9. entered' \cup exposed' \subseteq Pids
  BY <1>1, <1>5, <1>6
<1>10. QED
  BY <1>1, <1>2, <1>4, <1>5, <1>7, <1>8, <1>9, NoForeground, Assemble

(* The entry fg or bg names is marked Running and its process continued. *)
LEMMA ContinueKept ==
  ASSUME JobsInv, NEW k \in DOMAIN jobTable, NEW p, p = jobTable[k].pid,
         jobTable' = Mark(jobTable, p, "Running"), proc' = Continued(p),
         exposed \subseteq exposed', entered' = entered,
         p \in exposed' \/ jobTable[k].state # "Done"
  PROVE  /\ Talk'
         /\ \A q \in entered' : proc'[q] # "none"
         /\ \A j \in DOMAIN jobTable' : proc'[jobTable'[j].pid] # "none"
         /\ jobTable' \in Seq(Job) /\ Len(jobTable') = Len(jobTable)
         /\ proc' \in [Pids -> ProcStates] /\ p \in Pids /\ proc'[p] # "none"
<1> DEFINE t == jobTable'
<1>1. proc \in [Pids -> ProcStates] /\ jobTable \in Seq(Job) /\ entered \subseteq Pids
  BY Types
<1>2. \A j \in DOMAIN jobTable : jobTable[j].pid \in Pids /\ proc[jobTable[j].pid] # "none"
  BY <1>1, EntryType DEF JobsInv, Started
<1>3. p \in Pids /\ proc[p] # "none" /\ k \in Listed(jobTable, p)
  BY <1>2 DEF Listed
<1>4. /\ proc' \in [Pids -> ProcStates] /\ \A q \in Pids \ {p} : proc'[q] = proc[q]
      /\ proc'[p] # "none" /\ (proc'[p] = "gone" <=> proc[p] = "gone")
      /\ Alive(p)' => Alive(p)
  BY <1>1, <1>3 DEF Continued, ProcStates, Alive
<1>5. Marked(jobTable, t, p, "Running")
  BY <1>1, <1>3, MarkSpec
<1> HIDE DEF t
<1>6. /\ t \in Seq(Job) /\ Len(t) = Len(jobTable) /\ DOMAIN t = DOMAIN jobTable
      /\ \A j \in DOMAIN jobTable :
           /\ t[j].pid = jobTable[j].pid
           /\ jobTable[j].pid # p => t[j] = jobTable[j]
           /\ Listed(jobTable, p) = {j} => t[j].state = "Running"
      /\ \A q : Listed(t, q) = Listed(jobTable, q)
      /\ \E j \in Listed(t, p) : t[j].state = "Running"
  BY <1>5 DEF Marked
<1>7. TableTruthful'
  <2>1. SUFFICES ASSUME NEW j \in DOMAIN jobTable, jobTable[j].pid \notin exposed'
                 PROVE  /\ Listed(jobTable, jobTable[j].pid) = {j}
                        /\ t[j].state = "Done" <=> proc'[jobTable[j].pid] = "gone"
                        /\ t[j].state = "Stopped" =>
                             proc'[jobTable[j].pid] # "running"
    <3>1. \A j \in DOMAIN t :
            /\ j \in DOMAIN jobTable /\ t[j].pid = jobTable[j].pid
            /\ Listed(t, t[j].pid) = Listed(jobTable, jobTable[j].pid)
      BY <1>6
    <3>2. QED
      BY <3>1 DEF TableTruthful, t
  <2>2. /\ Listed(jobTable, jobTable[j].pid) = {j}
        /\ jobTable[j].state = "Done" <=> proc[jobTable[j].pid] = "gone"
        /\ jobTable[j].state = "Stopped" =>
             proc[jobTable[j].pid] # "running"
    BY <2>1 DEF JobsInv, TableTruthful
  <2>3. CASE jobTable[j].pid = p
    <3>1. j = k
      BY <1>3, <2>2, <2>3
    <3>2. t[j].state = "Running" /\ jobTable[j].state # "Done"
      BY <1>6, <2>1, <2>2, <2>3, <3>1
    <3>3. QED
      BY <1>4, <2>2, <2>3, <3>2
  <2>4. CASE jobTable[j].pid # p
    BY <1>2, <1>4, <1>6, <2>2, <2>4
  <2>5. QED
    BY <2>3, <2>4
<1>8. NeverForgotten'
  <2>1. SUFFICES ASSUME NEW q \in entered, Alive(q)'
                 PROVE  \E j \in Listed(t, q) : t[j].state # "Done"
    BY DEF NeverForgotten, Live, t
  <2>2. CASE q = p
    <3>1. PICK j \in Listed(t, p) : t[j].state = "Running"
      BY <1>6
    <3>2. QED
      BY <2>2, <3>1
  <2>3. CASE q # p
    <3>1. Alive(q)
      BY <1>1, <1>4, <2>1, <2>3 DEF Alive
    <3>2. PICK j \in Live(q) : TRUE
      BY <3>1 DEF JobsInv, NeverForgotten
    <3>3. j \in DOMAIN jobTable /\ jobTable[j].pid = q /\ jobTable[j].state # "Done"
      BY DEF Live, Listed
    <3>4. t[j] = jobTable[j] /\ j \in Listed(t, q)
      BY <1>6, <2>3, <3>3 DEF Listed
    <3>5. QED
      BY <3>3, <3>4
  <2>4. QED
    BY <2>2, <2>3
<1>9. \A j \in DOMAIN t : proc'[t[j].pid] # "none"
  BY <1>2, <1>4, <1>6
<1>10. \A q \in entered' : proc'[q] # "none"
  BY <1>1, <1>4 DEF JobsInv, Started
<1>11. QED
  BY <1>3, <1>4, <1>6, <1>7, <1>8, <1>9, <1>10 DEF t, Talk

(* fg leaves the job in the table and keeps the invariant. *)
LEMMA FgKeeps ==
  ASSUME JobsInv, Len(jobTable) < MaxJobs, NEW k \in Nameable, Fg(k)
  PROVE  JobsInv'
<1> DEFINE p == jobTable[k].pid
<1>1. /\ k \in DOMAIN jobTable /\ jobTable[k].state # "Done"
      /\ waiters \subseteq Seq(Pids) /\ entered \cup exposed \subseteq Pids
      /\ jobTable' = Mark(jobTable, p, "Running") /\ proc' = Continued(p)
      /\ pids' = <<p>> /\ remaining' = {p} /\ pc' = "wait"
      /\ exposed' = exposed \cup {p} /\ UNCHANGED <<waiters, entered>>
  BY Types DEF Fg, Nameable
<1>2. /\ Talk'
      /\ \A q \in entered' : proc'[q] # "none"
      /\ \A j \in DOMAIN jobTable' : proc'[jobTable'[j].pid] # "none"
      /\ jobTable' \in Seq(Job) /\ Len(jobTable') = Len(jobTable)
      /\ proc' \in [Pids -> ProcStates] /\ p \in Pids /\ proc'[p] # "none"
  BY <1>1, ContinueKept
<1> HIDE DEF p
<1>3. pids' \in Seq(Pids) /\ pids' # <<>> /\ ToSet(pids') = {p}
  BY <1>1, <1>2 DEF ToSet
<1>4. Foreground' /\ RoomLeft'
  BY <1>1, <1>2, <1>3 DEF Foreground, RoomLeft
<1>5. WaitersExposed'
  BY <1>1 DEF JobsInv, WaitersExposed
<1>6. Len(jobTable') <= MaxJobs
  BY <1>2, JobsAssumption
<1>7. QED
  BY <1>1, <1>2, <1>3, <1>4, <1>5, <1>6, Assemble

(* bg marks the job as running after it was continued, and keeps the invariant. *)
LEMMA BgKeeps ==
  ASSUME JobsInv, NEW k \in Nameable, Bg(k)
  PROVE  JobsInv'
<1> DEFINE p == jobTable[k].pid
<1>1. /\ k \in DOMAIN jobTable /\ jobTable[k].state # "Done"
      /\ waiters \subseteq Seq(Pids) /\ entered \cup exposed \subseteq Pids
      /\ pids = <<>> /\ remaining \subseteq ToSet(pids)
      /\ jobTable' = Mark(jobTable, p, "Running") /\ proc' = Continued(p)
      /\ pc' = "reap" /\ UNCHANGED <<pids, remaining, waiters, entered, exposed>>
  BY Types DEF Bg, Nameable
<1>2. remaining' = {} /\ pids' = <<>>
  BY <1>1 DEF ToSet
<1>3. /\ Talk'
      /\ \A q \in entered' : proc'[q] # "none"
      /\ \A j \in DOMAIN jobTable' : proc'[jobTable'[j].pid] # "none"
      /\ jobTable' \in Seq(Job) /\ Len(jobTable') = Len(jobTable)
      /\ proc' \in [Pids -> ProcStates]
  BY <1>1, ContinueKept
<1> HIDE DEF p
<1>4. WaitersExposed'
  BY <1>1 DEF JobsInv, WaitersExposed
<1>5. Len(jobTable') <= MaxJobs
  BY <1>3, Types
<1>6. QED
  BY <1>1, <1>2, <1>3, <1>4, <1>5, NoForeground, Assemble
-----------------------------------------------------------------------------
(* An empty job table satisfies the invariant. *)
LEMMA InitInv ==
  ASSUME Init
  PROVE  JobsInv
<1>1. ToSet(<<>>) = {}
  BY DEF ToSet
<1>2. TypeOK
  BY <1>1, JobsAssumption DEF Init, TypeOK
<1>3. RoomLeft /\ Started /\ TableTruthful /\ NeverForgotten
  BY <1>1 DEF Init, RoomLeft, Started, TableTruthful, NeverForgotten
<1>4. Foreground /\ WaitersExposed
  BY <1>1 DEF Init, Foreground, WaitersExposed
<1>5. QED
  BY <1>2, <1>3, <1>4 DEF JobsInv

(* One step of the shell, its goroutines or its processes keeps the invariant. *)
LEMMA StepInv ==
  ASSUME JobsInv, [Next]_vars
  PROVE  JobsInv'
<1>1. CASE \E p \in Pids : Exit(p) \/ Stop(p) \/ Resume(p)
  BY <1>1, ExitKeeps
<1>2. CASE ForwardStop
  BY <1>2, ForwardStopKeeps
<1>3. CASE reapZombies
  BY <1>3, ReapKeeps
<1>4. CASE Line
  BY <1>4, EmptyLineKeeps, StartFailsKeeps, RunForegroundKeeps, RunBackgroundKeeps, FgKeeps, BgKeeps DEF Line
<1>5. CASE Wait
  BY <1>5, WaitOtherKeeps, WaitEndedKeeps, WaitStoppedKeeps, WaitRestKeeps,
     WaitNoneKeeps, EnterStoppedKeeps DEF Wait, WaitOwn
<1>6. CASE \E ps \in waiters : PipelineWaiter(ps)
  BY <1>6, WaiterKeeps
<1>7. CASE UNCHANGED vars
  BY <1>7 DEF vars, JobsInv, TypeOK, RoomLeft, Started, TableTruthful, NeverForgotten,
     Foreground, WaitersExposed, Listed, Live, Alive
<1>8. QED
  BY <1>1, <1>2, <1>3, <1>4, <1>5, <1>6, <1>7 DEF Next

(* The strengthened invariant holds for any set of processes and any bound *)
(* on the table.                                                           *)
THEOREM JobsInvariance == Spec => []JobsInv
<1>1. Init => JobsInv
  BY InitInv
<1>2. JobsInv /\ [Next]_vars => JobsInv'
  BY StepInv
<1>3. QED
  BY <1>1, <1>2, PTL DEF Spec

(* A process that went to the background or stopped in the foreground is   *)
(* never forgotten: whatever addJob's clean-up, the marks of fg, bg and    *)
(* handleChildReap and the three places that collect do to the table, it   *)
(* keeps an entry that is not Done until the process has ended.            *)
THEOREM JobsRemembered == Spec => []NeverForgotten
<1>1. JobsInv => NeverForgotten
  BY DEF JobsInv
<1>2. QED
  BY <1>1, JobsInvariance, PTL

(* What jobs prints is true of every job that is neither a pipeline nor    *)
(* was brought back by fg: one entry, Done exactly when its process was    *)
(* collected, Stopped only when it stopped, and running in spite of it     *)
(* only when kill rather than fg or bg continued it.                       *)
THEOREM JobsTruthful == Spec => []JobTableSound
<1>1. JobsInv => JobTableSound
  BY DEF JobsInv, JobTableSound
<1>2. QED
  BY <1>1, JobsInvariance, PTL
=============================================================================
