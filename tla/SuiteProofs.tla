----------------------------- MODULE SuiteProofs -----------------------------
(***************************************************************************)
(* Theorems about SimSuite, for every set of task lists and programs, any  *)
(* number of threads and invocations, and whatever the tools do.  The      *)
(* second half is about the two logs: which events a verdict speaks for.   *)
(***************************************************************************)
EXTENDS SimSuite, TLAPS, NaturalsInduction, SequenceTheorems, WellFoundedInduction

-----------------------------------------------------------------------------
(* Shapes: what the proofs need of the types.                              *)

Steps == {"out", "queued", "gen", "iss", "imem", "sim", "running", "hung",
          "process", "compare", "stats", "done", "failed"}

File(f) == f = [by |-> f.by, log |-> f.log, raw |-> f.raw]
Directory(d) ==
  /\ d = [elf |-> d.elf, dram |-> d.dram, iss |-> d.iss, rtl |-> d.rtl]
  /\ File(d.iss) /\ File(d.rtl)

Shapes ==
  /\ at \in [Tests -> Steps]
  /\ said \in [Tests -> {"nothing", "PASSED", "FAILED"}]
  /\ work = [t \in Tests |-> work[t]] /\ \A t \in Tests : Directory(work[t])
  /\ Named(asked) \subseteq Tests

\* A step of a test's thread is a step of that test alone, in these ways.
ThreadStep(t) ==
  /\ UNCHANGED <<tree, asked, main, seen, sim, run>>
  /\ at[t] \notin {"out", "done", "failed"}
  /\ at' = [at EXCEPT ![t] = at'[t]] /\ at'[t] \in Steps
  /\ said' = [said EXCEPT ![t] = said'[t]]
  /\ said'[t] \in {"nothing", "PASSED", "FAILED"}
  /\ work' = [work EXCEPT ![t] = work'[t]] /\ Directory(work'[t])

\* What FreshVerdict is about: the files a step leaves behind it.
Built(t) ==
  Kind(t) \in {"c", "pyvedas"} =>
    /\ work[t].elf = tree.ver
    /\ Kind(t) = "pyvedas" /\ tree.ver \in Dram => work[t].dram = tree.ver

Done(t) ==
  /\ at[t] \notin {"out", "queued", "gen", "failed"} => Built(t)
  /\ at[t] \in {"imem", "sim", "running", "hung", "process", "compare", "stats", "done"}
       => work[t].iss.by = run
  /\ at[t] \in {"running", "hung"} => work[t].rtl.by = 0
  /\ at[t] = "process" => work[t].rtl.by \in {0, run}
  /\ at[t] \in {"compare", "stats", "done"} => work[t].rtl.by = run

Told(t) ==
  /\ said[t] # "nothing" =>
       /\ at[t] \in {"stats", "done", "failed"}
       /\ Built(t) /\ work[t].iss.by = run /\ work[t].rtl.by = run
  /\ at[t] \in {"stats", "done"} => said[t] # "nothing"

\* Whose files the work directory holds, and that what runs has an ELF.
Built0 == Versions \cup {0}
Typed(t) ==
  /\ work[t].elf \in Built0 /\ work[t].dram \in Built0
  /\ work[t].iss.by \in 0..run /\ work[t].rtl.by \in 0..run
  /\ at[t] \in {"iss", "imem", "sim", "running", "hung", "process",
                "compare", "stats"} => work[t].elf \in Versions

\* An assignment to one file of one work directory.
LEMMA PutShape ==
  ASSUME Shapes, NEW t \in Tests, NEW file \in {"elf", "dram", "iss", "rtl"},
         NEW value, file \in {"iss", "rtl"} => File(value), Put(t, file, value)
  PROVE  /\ work' = [work EXCEPT ![t] = work'[t]] /\ Directory(work'[t])
         /\ work'[t][file] = value
         /\ \A f \in {"elf", "dram", "iss", "rtl"} \ {file} : work'[t][f] = work[t][f]
<1> DEFINE d == work[t]
<1>1. Directory(d) /\ DOMAIN work = Tests
  BY DEF Shapes
<1>2. work'[t] = [d EXCEPT ![file] = value]
  BY <1>1 DEF Put
<1>3. work' = [work EXCEPT ![t] = work'[t]]
  BY <1>2 DEF Put
<1>4. DOMAIN d = {"elf", "dram", "iss", "rtl"}
  BY <1>1 DEF Directory
<1> HIDE DEF d
<1>5. /\ work'[t][file] = value
      /\ \A f \in {"elf", "dram", "iss", "rtl"} \ {file} : work'[t][f] = d[f]
  BY <1>2, <1>4
<1>6. Directory(work'[t])
  BY <1>1, <1>2, <1>4, <1>5 DEF Directory
<1> QED BY <1>3, <1>5, <1>6 DEF d
-----------------------------------------------------------------------------
(* The steps of a thread.                                                  *)

\* The files that are written.
LEMMA FileShapes ==
  /\ File(NoFile)
  /\ \A l, r : File([by |-> run, log |-> l, raw |-> r])
  /\ \A f : File(Emptied(f)) /\ Emptied(f).by = f.by
BY DEF File, NoFile, Emptied

\* A thread that goes on to a step, or fails.
LEMMA GotoShape ==
  ASSUME Shapes, NEW t \in Tests, NEW step, Goto(t, step)
  PROVE  at'[t] = step /\ at' = [at EXCEPT ![t] = at'[t]]
BY DEF Shapes, Goto

\* A thread that prints nothing, or touches no file.
LEMMA Untouched ==
  ASSUME Shapes, NEW t \in Tests
  PROVE  /\ work = [work EXCEPT ![t] = work[t]] /\ Directory(work[t])
         /\ said = [said EXCEPT ![t] = said[t]]
         /\ said[t] \in {"nothing", "PASSED", "FAILED"}
         /\ at[t] \in Steps
<1>1. DOMAIN work = Tests /\ DOMAIN said = Tests
  BY DEF Shapes
<1> QED BY <1>1 DEF Shapes

\* run_gen of C and PyVedas tests: what goes on is built from this checkout.
LEMMA LinkShape ==
  ASSUME Shapes, NEW t \in Tests, NEW dram, Link(t, dram)
  PROVE  /\ work' = [work EXCEPT ![t] = work'[t]] /\ Directory(work'[t])
         /\ work'[t].dram = dram
         /\ work'[t].iss = work[t].iss /\ work'[t].rtl = work[t].rtl
         /\ at' = [at EXCEPT ![t] = at'[t]]
         /\ \/ at'[t] = "iss" /\ work'[t].elf = tree.ver
            \/ at'[t] = "failed" /\ work'[t].elf \in {tree.ver, work[t].elf}
<1> DEFINE d == work[t]
           e == IF Builds(t) THEN tree.ver ELSE d.elf
<1>1. Directory(d) /\ DOMAIN work = Tests
  BY DEF Shapes
<1>2. work'[t] = [d EXCEPT !.elf = e, !.dram = dram]
  BY <1>1 DEF Link
<1>3. work' = [work EXCEPT ![t] = work'[t]]
  BY <1>2 DEF Link
<1>4. (Goto(t, "iss") /\ Builds(t)) \/ Fail(t)
  BY DEF Link
<1>5. /\ at' = [at EXCEPT ![t] = at'[t]]
      /\ (at'[t] = "iss" /\ Builds(t)) \/ at'[t] = "failed"
  BY <1>4, GotoShape DEF Fail
<1>6. DOMAIN d = {"elf", "dram", "iss", "rtl"}
  BY <1>1 DEF Directory
<1> HIDE DEF d
<1>7. /\ work'[t].dram = dram /\ work'[t].iss = d.iss /\ work'[t].rtl = d.rtl
      /\ work'[t].elf = e
  BY <1>2, <1>6
<1>8. Directory(work'[t])
  BY <1>1, <1>2, <1>7 DEF Directory
<1> QED BY <1>3, <1>5, <1>7, <1>8 DEF d

\* Every action of a thread is such a step, and keeps what is known of its test.
LEMMA ThreadMoves ==
  ASSUME Shapes, NEW t \in Tests, Thread(t), Done(t), Told(t),
         Typed(t), tree.ver \in Versions, run \in Nat
  PROVE  ThreadStep(t) /\ Done(t)' /\ Told(t)' /\ Typed(t)'
<1> USE DEF Steps, Built0
<1>0. /\ work = [work EXCEPT ![t] = work[t]] /\ Directory(work[t])
      /\ said = [said EXCEPT ![t] = said[t]]
      /\ said[t] \in {"nothing", "PASSED", "FAILED"}
  BY Untouched
<1>1. CASE Begin(t)
  <2>1. /\ at[t] = "queued" /\ Goto(t, "gen")
        /\ UNCHANGED <<tree, work, asked, said, main, seen, sim, run>>
    BY <1>1 DEF Begin
  <2> QED BY <1>0, <2>1, GotoShape DEF ThreadStep, Done, Told, Typed
<1>2. CASE GenC(t)
  <2>1. /\ at[t] = "gen" /\ Link(t, work[t].dram) /\ Kind(t) = "c"
        /\ UNCHANGED <<tree, asked, said, main, seen, sim, run>>
    BY <1>2 DEF GenC
  <2> QED BY <1>0, <2>1, LinkShape DEF ThreadStep, Done, Told, Typed, Built
<1>3. CASE GenPyVedas(t)
  <2> DEFINE dram == IF tree.ver \in Dram THEN tree.ver ELSE work[t].dram
  <2>1. /\ at[t] = "gen" /\ (Link(t, dram) \/ (Fail(t) /\ UNCHANGED work))
        /\ UNCHANGED <<tree, asked, said, main, seen, sim, run>>
    BY <1>3, Zenon DEF GenPyVedas
  <2>2. CASE Link(t, dram)
    <3>1. /\ work' = [work EXCEPT ![t] = work'[t]] /\ Directory(work'[t])
          /\ work'[t].dram = dram
          /\ at' = [at EXCEPT ![t] = at'[t]]
          /\ \/ at'[t] = "iss" /\ work'[t].elf = tree.ver
             \/ at'[t] = "failed" /\ work'[t].elf \in {tree.ver, work[t].elf}
          /\ work'[t].iss = work[t].iss /\ work'[t].rtl = work[t].rtl
      BY <2>2, LinkShape
    <3> QED BY <1>0, <2>1, <3>1 DEF ThreadStep, Done, Told, Typed, Built
  <2>3. CASE Fail(t) /\ UNCHANGED work
    BY <1>0, <2>1, <2>3, GotoShape DEF Fail, ThreadStep, Done, Told, Typed
  <2> QED BY <2>1, <2>2, <2>3
<1>4. CASE GenAsm(t)
  <2>1. PICK elf \in Versions \cup {0} :
          Put(t, "elf", elf) /\ (Fail(t) \/ (Goto(t, "iss") /\ elf # 0))
    BY <1>4 DEF GenAsm, Typed
  <2>2. /\ at[t] = "gen" /\ Kind(t) \in {"asm", "elf"}
        /\ UNCHANGED <<tree, asked, said, main, seen, sim, run>>
    BY <1>4 DEF GenAsm
  <2>3. /\ work' = [work EXCEPT ![t] = work'[t]] /\ Directory(work'[t])
        /\ work'[t].elf = elf /\ work'[t].dram = work[t].dram
        /\ work'[t].iss = work[t].iss /\ work'[t].rtl = work[t].rtl
    BY <2>1, PutShape
  <2> QED BY <1>0, <2>1, <2>2, <2>3, GotoShape DEF Fail, ThreadStep, Done, Told, Typed, Built
<1>5. CASE RunIss(t)
  <2>1. PICK log : /\ Put(t, "iss", [by |-> run, log |-> log, raw |-> <<>>])
                   /\ (Goto(t, "imem") \/ Fail(t))
    BY <1>5 DEF RunIss
  <2>2. at[t] = "iss" /\ UNCHANGED <<tree, asked, said, main, seen, sim, run>>
    BY <1>5 DEF RunIss
  <2>3. /\ work' = [work EXCEPT ![t] = work'[t]] /\ Directory(work'[t])
        /\ work'[t].iss = [by |-> run, log |-> log, raw |-> <<>>]
        /\ work'[t].elf = work[t].elf /\ work'[t].dram = work[t].dram
        /\ work'[t].rtl = work[t].rtl
    BY <2>1, FileShapes, PutShape
  <2>4. work'[t].iss.by = run
    BY <2>3
  <2> QED BY <1>0, <2>1, <2>2, <2>3, <2>4, GotoShape
          DEF Fail, ThreadStep, Done, Told, Typed, Built
<1>6. CASE PrepareImem(t)
  <2>1. /\ at[t] = "imem" /\ (Goto(t, "sim") \/ Goto(t, "failed"))
        /\ UNCHANGED <<tree, work, asked, said, main, seen, sim, run>>
    BY <1>6 DEF PrepareImem
  <2> QED BY <1>0, <2>1, GotoShape DEF ThreadStep, Done, Told, Typed, Built
<1>7. CASE StartSim(t)
  <2>1. /\ at[t] = "sim" /\ (Goto(t, "running") \/ Goto(t, "hung"))
        /\ Put(t, "rtl", NoFile)
        /\ UNCHANGED <<tree, asked, said, main, seen, sim, run>>
    BY <1>7 DEF StartSim, Unlink
  <2>2. /\ work' = [work EXCEPT ![t] = work'[t]] /\ Directory(work'[t])
        /\ work'[t].rtl = NoFile /\ work'[t].iss = work[t].iss
        /\ work'[t].elf = work[t].elf /\ work'[t].dram = work[t].dram
    BY <2>1, FileShapes, PutShape
  <2>3. work'[t].rtl.by = 0
    BY <2>2 DEF NoFile
  <2> QED BY <1>0, <2>1, <2>2, <2>3, GotoShape DEF ThreadStep, Done, Told, Typed, Built
<1>8. CASE EndSim(t)
  <2>1. at[t] = "running" /\ UNCHANGED <<tree, asked, said, main, seen, sim, run>>
    BY <1>8 DEF EndSim
  <2>2. CASE \E log : /\ Put(t, "rtl", [by |-> run, log |-> log, raw |-> log])
                      /\ Goto(t, "process")
    <3>1. PICK log : /\ Put(t, "rtl", [by |-> run, log |-> log, raw |-> log])
                     /\ Goto(t, "process")
      BY <2>2
    <3>2. /\ work' = [work EXCEPT ![t] = work'[t]] /\ Directory(work'[t])
          /\ work'[t].rtl = [by |-> run, log |-> log, raw |-> log]
          /\ work'[t].iss = work[t].iss
          /\ work'[t].elf = work[t].elf /\ work'[t].dram = work[t].dram
      BY <3>1, FileShapes, PutShape
    <3>3. work'[t].rtl.by = run
      BY <3>2
    <3> QED BY <1>0, <2>1, <3>1, <3>2, <3>3, GotoShape
            DEF ThreadStep, Done, Told, Typed, Built
  <2>3. CASE (Goto(t, "process") \/ Fail(t)) /\ UNCHANGED work
    BY <1>0, <2>1, <2>3, GotoShape DEF Fail, ThreadStep, Done, Told, Typed, Built
  <2> QED BY <1>8, <2>2, <2>3 DEF EndSim
<1>9. CASE Timeout(t)
  <2>1. /\ at[t] = "hung" /\ Goto(t, "failed")
        /\ UNCHANGED <<tree, work, asked, said, main, seen, sim, run>>
    BY <1>9 DEF Timeout, Fail
  <2> QED BY <1>0, <2>1, GotoShape DEF ThreadStep, Done, Told, Typed, Built
<1>10. CASE ProcessLog(t)
  <2>1. at[t] = "process" /\ UNCHANGED <<tree, asked, said, main, seen, sim, run>>
    BY <1>10 DEF ProcessLog
  <2>2. CASE work[t].rtl.by = 0
    <3>1. Goto(t, "failed") /\ UNCHANGED work
      BY <1>10, <2>2 DEF ProcessLog, Fail
    <3> QED BY <1>0, <2>1, <3>1, GotoShape DEF ThreadStep, Done, Told, Typed, Built
  <2>3. CASE work[t].rtl.by # 0
    <3> DEFINE d == work[t]
               log == Processed(d.rtl.log)
    <3>1. work' = [work EXCEPT ![t].rtl.log = log] /\ Goto(t, "compare")
      BY <1>10, <2>3 DEF ProcessLog
    <3>2. DOMAIN work = Tests /\ Directory(d)
      BY <1>0 DEF Shapes
    <3> HIDE DEF log
    <3>3. work'[t] = [d EXCEPT !.rtl = [d.rtl EXCEPT !.log = log]]
      BY <3>1, <3>2
    <3>4. work' = [work EXCEPT ![t] = work'[t]]
      BY <3>1, <3>3
    <3>5. DOMAIN d = {"elf", "dram", "iss", "rtl"} /\ DOMAIN d.rtl = {"by", "log", "raw"}
      BY <3>2 DEF Directory, File
    <3> HIDE DEF d
    <3>6. /\ work'[t].elf = d.elf /\ work'[t].dram = d.dram
          /\ work'[t].iss = d.iss /\ work'[t].rtl = [d.rtl EXCEPT !.log = log]
      BY <3>3, <3>5
    <3>7. work'[t].rtl.by = d.rtl.by /\ File(work'[t].rtl)
      BY <3>2, <3>5, <3>6 DEF Directory, File
    <3>8. Directory(work'[t])
      BY <3>2, <3>3, <3>5, <3>6, <3>7 DEF Directory
    <3> USE DEF d
    <3> QED BY <1>0, <2>1, <2>3, <3>1, <3>4, <3>6, <3>7, <3>8, GotoShape
            DEF ThreadStep, Done, Told, Typed, Built
  <2> QED BY <2>2, <2>3
<1>11. CASE Compare(t)
  <2>1. /\ at[t] = "compare" /\ Goto(t, "stats")
        /\ UNCHANGED <<tree, work, asked, main, seen, sim, run>>
    BY <1>11 DEF Compare
  <2>2. \E v \in {"PASSED", "FAILED"} : said' = [said EXCEPT ![t] = v]
    BY <1>11 DEF Compare
  <2>3. said' = [said EXCEPT ![t] = said'[t]] /\ said'[t] \in {"PASSED", "FAILED"}
    BY <2>2 DEF Shapes
  <2> QED BY <1>0, <2>1, <2>3, GotoShape DEF ThreadStep, Done, Told, Typed, Built
<1>12. CASE Stats(t)
  <2> DEFINE d == work[t]
             i == Emptied(d.iss)
             r == Emptied(d.rtl)
  <2>1. /\ at[t] = "stats" /\ (Goto(t, "done") \/ Goto(t, "failed"))
        /\ UNCHANGED <<tree, asked, said, main, seen, sim, run>>
    BY <1>12 DEF Stats, Fail
  <2>2. work' = [work EXCEPT ![t].rtl = r, ![t].iss = i]
    BY <1>12 DEF Stats
  <2>3. File(i) /\ File(r) /\ i.by = d.iss.by /\ r.by = d.rtl.by
    BY FileShapes
  <2>4. DOMAIN work = Tests /\ Directory(d)
    BY <1>0 DEF Shapes
  <2> HIDE DEF i, r
  <2>5. work'[t] = [d EXCEPT !.rtl = r, !.iss = i]
    BY <2>2, <2>4
  <2>6. work' = [work EXCEPT ![t] = work'[t]]
    BY <2>2, <2>5
  <2>7. DOMAIN d = {"elf", "dram", "iss", "rtl"}
    BY <2>4 DEF Directory
  <2> HIDE DEF d
  <2>8. /\ work'[t].elf = d.elf /\ work'[t].dram = d.dram
        /\ work'[t].iss = i /\ work'[t].rtl = r
    BY <2>5, <2>7
  <2>9. Directory(work'[t])
    BY <2>3, <2>5, <2>7, <2>8 DEF Directory
  <2> USE DEF d
  <2> QED BY <1>0, <2>1, <2>3, <2>6, <2>8, <2>9, GotoShape
          DEF ThreadStep, Done, Told, Typed, Built
<1> QED
  BY <1>1, <1>2, <1>3, <1>4, <1>5, <1>6, <1>7, <1>8, <1>9, <1>10, <1>11, <1>12
  DEF Thread
-----------------------------------------------------------------------------
(* The main thread.  While it waits, every future it has collected is of a *)
(* test that is done; an invocation begins with a clean slate.             *)

MainInv ==
  /\ main = "waiting" => \A t \in seen : at[t] = "done"
  /\ seen \subseteq Tests
  /\ \A t \in Tests : at[t] # "out" => t \in Named(asked)

\* The rest of the types.  Every test has one: what no invocation asks for
\* keeps the files it had.
Types ==
  /\ tree \in Trees /\ \A t \in Tests : Typed(t)
  /\ main \in {"idle", "waiting", "leaving", "exit0", "exit1"}
  /\ asked = <<>> \/ \E l \in Lists : asked = Read(l)
  /\ seen \subseteq Named(asked) /\ sim \in Simulators /\ run \in 0..MaxRuns

SuiteInv ==
  /\ Shapes /\ MainInv /\ Types /\ ExitHonest
  /\ Running => \A t \in Tests : Done(t) /\ Told(t)

\* Whatever a thread does, it does it to its own test.
LEMMA ThreadKeeps ==
  ASSUME Shapes, NEW t \in Tests, ThreadStep(t)
  PROVE  /\ Shapes'
         /\ \A u \in Tests \ {t} : /\ at'[u] = at[u] /\ said'[u] = said[u]
                                   /\ work'[u] = work[u]
<1>1. \A u \in Tests \ {t} : /\ at'[u] = at[u] /\ said'[u] = said[u]
                             /\ work'[u] = work[u]
  BY DEF Shapes, ThreadStep
<1>2. at' \in [Tests -> Steps] /\ said' \in [Tests -> {"nothing", "PASSED", "FAILED"}]
  BY DEF Shapes, ThreadStep
<1>3. work' = [u \in Tests |-> work'[u]]
  BY DEF Shapes, ThreadStep
<1>4. \A u \in Tests : Directory(work'[u])
  BY <1>1 DEF Shapes, ThreadStep
<1> QED BY <1>1, <1>2, <1>3, <1>4 DEF Shapes, ThreadStep

\* A thread is under way only while the main thread waits for it.
LEMMA ThreadStepKeepsInv ==
  ASSUME SuiteInv, NEW t \in Tests, Thread(t), Running
  PROVE  SuiteInv'
<1>0. tree.ver \in Versions /\ run \in Nat /\ Typed(t)
  BY SuiteAssumption DEF SuiteInv, Types, Trees
<1>1. ThreadStep(t) /\ Done(t)' /\ Told(t)' /\ Typed(t)'
  BY <1>0, ThreadMoves DEF SuiteInv
<1>2. /\ Shapes'
      /\ \A u \in Tests \ {t} : /\ at'[u] = at[u] /\ said'[u] = said[u]
                               /\ work'[u] = work[u]
  BY <1>1, ThreadKeeps DEF SuiteInv
<1>3. Running' /\ main' = main /\ seen' = seen
  BY <1>1 DEF ThreadStep, Running
<1>4. \A u \in Tests : Done(u)' /\ Told(u)'
  <2> TAKE u \in Tests
  <2>1. CASE u = t
    BY <1>1, <2>1
  <2>2. CASE u # t
    BY <1>1, <1>2, <2>2 DEF SuiteInv, ThreadStep, Done, Told, Built
  <2> QED BY <2>1, <2>2
<1>5. MainInv'
  <2>1. asked' = asked /\ t \notin {u \in Tests : at[u] \in {"done", "out"}}
    BY <1>1 DEF ThreadStep
  <2>2. ASSUME main = "waiting", NEW u \in seen PROVE at'[u] = "done"
    <3>1. at[u] = "done" /\ u # t
      BY <2>1, <2>2 DEF SuiteInv, MainInv
    <3>2. u \in Tests
      BY <2>2 DEF SuiteInv, MainInv
    <3> QED BY <1>2, <3>1, <3>2
  <2>3. ASSUME NEW u \in Tests, at'[u] # "out" PROVE u \in Named(asked)
    BY <1>2, <2>1, <2>3 DEF SuiteInv, MainInv
  <2>4. Named(asked)' = Named(asked)
    BY <2>1 DEF Named
  <2>5. seen' \subseteq Tests
    BY <1>3 DEF SuiteInv, MainInv
  <2> QED BY <1>3, <2>2, <2>3, <2>4, <2>5 DEF MainInv
<1>6. ExitHonest'
  BY <1>3 DEF ExitHonest, AllRun, ZeroMeansJudged, Running
<1>7. Types'
  <2>1. /\ tree' = tree /\ asked' = asked /\ seen' = seen /\ main' = main
        /\ sim' = sim /\ run' = run
    BY <1>1 DEF ThreadStep
  <2>2. \A u \in Tests : Typed(u)'
    BY <1>1, <1>2, <2>1 DEF SuiteInv, Types, Typed
  <2> QED BY <2>1, <2>2 DEF SuiteInv, Types, Trees, Named
<1> QED BY <1>2, <1>3, <1>4, <1>5, <1>6, <1>7 DEF SuiteInv

\* The same files, steps and verdicts, and the same checkout.
LEMMA FilesStay ==
  ASSUME UNCHANGED <<tree, work, at, said, run>>
  PROVE  \A t \in Tests : (Done(t) <=> Done(t)') /\ (Told(t) <=> Told(t)')
BY DEF Done, Told, Built

\* The main thread collects, finishes or leaves.
LEMMA MainKeepsInv ==
  ASSUME SuiteInv, Main
  PROVE  SuiteInv'
<1>1. Shapes' /\ UNCHANGED <<tree, work, asked, at, said, sim, run>>
  BY DEF Main, Finish, Leave, Collect, SuiteInv, Shapes
<1>2. main \in {"waiting", "leaving"}
  BY DEF Main, Finish, Leave, Collect
<1>3. Running' => \A t \in Tests : Done(t)' /\ Told(t)'
  BY <1>1, <1>2, FilesStay DEF SuiteInv, Running
<1>7. Types'
  <2>1. \A t \in Tests : Typed(t)'
    BY <1>1 DEF SuiteInv, Types, Typed
  <2>2. seen' \subseteq Named(asked) /\ main' \in {"waiting", "leaving", "exit0", "exit1"}
    BY <1>2 DEF SuiteInv, Types, MainInv, Main, Finish, Leave, Collect, Ended
  <2> QED BY <1>1, <2>1, <2>2 DEF SuiteInv, Types, Trees, Named
<1>4. CASE Finish
  <2>1. main = "waiting" /\ seen = Named(asked) /\ main' = "exit0" /\ seen' = seen
    BY <1>4 DEF Finish
  <2>2. \A t \in Named(asked) : at[t] = "done"
    BY <2>1 DEF SuiteInv, MainInv
  <2>3. \A t \in Named(asked) : said[t] # "nothing"
    BY <1>2, <2>2 DEF SuiteInv, Told, Running, Shapes
  <2>4. ExitHonest' /\ MainInv'
    BY <1>1, <2>1, <2>2, <2>3
    DEF ExitHonest, AllRun, ZeroMeansJudged, Ended, Running, SuiteInv, MainInv
  <2> QED BY <1>1, <1>3, <1>7, <2>4 DEF SuiteInv
<1>5. CASE Leave
  <2>1. main' = "exit1" /\ seen' = seen /\ \A t \in Named(asked) : Ended(t)
    BY <1>5 DEF Leave
  <2>2. ExitHonest' /\ MainInv'
    BY <1>1, <2>1
    DEF ExitHonest, AllRun, ZeroMeansJudged, Ended, Running, SuiteInv, MainInv
  <2> QED BY <1>1, <1>3, <1>7, <2>2 DEF SuiteInv
<1>6. ASSUME NEW t \in Tests, Collect(t) PROVE SuiteInv'
  <2>1. /\ main = "waiting" /\ Ended(t) /\ seen' = seen \cup {t}
        /\ main' = IF at[t] = "failed" THEN "leaving" ELSE main
    BY <1>6 DEF Collect
  <2>2. MainInv'
    BY <1>1, <2>1 DEF SuiteInv, MainInv, Ended
  <2>3. ExitHonest'
    BY <2>1 DEF ExitHonest, AllRun, ZeroMeansJudged, Running
  <2> QED BY <1>1, <1>3, <1>7, <2>2, <2>3 DEF SuiteInv
<1> QED BY <1>4, <1>5, <1>6 DEF Main

\* The developer edits the tests, or invokes the manager.
LEMMA UserKeepsInv ==
  ASSUME SuiteInv, User
  PROVE  SuiteInv'
<1>1. ASSUME NEW s \in Trees, Edit(s) PROVE SuiteInv'
  <2>1. ~Running /\ UNCHANGED <<work, asked, at, said, main, seen, sim, run>> /\ tree' \in Trees
    BY <1>1 DEF Edit
  <2>2. ~Running' /\ Shapes' /\ MainInv'
    BY <2>1 DEF Running, SuiteInv, Shapes, MainInv
  <2>3. ExitHonest'
    BY <2>1 DEF SuiteInv, ExitHonest, AllRun, ZeroMeansJudged, Ended, Running
  <2>4. Types'
    BY <2>1 DEF SuiteInv, Types, Typed, Named
  <2> QED BY <2>2, <2>3, <2>4 DEF SuiteInv
<1>2. ASSUME NEW l \in Lists, NEW s \in Simulators, Invoke(l, s) PROVE SuiteInv'
  <2>1. Named(asked') \subseteq Tests
    BY <1>2 DEF Invoke, Tests
  <2>2. /\ at' = [t \in Tests |-> IF t \in Named(asked') THEN "queued" ELSE "out"]
        /\ said' = [t \in Tests |-> "nothing"] /\ seen' = {} /\ work' = work
        /\ main' = IF asked' = <<>> THEN "exit1" ELSE "waiting"
    BY <1>2 DEF Invoke
  <2>3. Shapes'
    BY <2>1, <2>2 DEF SuiteInv, Shapes, Steps
  <2>4. MainInv'
    BY <2>2 DEF MainInv
  <2>5. \A t \in Tests : Done(t)' /\ Told(t)'
    BY <2>2 DEF Done, Told
  <2>6. ExitHonest'
    <3>1. asked' = <<>> => Named(asked') = {}
      BY DEF Named
    <3> QED BY <2>2, <3>1 DEF ExitHonest, AllRun, ZeroMeansJudged, Running
  <2>7. Types'
    <3>1. run' = run + 1 /\ run < MaxRuns /\ tree' = tree /\ sim' = s /\ asked' = Read(l)
      BY <1>2 DEF Invoke
    <3>2. run \in Nat /\ MaxRuns \in Nat /\ run' \in 0..MaxRuns
      BY <3>1, SuiteAssumption DEF SuiteInv, Types
    <3>3. \A t \in Tests : Typed(t)'
      BY <2>2, <3>1, <3>2 DEF SuiteInv, Types, Typed
    <3> QED BY <2>2, <3>1, <3>2, <3>3 DEF SuiteInv, Types, Trees
  <2> QED BY <2>3, <2>4, <2>5, <2>6, <2>7 DEF SuiteInv
<1> QED BY <1>1, <1>2 DEF User

\* Nothing was asked for yet.
LEMMA SuiteInit == Init => SuiteInv
<1> SUFFICES ASSUME Init PROVE SuiteInv
  OBVIOUS
<1>1. Named(asked) = {}
  BY DEF Init, Named
<1>2. Shapes
  BY <1>1, FileShapes DEF Init, Shapes, Steps, Directory
<1>3. MainInv /\ ~Running /\ ExitHonest
  BY <1>1 DEF Init, MainInv, Running, ExitHonest, AllRun, ZeroMeansJudged
<1>4. Types
  <2>1. \A t \in Tests : Typed(t)
    BY DEF Init, Typed, Built0, NoFile
  <2> QED BY <2>1, SuiteAssumption DEF Init, Types
<1> QED BY <1>2, <1>3, <1>4 DEF SuiteInv

\* Where nothing runs, a thread has nothing to do: its test is out or ended.
LEMMA SuiteStep == SuiteInv /\ [Next]_vars => SuiteInv'
<1> SUFFICES ASSUME SuiteInv, [Next]_vars PROVE SuiteInv'
  OBVIOUS
<1>1. CASE UNCHANGED vars
  <2>1. Shapes' /\ MainInv' /\ ExitHonest' /\ (Running' <=> Running)
    BY <1>1 DEF vars, SuiteInv, Shapes, MainInv, ExitHonest, AllRun, ZeroMeansJudged,
                Ended, Running
  <2>2. Types'
    BY <1>1 DEF vars, SuiteInv, Types, Typed, Trees, Named
  <2> QED BY <1>1, <2>1, <2>2, FilesStay DEF SuiteInv, vars
<1>2. CASE Main
  BY <1>2, MainKeepsInv
<1>3. CASE User
  BY <1>3, UserKeepsInv
<1>4. ASSUME NEW t \in Tests, Thread(t) PROVE SuiteInv'
  <2>1. at[t] \notin {"out", "done", "failed"}
    BY <1>4
    DEF Thread, Begin, GenC, GenPyVedas, GenAsm, RunIss, PrepareImem, StartSim,
        EndSim, Timeout, ProcessLog, Compare, Stats
  <2>2. Running
    BY <2>1 DEF SuiteInv, MainInv, ExitHonest, AllRun, Ended
  <2> QED BY <1>4, <2>2, ThreadStepKeepsInv
<1> QED BY <1>1, <1>2, <1>3, <1>4 DEF Next

\* The invariant of the manager.
LEMMA SuiteInvariant == Spec => []SuiteInv
BY SuiteInit, SuiteStep, PTL DEF Spec

\* What runs always has an ELF of some checkout, the tests asked for are those
\* of a list that this configuration can run, and the collected futures are
\* among them.
THEOREM SuiteTypes == Spec => []TypeOK
<1>1. SuiteInv => TypeOK
  BY DEF SuiteInv, Types, Typed, Built0, Shapes, Steps, TypeOK
<1> QED BY <1>1, SuiteInvariant, PTL

\* The manager never exits with a test queued or running, and never with 0
\* unless every test has its verdict and its statistics.
THEOREM ExitsHonestly == Spec => []ExitHonest
<1>1. SuiteInv => ExitHonest
  BY DEF SuiteInv
<1> QED BY <1>1, SuiteInvariant, PTL

\* No verdict rests on a file of an earlier invocation or checkout, whatever
\* the compilers and simulators leave undone (assembly tests' ELFs apart).
THEOREM VerdictsAreFresh == Spec => []FreshVerdict
<1>1. SuiteInv => FreshVerdict
  BY DEF SuiteInv, FreshVerdict, Told, Built
<1> QED BY <1>1, SuiteInvariant, PTL

-----------------------------------------------------------------------------
(* The recursive functions satisfy their equations.                        *)

LogEqs(events, d, f) ==
  f = [i \in 0..Len(events) |->
         IF i = 0 THEN <<>> ELSE f[i - 1] \o Logged(d * i, events[i])]

TakesEqs(lines, f) ==
  f = [i \in 0..Len(lines) |->
         IF i = 0 THEN FALSE
         ELSE i < Len(lines) /\ ~ f[i - 1] /\ SameStore(lines[i], lines[i + 1])]

JoinedEqs(lines, f) ==
  f = [i \in 0..Len(lines) |->
         IF i = 0 THEN <<>>
         ELSE IF Joining(lines)[i - 1] THEN f[i - 1]
         ELSE Append(f[i - 1],
                     IF Joining(lines)[i] THEN Merged(lines[i], lines[i + 1])
                     ELSE lines[i])]

RowsEqs(lines, f) ==
  f = [i \in 0..Len(lines) |->
         IF i = 0 THEN <<>>
         ELSE IF lines[i].touch = <<>> THEN f[i - 1] ELSE Append(f[i - 1], lines[i])]

\* Induction over the numbers, with a set for the property.
LEMMA NatSetInduction ==
  ASSUME NEW S, 0 \in S, \A n \in Nat : n \in S => n + 1 \in S
  PROVE  Nat \subseteq S
<1> DEFINE T == Nat \ S
           R == OpToRel(<, Nat)
<1> SUFFICES ASSUME T # {} PROVE FALSE
  OBVIOUS
<1>1. IsWellFoundedOn(R, Nat)
  BY NatLessThanWellFounded
<1>2. T \subseteq Nat
  OBVIOUS
<1> HIDE DEF T, R
<1>3. PICK x \in T : \A y \in T : ~(<<y, x>> \in R)
  BY <1>1, <1>2, WFMin
<1> USE DEF T
<1>4. x \in Nat /\ x # 0
  BY <1>3
<1>5. x - 1 \in T
  BY <1>4
<1>6. <<x - 1, x>> \in R
  BY <1>4 DEF R, OpToRel
<1> QED BY <1>3, <1>5, <1>6

\* LogsOf is what its definition says, and so are Joining, Joined and Rows.
LEMMA LogExists ==
  ASSUME NEW events, NEW d, Len(events) \in Nat
  PROVE  LogEqs(events, d, LogsOf(events, d))
<1> DEFINE Step(x, i) == x \o Logged(d * i, events[i])
           Body(f, i) == IF i = 0 THEN <<>> ELSE Step(f[i - 1], i)
           Upto(n, f) == f = [i \in 0..n |-> Body(f, i)]
           Good == {n \in Nat : \E f : Upto(n, f)}
<1> HIDE DEF Step
<1>1. 0 \in Good
  <2>1. Upto(0, [i \in 0..0 |-> <<>>])
    OBVIOUS
  <2> QED BY <2>1
<1>2. ASSUME NEW n \in Nat, n \in Good PROVE n + 1 \in Good
  <2>1. PICK f : Upto(n, f)
    BY <1>2
  <2> DEFINE g == [i \in 0..(n + 1) |-> IF i = n + 1 THEN Step(f[n], n + 1) ELSE f[i]]
  <2>2. DOMAIN f = 0..n
    BY <2>1
  <2>3. \A i \in 0..n : g[i] = f[i] /\ f[i] = Body(f, i)
    BY <2>1, <2>2
  <2>4. ASSUME NEW i \in 0..(n + 1) PROVE g[i] = Body(g, i)
    <3>1. CASE i = 0
      <4>1. i \in 0..n
        BY <3>1
      <4>2. g[i] = f[i] /\ f[i] = <<>>
        BY <2>3, <3>1, <4>1
      <4> QED BY <3>1, <4>2
    <3>2. CASE i \in 1..n
      <4>1. i - 1 \in 0..n /\ i \in 0..n /\ i # 0
        BY <3>2
      <4>2. g[i] = f[i] /\ g[i - 1] = f[i - 1] /\ f[i] = Body(f, i)
        BY <2>3, <4>1
      <4> HIDE DEF g
      <4> QED BY <4>1, <4>2
    <3>3. CASE i = n + 1
      <4>1. i - 1 = n /\ n \in 0..n /\ i # 0
        BY <3>3
      <4>2. g[i - 1] = f[n] /\ g[i] = Step(f[n], i)
        BY <2>3, <3>3, <4>1
      <4> HIDE DEF g
      <4> QED BY <4>1, <4>2
    <3> QED BY <3>1, <3>2, <3>3
  <2>5. g = [i \in 0..(n + 1) |-> g[i]]
    OBVIOUS
  <2> HIDE DEF g, Body
  <2>6. Upto(n + 1, g)
    BY <2>4, <2>5
  <2> HIDE DEF Upto
  <2> QED BY <2>6
<1>3. Nat \subseteq Good
  <2> HIDE DEF Good
  <2> QED BY <1>1, <1>2, NatSetInduction
<1>4. \E f : Upto(Len(events), f)
  BY <1>3
<1>5. LogsOf(events, d) = CHOOSE f : Upto(Len(events), f)
  BY DEF LogsOf, Step
<1> HIDE DEF Body
<1>6. Upto(Len(events), LogsOf(events, d))
  BY <1>4, <1>5
<1> QED BY <1>6 DEF LogEqs, Step, Body

\* Joining.
LEMMA TakesExists ==
  ASSUME NEW lines, Len(lines) \in Nat
  PROVE  TakesEqs(lines, Joining(lines))
<1> DEFINE Step(x, i) == /\ i < Len(lines) /\ ~ x
                          /\ SameStore(lines[i], lines[i + 1])
           Body(f, i) == IF i = 0 THEN FALSE ELSE Step(f[i - 1], i)
           Upto(n, f) == f = [i \in 0..n |-> Body(f, i)]
           Good == {n \in Nat : \E f : Upto(n, f)}
<1> HIDE DEF Step
<1>1. 0 \in Good
  <2>1. Upto(0, [i \in 0..0 |-> FALSE])
    OBVIOUS
  <2> QED BY <2>1
<1>2. ASSUME NEW n \in Nat, n \in Good PROVE n + 1 \in Good
  <2>1. PICK f : Upto(n, f)
    BY <1>2
  <2> DEFINE g == [i \in 0..(n + 1) |-> IF i = n + 1 THEN Step(f[n], n + 1) ELSE f[i]]
  <2>2. DOMAIN f = 0..n
    BY <2>1
  <2>3. \A i \in 0..n : g[i] = f[i] /\ f[i] = Body(f, i)
    BY <2>1, <2>2
  <2>4. ASSUME NEW i \in 0..(n + 1) PROVE g[i] = Body(g, i)
    <3>1. CASE i = 0
      <4>1. i \in 0..n
        BY <3>1
      <4>2. g[i] = f[i] /\ f[i] = FALSE
        BY <2>3, <3>1, <4>1
      <4> QED BY <3>1, <4>2
    <3>2. CASE i \in 1..n
      <4>1. i - 1 \in 0..n /\ i \in 0..n /\ i # 0
        BY <3>2
      <4>2. g[i] = f[i] /\ g[i - 1] = f[i - 1] /\ f[i] = Body(f, i)
        BY <2>3, <4>1
      <4> HIDE DEF g
      <4> QED BY <4>1, <4>2
    <3>3. CASE i = n + 1
      <4>1. i - 1 = n /\ n \in 0..n /\ i # 0
        BY <3>3
      <4>2. g[i - 1] = f[n] /\ g[i] = Step(f[n], i)
        BY <2>3, <3>3, <4>1
      <4> HIDE DEF g
      <4>3. g[i - 1] = f[n]
        BY <4>2, Zenon
      <4>4. Body(g, i) = Step(f[n], i)
        BY <4>1, <4>3
      <4> HIDE DEF Body
      <4> QED BY <4>2, <4>4
    <3>4. i = 0 \/ i \in 1..n \/ i = n + 1
      OBVIOUS
    <3> HIDE DEF g, Body
    <3> QED BY <3>1, <3>2, <3>3, <3>4
  <2>5. g = [i \in 0..(n + 1) |-> g[i]]
    OBVIOUS
  <2> HIDE DEF g, Body
  <2>6. Upto(n + 1, g)
    BY <2>4, <2>5
  <2> HIDE DEF Upto
  <2> QED BY <2>6
<1>3. Nat \subseteq Good
  <2> HIDE DEF Good
  <2> QED BY <1>1, <1>2, NatSetInduction
<1>4. \E f : Upto(Len(lines), f)
  BY <1>3
<1>5. Joining(lines) = CHOOSE f : Upto(Len(lines), f)
  BY DEF Joining, Step
<1> HIDE DEF Body
<1>6. Upto(Len(lines), Joining(lines))
  BY <1>4, <1>5
<1> QED BY <1>6 DEF TakesEqs, Step, Body

\* Joined.
LEMMA JoinedExists ==
  ASSUME NEW lines, Len(lines) \in Nat
  PROVE  JoinedEqs(lines, Joined(lines))
<1> DEFINE Step(x, i) ==
             IF Joining(lines)[i - 1] THEN x
             ELSE Append(x, IF Joining(lines)[i]
                            THEN Merged(lines[i], lines[i + 1]) ELSE lines[i])
           Body(f, i) == IF i = 0 THEN <<>> ELSE Step(f[i - 1], i)
           Upto(n, f) == f = [i \in 0..n |-> Body(f, i)]
           Good == {n \in Nat : \E f : Upto(n, f)}
<1> HIDE DEF Step
<1>1. 0 \in Good
  <2>1. Upto(0, [i \in 0..0 |-> <<>>])
    OBVIOUS
  <2> QED BY <2>1
<1>2. ASSUME NEW n \in Nat, n \in Good PROVE n + 1 \in Good
  <2>1. PICK f : Upto(n, f)
    BY <1>2
  <2> DEFINE g == [i \in 0..(n + 1) |-> IF i = n + 1 THEN Step(f[n], n + 1) ELSE f[i]]
  <2>2. DOMAIN f = 0..n
    BY <2>1
  <2>3. \A i \in 0..n : g[i] = f[i] /\ f[i] = Body(f, i)
    BY <2>1, <2>2
  <2>4. ASSUME NEW i \in 0..(n + 1) PROVE g[i] = Body(g, i)
    <3>1. CASE i = 0
      <4>1. i \in 0..n
        BY <3>1
      <4>2. g[i] = f[i] /\ f[i] = <<>>
        BY <2>3, <3>1, <4>1
      <4> QED BY <3>1, <4>2
    <3>2. CASE i \in 1..n
      <4>1. i - 1 \in 0..n /\ i \in 0..n /\ i # 0
        BY <3>2
      <4>2. g[i] = f[i] /\ g[i - 1] = f[i - 1] /\ f[i] = Body(f, i)
        BY <2>3, <4>1
      <4> HIDE DEF g
      <4> QED BY <4>1, <4>2
    <3>3. CASE i = n + 1
      <4>1. i - 1 = n /\ n \in 0..n /\ i # 0
        BY <3>3
      <4>2. g[i - 1] = f[n] /\ g[i] = Step(f[n], i)
        BY <2>3, <3>3, <4>1
      <4> HIDE DEF g
      <4> QED BY <4>1, <4>2
    <3> QED BY <3>1, <3>2, <3>3
  <2>5. g = [i \in 0..(n + 1) |-> g[i]]
    OBVIOUS
  <2> HIDE DEF g, Body
  <2>6. Upto(n + 1, g)
    BY <2>4, <2>5
  <2> HIDE DEF Upto
  <2> QED BY <2>6
<1>3. Nat \subseteq Good
  <2> HIDE DEF Good
  <2> QED BY <1>1, <1>2, NatSetInduction
<1>4. \E f : Upto(Len(lines), f)
  BY <1>3
<1>5. Joined(lines) = CHOOSE f : Upto(Len(lines), f)
  BY DEF Joined, Step
<1> HIDE DEF Body
<1>6. Upto(Len(lines), Joined(lines))
  BY <1>4, <1>5
<1> QED BY <1>6 DEF JoinedEqs, Step, Body

\* Rows.
LEMMA RowsExist ==
  ASSUME NEW lines, Len(lines) \in Nat
  PROVE  RowsEqs(lines, Rows(lines))
<1> DEFINE Step(x, i) == IF lines[i].touch = <<>> THEN x ELSE Append(x, lines[i])
           Body(f, i) == IF i = 0 THEN <<>> ELSE Step(f[i - 1], i)
           Upto(n, f) == f = [i \in 0..n |-> Body(f, i)]
           Good == {n \in Nat : \E f : Upto(n, f)}
<1> HIDE DEF Step
<1>1. 0 \in Good
  <2>1. Upto(0, [i \in 0..0 |-> <<>>])
    OBVIOUS
  <2> QED BY <2>1
<1>2. ASSUME NEW n \in Nat, n \in Good PROVE n + 1 \in Good
  <2>1. PICK f : Upto(n, f)
    BY <1>2
  <2> DEFINE g == [i \in 0..(n + 1) |-> IF i = n + 1 THEN Step(f[n], n + 1) ELSE f[i]]
  <2>2. DOMAIN f = 0..n
    BY <2>1
  <2>3. \A i \in 0..n : g[i] = f[i] /\ f[i] = Body(f, i)
    BY <2>1, <2>2
  <2>4. ASSUME NEW i \in 0..(n + 1) PROVE g[i] = Body(g, i)
    <3>1. CASE i = 0
      <4>1. i \in 0..n
        BY <3>1
      <4>2. g[i] = f[i] /\ f[i] = <<>>
        BY <2>3, <3>1, <4>1
      <4> QED BY <3>1, <4>2
    <3>2. CASE i \in 1..n
      <4>1. i - 1 \in 0..n /\ i \in 0..n /\ i # 0
        BY <3>2
      <4>2. g[i] = f[i] /\ g[i - 1] = f[i - 1] /\ f[i] = Body(f, i)
        BY <2>3, <4>1
      <4> HIDE DEF g
      <4> QED BY <4>1, <4>2
    <3>3. CASE i = n + 1
      <4>1. i - 1 = n /\ n \in 0..n /\ i # 0
        BY <3>3
      <4>2. g[i - 1] = f[n] /\ g[i] = Step(f[n], i)
        BY <2>3, <3>3, <4>1
      <4> HIDE DEF g
      <4> QED BY <4>1, <4>2
    <3> QED BY <3>1, <3>2, <3>3
  <2>5. g = [i \in 0..(n + 1) |-> g[i]]
    OBVIOUS
  <2> HIDE DEF g, Body
  <2>6. Upto(n + 1, g)
    BY <2>4, <2>5
  <2> HIDE DEF Upto
  <2> QED BY <2>6
<1>3. Nat \subseteq Good
  <2> HIDE DEF Good
  <2> QED BY <1>1, <1>2, NatSetInduction
<1>4. \E f : Upto(Len(lines), f)
  BY <1>3
<1>5. Rows(lines) = CHOOSE f : Upto(Len(lines), f)
  BY DEF Rows, Step
<1> HIDE DEF Body
<1>6. Upto(Len(lines), Rows(lines))
  BY <1>4, <1>5
<1> QED BY <1>6 DEF RowsEqs, Step, Body

-----------------------------------------------------------------------------
(* Lines, the digits of a word, and the halves of a store.                 *)

Lines == [cyc : Int, pc : Nat, ins : Nat, touch : Seq(Touch)]
Events == [pc : Nat, ins : Nat, touch : Seq(Touch) \ {<<>>}]
Word == [1..Digits -> 0..15]

\* A store that crosses a word, and the digits of its upper half.
Splits(e) == IsStore(e) /\ e.touch[1].at % 4 # 0
Upper(e) == 2 * (e.touch[1].at % 4)

\* The digits of a line: all zero but the last k, which begin with another.
EndsIn(d, k) == (\A i \in 1..(Digits - k) : d[i] = 0) /\ d[Digits - k + 1] # 0

LowDigits(e) ==
  [i \in 1..Digits |-> IF i <= Upper(e) THEN 0 ELSE e.touch[1].dig[i]]
HighDigits(e) ==
  [i \in 1..Digits |-> IF i <= Digits - Upper(e) THEN 0
                       ELSE e.touch[1].dig[i - (Digits - Upper(e))]]
HalfLine(c, e, d) ==
  [cyc |-> c, pc |-> e.pc, ins |-> e.ins, touch |-> Mem(e.touch[1].at, d)]

\* The digits of a word are a sequence.
LEMMA WordSeq ==
  ASSUME NEW d \in Word
  PROVE  d \in Seq(0..15) /\ Len(d) = Digits /\ DOMAIN d = 1..Digits
         /\ \A i \in 1..Digits : d[i] \in 0..15
<1>1. Digits \in Nat
  BY TracesAssumption
<1>2. d \in Seq(0..15)
  BY <1>1, SeqDef DEF Word
<1>3. DOMAIN d = 1..Digits /\ DOMAIN d = 1..Len(d) /\ Len(d) \in Nat
  BY <1>2, LenProperties DEF Word
<1> QED BY <1>1, <1>2, <1>3 DEF Word

\* What a store writes, and where.
LEMMA StoreFacts ==
  ASSUME NEW e, e.touch \in Seq(Touch), IsStore(e)
  PROVE  /\ e.touch[1] \in Touch /\ e.touch[1].at \in Nat /\ e.touch[1].dig \in Word
         /\ e.touch[1].what = "mem"
         /\ Upper(e) \in {0, 2, 4, 6} /\ Upper(e) \in 0..Digits
         /\ Splits(e) => Upper(e) \in {2, 4, 6}
<1>1. e.touch[1] \in Touch
  BY DEF IsStore
<1>2. Digits \in Nat /\ Digits >= 8
  BY TracesAssumption
<1>3. e.touch[1].at \in Nat
  BY <1>1 DEF Touch
<1>4. e.touch[1].at % 4 \in 0..3
  BY <1>3
<1> QED BY <1>1, <1>2, <1>3, <1>4 DEF Touch, Word, IsStore, Upper, Splits

\* A part of a sequence.
LEMMA SubFacts ==
  ASSUME NEW S, NEW s \in Seq(S), NEW a \in 1..(Len(s) + 1), NEW b \in (a - 1)..Len(s)
  PROVE  /\ SubSeq(s, a, b) \in Seq(S) /\ Len(SubSeq(s, a, b)) = b - a + 1
         /\ \A i \in 1..(b - a + 1) : SubSeq(s, a, b)[i] = s[a + i - 1]
<1>1. Len(s) \in Nat /\ \A i \in 1..Len(s) : s[i] \in S
  BY LenProperties
<1>2. a \in Int /\ b \in Int /\ \A i \in a..b : s[i] \in S
  BY <1>1
<1>3. /\ SubSeq(s, a, b) \in Seq(S)
      /\ Len(SubSeq(s, a, b)) = IF a <= b THEN b - a + 1 ELSE 0
      /\ \A i \in 1..(b - a + 1) : SubSeq(s, a, b)[i] = s[a + i - 1]
  BY <1>2, SubSeqProperties
<1>4. a <= b \/ b = a - 1
  BY <1>1
<1>5. a <= b => Len(SubSeq(s, a, b)) = b - a + 1
  BY <1>3
<1>6. b = a - 1 => Len(SubSeq(s, a, b)) = b - a + 1
  BY <1>2, <1>3
<1> QED BY <1>3, <1>4, <1>5, <1>6

\* Digits behind zeros.
LEMMA Padded ==
  ASSUME NEW n \in Nat, NEW m \in Nat, NEW t \in Seq(0..15), Len(t) = m
  PROVE  Zeros(n) \o t = [i \in 1..(n + m) |-> IF i <= n THEN 0 ELSE t[i - n]]
<1>1. Zeros(n) \in Seq(0..15) /\ Len(Zeros(n)) = n /\ \A i \in 1..n : Zeros(n)[i] = 0
  <2>1. Zeros(n) \in [1..n -> 0..15]
    BY DEF Zeros
  <2>2. Zeros(n) \in Seq(0..15)
    BY <2>1, SeqDef
  <2>3. DOMAIN Zeros(n) = 1..n /\ DOMAIN Zeros(n) = 1..Len(Zeros(n)) /\ Len(Zeros(n)) \in Nat
    BY <2>1, <2>2, LenProperties
  <2> QED BY <2>2, <2>3 DEF Zeros
<1> DEFINE s == Zeros(n) \o t
<1>2. /\ s \in Seq(0..15) /\ Len(s) = n + m
      /\ \A i \in 1..n : s[i] = Zeros(n)[i]
      /\ \A i \in (n + 1)..(n + m) : s[i] = t[i - n]
  <2> DEFINE z == Zeros(n)
  <2>1. z \in Seq(0..15) /\ Len(z) = n
    BY <1>1
  <2> HIDE DEF z
  <2>2. z \o t \in Seq(0..15)
    BY <2>1
  <2>3. Len(z \o t) = n + m
    BY <2>1, ConcatProperties
  <2>4. \A i \in 1..n : (z \o t)[i] = z[i]
    BY <2>1
  <2>5. \A i \in (n + 1)..(n + m) : (z \o t)[i] = t[i - n]
    BY <2>1
  <2> QED BY <2>2, <2>3, <2>4, <2>5 DEF z
<1>3. s \in [1..(n + m) -> 0..15]
  BY <1>2, LenProperties
<1> HIDE DEF s
<1>4. \A i \in 1..(n + m) : s[i] = IF i <= n THEN 0 ELSE t[i - n]
  <2> TAKE i \in 1..(n + m)
  <2>1. CASE i <= n
    BY <1>1, <1>2, <2>1
  <2>2. CASE ~ i <= n
    <3>1. i \in (n + 1)..(n + m)
      BY <2>2
    <3> QED BY <1>2, <2>2, <3>1
  <2> QED BY <2>1, <2>2
<1> QED BY <1>3, <1>4 DEF s

\* The two lines of a store that crosses a word.
LEMMA HalvesFacts ==
  ASSUME NEW e \in Events, NEW c \in Int, Splits(e)
  PROVE  /\ Halves(c, e) = <<HalfLine(c, e, LowDigits(e)), HalfLine(c, e, HighDigits(e))>>
         /\ LowDigits(e) \in Word /\ HighDigits(e) \in Word
<1> DEFINE d == e.touch[1].dig
           u == Upper(e)
           low == Digits - u
<1>1. /\ d \in Word /\ u \in 0..Digits /\ Digits \in Nat
  BY StoreFacts, TracesAssumption DEF Events, Splits
<1>2. /\ d \in Seq(0..15) /\ Len(d) = Digits /\ DOMAIN d = 1..Digits
      /\ \A i \in 1..Digits : d[i] \in 0..15
  BY <1>1, WordSeq
<1>3. Halves(c, e) =
        <<[Event(c, e) EXCEPT !.touch = Mem(e.touch[1].at, Zeros(Digits - low) \o SubSeq(d, Digits - low + 1, Digits))],
          [Event(c, e) EXCEPT !.touch = Mem(e.touch[1].at, Zeros(low) \o SubSeq(d, 1, Digits - low))]>>
  BY DEF Halves, Upper
<1>4. \A t : [Event(c, e) EXCEPT !.touch = Mem(e.touch[1].at, t)] = HalfLine(c, e, t)
  BY DEF Event, HalfLine
<1> HIDE DEF d, u
<1>5. Digits - low = u /\ low \in 0..Digits
  BY <1>1
<1>6. /\ SubSeq(d, u + 1, Digits) \in Seq(0..15) /\ Len(SubSeq(d, u + 1, Digits)) = low
      /\ \A i \in 1..low : SubSeq(d, u + 1, Digits)[i] = d[u + i]
  <2>1. Digits - (u + 1) + 1 = low /\ u + 1 \in 1..(Len(d) + 1) /\ Digits \in ((u + 1) - 1)..Len(d)
    BY <1>1, <1>2
  <2>2. \A i \in 1..low : (u + 1) + i - 1 = u + i
    BY <1>1
  <2> QED BY <1>2, <2>1, <2>2, SubFacts
<1>7. /\ SubSeq(d, 1, u) \in Seq(0..15) /\ Len(SubSeq(d, 1, u)) = u
      /\ \A i \in 1..u : SubSeq(d, 1, u)[i] = d[i]
  <2>1. u - 1 + 1 = u /\ 1 \in 1..(Len(d) + 1) /\ u \in (1 - 1)..Len(d)
    BY <1>1, <1>2
  <2>2. \A i \in 1..u : 1 + i - 1 = i
    BY <1>1
  <2> QED BY <1>2, <2>1, <2>2, SubFacts
<1>8. Zeros(u) \o SubSeq(d, u + 1, Digits) = LowDigits(e)
  <2> DEFINE t == SubSeq(d, u + 1, Digits)
  <2>1. t \in Seq(0..15) /\ Len(t) = low /\ \A i \in 1..low : t[i] = d[u + i]
    BY <1>6
  <2> HIDE DEF t
  <2>2. u \in Nat /\ low \in Nat /\ u + low = Digits
    BY <1>1
  <2> HIDE DEF low
  <2>3. Zeros(u) \o t = [i \in 1..(u + low) |-> IF i <= u THEN 0 ELSE t[i - u]]
    BY <2>1, <2>2, Padded
  <2>4. ASSUME NEW i \in 1..Digits, ~ i <= u PROVE t[i - u] = d[i]
    <3>1. i - u \in 1..low /\ u + (i - u) = i
      BY <2>2, <2>4
    <3> QED BY <2>1, <3>1
  <2> USE DEF low
  <2>5. Zeros(u) \o t = [i \in 1..Digits |-> IF i <= u THEN 0 ELSE d[i]]
    <3> HIDE DEF low
    <3> QED BY <2>2, <2>3, <2>4
  <2> QED BY <2>5 DEF LowDigits, t, d, u
<1>9. Zeros(low) \o SubSeq(d, 1, u) = HighDigits(e)
  <2> DEFINE t == SubSeq(d, 1, u)
  <2>1. t \in Seq(0..15) /\ Len(t) = u /\ \A i \in 1..u : t[i] = d[i]
    BY <1>7
  <2> HIDE DEF t
  <2>2. u \in Nat /\ low \in Nat /\ low + u = Digits
    BY <1>1
  <2> HIDE DEF low
  <2>3. Zeros(low) \o t = [i \in 1..(low + u) |-> IF i <= low THEN 0 ELSE t[i - low]]
    BY <2>1, <2>2, Padded
  <2>4. ASSUME NEW i \in 1..Digits, ~ i <= low PROVE t[i - low] = d[i - low]
    <3>1. i - low \in 1..u /\ low + (i - low) = i
      BY <2>2, <2>4
    <3> QED BY <2>1, <3>1
  <2> USE DEF low
  <2>5. Zeros(low) \o t = [i \in 1..Digits |-> IF i <= low THEN 0 ELSE d[i - low]]
    <3> HIDE DEF low
    <3> QED BY <2>2, <2>3, <2>4
  <2> QED BY <2>5 DEF HighDigits, t, d, u
<1>10. LowDigits(e) \in Word
  BY <1>1, <1>2 DEF LowDigits, Word, d, u
<1>11. HighDigits(e) \in Word
  <2>1. ASSUME NEW i \in 1..Digits, ~ i <= low PROVE d[i - low] \in 0..15
    <3>1. i - low \in 1..Digits
      BY <1>1, <2>1
    <3> QED BY <1>2, <3>1
  <2> QED BY <1>1, <2>1 DEF HighDigits, Word, d, u
<1> QED BY <1>3, <1>4, <1>5, <1>8, <1>9, <1>10, <1>11

\* The lines of one event.
Size(e) == IF Splits(e) THEN 2 ELSE 1

\* The lines of an event.
LEMMA LoggedFacts ==
  ASSUME NEW e \in Events, NEW c \in Int
  PROVE  /\ Logged(c, e) \in Seq(Lines) /\ Len(Logged(c, e)) = Size(e)
         /\ ~ Splits(e) => Logged(c, e) = <<Event(c, e)>>
         /\ Splits(e) => /\ Logged(c, e)[1] = HalfLine(c, e, LowDigits(e))
                         /\ Logged(c, e)[2] = HalfLine(c, e, HighDigits(e))
         /\ \A i \in 1..Size(e) : /\ Logged(c, e)[i].cyc = c
                                  /\ Logged(c, e)[i].touch # <<>>
<1>1. CASE ~ Splits(e)
  <2>1. Logged(c, e) = <<Event(c, e)>>
    BY <1>1 DEF Logged, Splits
  <2>2. Event(c, e) \in Lines
    BY DEF Event, Lines, Events
  <2>3. Event(c, e).cyc = c /\ Event(c, e).touch # <<>>
    BY DEF Event, Events
  <2> QED BY <1>1, <2>1, <2>2, <2>3 DEF Size
<1>2. CASE Splits(e)
  <2>1. Logged(c, e) = <<HalfLine(c, e, LowDigits(e)), HalfLine(c, e, HighDigits(e))>>
        /\ LowDigits(e) \in Word /\ HighDigits(e) \in Word
    BY <1>2, HalvesFacts DEF Logged, Splits
  <2>2. e.touch[1].at \in Nat
    BY <1>2, StoreFacts DEF Events, Splits
  <2>3. \A w \in Word : HalfLine(c, e, w) \in Lines /\ HalfLine(c, e, w).cyc = c
                        /\ HalfLine(c, e, w).touch # <<>>
    <3> TAKE w \in Word
    <3>1. [what |-> "mem", at |-> e.touch[1].at, dig |-> w] \in Touch
      BY <2>2 DEF Touch, Word
    <3>2. Mem(e.touch[1].at, w) \in Seq(Touch) /\ Mem(e.touch[1].at, w) # <<>>
      BY <3>1 DEF Mem
    <3> QED BY <3>2 DEF HalfLine, Lines, Events
  <2> QED BY <1>2, <2>1, <2>3 DEF Size
<1> QED BY <1>1, <1>2

-----------------------------------------------------------------------------
(* The log of a correct core.                                              *)

Joinable(E) == \A i \in 1..Len(E) : Joins(E[i])

\* The log after j events: one line or two more.
LEMMA LogFacts ==
  ASSUME NEW E \in Seq(Events), NEW d \in Nat
  PROVE  /\ LogsOf(E, d)[0] = <<>>
         /\ \A j \in 0..Len(E) : LogsOf(E, d)[j] \in Seq(Lines)
         /\ \A j \in 1..Len(E) :
              /\ LogsOf(E, d)[j] = LogsOf(E, d)[j - 1] \o Logged(d * j, E[j])
              /\ Len(LogsOf(E, d)[j]) = Len(LogsOf(E, d)[j - 1]) + Size(E[j])
<1> DEFINE L == LogsOf(E, d)
           N == Len(E)
<1>1. N \in Nat /\ \A j \in 1..N : E[j] \in Events
  BY LenProperties
<1>2. L = [i \in 0..N |-> IF i = 0 THEN <<>> ELSE L[i - 1] \o Logged(d * i, E[i])]
  BY <1>1, LogExists DEF LogEqs
<1> HIDE DEF L
<1>3. L[0] = <<>> /\ \A j \in 1..N : L[j] = L[j - 1] \o Logged(d * j, E[j])
  <2>1. 0 \in 0..N /\ \A j \in 1..N : j \in 0..N /\ j # 0
    BY <1>1
  <2> QED BY <1>2, <2>1
<1>4. \A j \in 1..N : Logged(d * j, E[j]) \in Seq(Lines) /\ Len(Logged(d * j, E[j])) = Size(E[j])
  <2> TAKE j \in 1..N
  <2>1. d * j \in Int /\ E[j] \in Events
    BY <1>1
  <2> QED BY <2>1, LoggedFacts
<1> DEFINE Good == {n \in Nat : n <= N => L[n] \in Seq(Lines)}
<1>5. Nat \subseteq Good
  <2>1. 0 \in Good
    BY <1>3, EmptySeq
  <2>2. ASSUME NEW n \in Nat, n \in Good PROVE n + 1 \in Good
    <3> SUFFICES ASSUME n + 1 <= N PROVE L[n + 1] \in Seq(Lines)
      OBVIOUS
    <3>1. L[n] \in Seq(Lines) /\ n + 1 \in 1..N /\ (n + 1) - 1 = n
      BY <1>1, <2>2
    <3>2. L[n + 1] = L[n] \o Logged(d * (n + 1), E[n + 1])
      BY <1>3, <3>1
    <3>3. Logged(d * (n + 1), E[n + 1]) \in Seq(Lines)
      BY <1>4, <3>1
    <3> QED BY <3>1, <3>2, <3>3, ConcatProperties
  <2> HIDE DEF Good
  <2> QED BY <2>1, <2>2, NatSetInduction
<1>6. \A j \in 0..N : L[j] \in Seq(Lines)
  BY <1>1, <1>5
<1>7. ASSUME NEW j \in 1..N PROVE Len(L[j]) = Len(L[j - 1]) + Size(E[j])
  <2>1. L[j - 1] \in Seq(Lines)
    BY <1>1, <1>6
  <2>2. L[j] = L[j - 1] \o Logged(d * j, E[j])
    BY <1>3
  <2> DEFINE s == L[j - 1]
             t == Logged(d * j, E[j])
  <2>3. s \in Seq(Lines) /\ t \in Seq(Lines) /\ L[j] = s \o t /\ Len(t) = Size(E[j])
    BY <1>4, <2>1, <2>2
  <2> HIDE DEF s, t
  <2>4. Len(s \o t) = Len(s) + Len(t)
    BY <2>3, ConcatProperties
  <2> QED BY <2>3, <2>4 DEF s
<1> QED BY <1>3, <1>6, <1>7 DEF L

\* A log begins with the log of every event before.
LEMMA LogPrefix ==
  ASSUME NEW E \in Seq(Events), NEW d \in Nat, NEW k \in 0..Len(E), NEW j \in 0..k
  PROVE  /\ Len(LogsOf(E, d)[j]) \in Nat
         /\ j < k => Len(LogsOf(E, d)[j]) < Len(LogsOf(E, d)[k])
         /\ Len(LogsOf(E, d)[j]) <= Len(LogsOf(E, d)[k])
         /\ \A i \in 1..Len(LogsOf(E, d)[j]) : LogsOf(E, d)[k][i] = LogsOf(E, d)[j][i]
<1> DEFINE L == LogsOf(E, d)
           N == Len(E)
           P(n) == /\ n > j => Len(L[j]) < Len(L[n])
                   /\ \A i \in 1..Len(L[j]) : L[n][i] = L[j][i]
           Good == {n \in Nat : j + n <= N => P(j + n)}
<1>1. N \in Nat /\ j \in 0..N
  BY LenProperties
<1>2. /\ \A m \in 0..N : L[m] \in Seq(Lines) /\ Len(L[m]) \in Nat
      /\ \A m \in 1..N : /\ L[m] = L[m - 1] \o Logged(d * m, E[m])
                         /\ Logged(d * m, E[m]) \in Seq(Lines)
                         /\ Len(Logged(d * m, E[m])) >= 1
  <2>1. /\ \A m \in 0..N : L[m] \in Seq(Lines)
        /\ \A m \in 1..N : L[m] = L[m - 1] \o Logged(d * m, E[m])
    BY LogFacts
  <2>2. ASSUME NEW m \in 1..N PROVE Logged(d * m, E[m]) \in Seq(Lines) /\ Len(Logged(d * m, E[m])) >= 1
    <3> DEFINE c == d * m
    <3>1. c \in Int /\ E[m] \in Events
      BY <1>1, LenProperties
    <3> HIDE DEF c
    <3>2. Logged(c, E[m]) \in Seq(Lines) /\ Len(Logged(c, E[m])) = Size(E[m])
      BY <3>1, LoggedFacts
    <3>3. Size(E[m]) >= 1
      BY DEF Size
    <3> QED BY <3>2, <3>3 DEF c
  <2>3. \A m \in 0..N : Len(L[m]) \in Nat
    BY <2>1, LenProperties
  <2> HIDE DEF L
  <2> QED BY <2>1, <2>2, <2>3
<1> HIDE DEF L
<1>3. 0 \in Good
  BY <1>1
<1>4. ASSUME NEW n \in Nat, n \in Good PROVE n + 1 \in Good
  <2> SUFFICES ASSUME j + (n + 1) <= N PROVE P(j + (n + 1))
    OBVIOUS
  <2> DEFINE m == j + (n + 1)
  <2>1. P(j + n) /\ m \in 1..N /\ m - 1 = j + n /\ m - 1 \in 0..N /\ m - 1 >= j
    BY <1>1, <1>4
  <2> HIDE DEF m
  <2>2. L[m - 1] \in Seq(Lines) /\ L[m] = L[m - 1] \o Logged(d * m, E[m])
        /\ Logged(d * m, E[m]) \in Seq(Lines) /\ Len(Logged(d * m, E[m])) >= 1
        /\ Len(L[j]) \in Nat /\ Len(L[m - 1]) \in Nat
    BY <1>1, <1>2, <2>1
  <2>3. Len(L[m]) > Len(L[m - 1]) /\ \A i \in 1..Len(L[m - 1]) : L[m][i] = L[m - 1][i]
    <3> DEFINE t == Logged(d * m, E[m])
               s == L[m - 1]
    <3>1. Len(t) \in Nat
      BY <2>2, LenProperties
    <3> HIDE DEF t, s
    <3>2. s \in Seq(Lines) /\ t \in Seq(Lines) /\ Len(t) >= 1 /\ Len(s) \in Nat
      BY <2>2 DEF t, s
    <3>3. Len(s \o t) = Len(s) + Len(t)
      BY <3>2, ConcatProperties
    <3>4. \A i \in 1..Len(s) : (s \o t)[i] = s[i]
      BY <3>1, <3>2, ConcatProperties
    <3>5. L[m] = s \o t
      BY <2>2 DEF t, s
    <3>6. Len(L[m]) > Len(s) /\ \A i \in 1..Len(s) : L[m][i] = s[i]
      BY <3>1, <3>2, <3>3, <3>4, <3>5
    <3> QED BY <3>6 DEF s
  <2>4. Len(L[j]) <= Len(L[m - 1]) /\ \A i \in 1..Len(L[j]) : L[m - 1][i] = L[j][i]
    <3>1. CASE m - 1 = j
      BY <2>2, <3>1
    <3>2. CASE m - 1 > j
      BY <2>1, <2>2, <3>2
    <3> QED BY <1>1, <2>1, <3>1, <3>2
  <2>5. Len(L[j]) < Len(L[m])
    <3>1. m \in 0..N
      BY <2>1
    <3>2. Len(L[m]) \in Nat
      BY <1>2, <3>1
    <3> DEFINE a == Len(L[j])
               b == Len(L[m - 1])
               e == Len(L[m])
    <3>3. a \in Nat /\ b \in Nat /\ e \in Nat /\ a <= b /\ b < e
      BY <2>2, <2>3, <2>4, <3>2
    <3> HIDE DEF a, b, e
    <3>4. a < e
      BY <3>3
    <3> QED BY <3>4 DEF a, e
  <2>6. ASSUME NEW i \in 1..Len(L[j]) PROVE L[m][i] = L[j][i]
    <3>1. i \in 1..Len(L[m - 1])
      BY <2>2, <2>4
    <3> QED BY <2>3, <2>4, <3>1
  <2> QED BY <2>5, <2>6 DEF m
<1>5. Nat \subseteq Good
  <2> HIDE DEF Good
  <2> QED BY <1>3, <1>4, NatSetInduction
<1>6. P(k)
  <2>1. k - j \in Nat /\ j + (k - j) = k /\ k <= N
    BY <1>1
  <2> HIDE DEF P
  <2>2. k - j \in Good
    BY <1>5, <2>1
  <2> QED BY <2>1, <2>2
<1>7. Len(L[j]) \in Nat /\ Len(L[k]) \in Nat /\ (j < k \/ j = k)
  BY <1>1, <1>2
<1> QED BY <1>6, <1>7 DEF L

\* Every line is of one event.
LEMMA LogWhere ==
  ASSUME NEW E \in Seq(Events), NEW d \in Nat, NEW i \in 1..Len(LogsOf(E, d)[Len(E)])
  PROVE  \E j \in 1..Len(E) :
           /\ i - Len(LogsOf(E, d)[j - 1]) \in 1..Size(E[j])
           /\ Len(LogsOf(E, d)[j - 1]) \in Nat
           /\ LogsOf(E, d)[Len(E)][i] = Logged(d * j, E[j])[i - Len(LogsOf(E, d)[j - 1])]
<1> DEFINE L == LogsOf(E, d)
           N == Len(E)
           Good == {n \in Nat : n <= N /\ i <= Len(L[n]) =>
                      \E j \in 1..n : Len(L[j - 1]) < i /\ i <= Len(L[j])}
<1>1. N \in Nat /\ \A j \in 1..N : E[j] \in Events
  BY LenProperties
<1>2. /\ \A j \in 0..N : L[j] \in Seq(Lines) /\ Len(L[j]) \in Nat
      /\ L[0] = <<>> /\ \A j \in 1..N : Len(L[j]) = Len(L[j - 1]) + Size(E[j])
      /\ \A j \in 1..N : L[j] = L[j - 1] \o Logged(d * j, E[j])
  BY LogFacts, LenProperties
<1> HIDE DEF L
<1>0. i \in Nat /\ i >= 1
  <2>1. N \in 0..N
    BY <1>1
  <2> QED BY <1>2, <2>1 DEF L
<1>3. 0 \in Good
  BY <1>0, <1>2
<1>4. ASSUME NEW n \in Nat, n \in Good PROVE n + 1 \in Good
  <2> SUFFICES ASSUME n + 1 <= N, i <= Len(L[n + 1])
               PROVE  \E j \in 1..(n + 1) : Len(L[j - 1]) < i /\ i <= Len(L[j])
    OBVIOUS
  <2>1. n + 1 \in 1..(n + 1) /\ (n + 1) - 1 = n /\ n \in 0..N /\ n <= N
    BY <1>1
  <2>2. Len(L[n]) \in Nat
    BY <1>2, <2>1
  <2>3. CASE i <= Len(L[n])
    <3>1. PICK j \in 1..n : Len(L[j - 1]) < i /\ i <= Len(L[j])
      BY <1>4, <2>1, <2>3
    <3>2. j \in 1..(n + 1)
      BY <3>1
    <3> QED BY <3>1, <3>2
  <2>4. CASE ~ i <= Len(L[n])
    <3>1. Len(L[n]) < i
      BY <1>0, <2>2, <2>4
    <3>2. Len(L[(n + 1) - 1]) < i
      BY <2>1, <3>1
    <3> QED BY <2>1, <3>2
  <2> QED BY <2>3, <2>4
<1>5. Nat \subseteq Good
  <2> HIDE DEF Good
  <2> QED BY <1>3, <1>4, NatSetInduction
<1>6. PICK j \in 1..N : Len(L[j - 1]) < i /\ i <= Len(L[j])
  <2>1. i <= Len(L[N])
    BY <1>0, <1>1, <1>2 DEF L
  <2> QED BY <1>1, <1>5, <2>1
<1>7. j - 1 \in 0..N /\ j \in 0..N /\ j \in 1..N /\ N \in 0..N /\ j \in 0..N
  BY <1>1
<1>8. i - Len(L[j - 1]) \in 1..Size(E[j]) /\ i \in 1..Len(L[j]) /\ Size(E[j]) \in Nat
  <2>1. Len(L[j - 1]) \in Nat /\ Len(L[j]) \in Nat /\ Len(L[j]) = Len(L[j - 1]) + Size(E[j]) /\ Size(E[j]) \in Nat
    BY <1>2, <1>7 DEF Size
  <2> QED BY <1>0, <1>6, <2>1
<1>9. L[N][i] = L[j][i]
  <2>1. \A m \in 1..Len(L[j]) : L[N][m] = L[j][m]
    BY <1>1, <1>7, LogPrefix DEF L
  <2> QED BY <1>8, <2>1
<1>10. L[j][i] = Logged(d * j, E[j])[i - Len(L[j - 1])]
  <2> DEFINE s == L[j - 1]
             t == Logged(d * j, E[j])
  <2>1. s \in Seq(Lines) /\ L[j] = s \o t /\ Len(s) \in Nat
    BY <1>2, <1>7
  <2>2. t \in Seq(Lines) /\ Len(t) = Size(E[j])
    <3>1. d * j \in Int /\ E[j] \in Events
      BY <1>1, <1>7
    <3> QED BY <3>1, LoggedFacts
  <2>3. i - Len(s) \in 1..Len(t)
    BY <1>8, <2>2
  <2> HIDE DEF s, t
  <2>4. i \in (Len(s) + 1)..(Len(s) + Len(t)) /\ i \in 1..(Len(s) + Len(t)) /\ ~ i <= Len(s)
    <3>1. Len(t) \in Nat
      BY <2>2, LenProperties
    <3> QED BY <1>0, <2>1, <2>3, <3>1
  <2>5. (s \o t)[i] = t[i - Len(s)]
    BY <2>1, <2>2, <2>4, ConcatProperties
  <2> QED BY <2>1, <2>5 DEF s, t
<1>11. Len(L[j - 1]) \in Nat
  BY <1>2, <1>7
<1> HIDE DEF Good
<1> QED BY <1>7, <1>8, <1>9, <1>10, <1>11 DEF L

\* A sequence behind another.
LEMMA Concat ==
  ASSUME NEW S, NEW s \in Seq(S), NEW t \in Seq(S)
  PROVE  /\ s \o t \in Seq(S) /\ Len(s \o t) = Len(s) + Len(t)
         /\ Len(s) \in Nat /\ Len(t) \in Nat
         /\ \A i \in 1..Len(s) : (s \o t)[i] = s[i]
         /\ \A i \in 1..Len(t) : (s \o t)[Len(s) + i] = t[i]
<1>1. Len(s) \in Nat /\ Len(t) \in Nat
  BY LenProperties
<1>2. s \o t \in Seq(S) /\ Len(s \o t) = Len(s) + Len(t)
  BY ConcatProperties
<1>3. \A i \in 1..Len(s) : (s \o t)[i] = s[i]
  BY <1>1, ConcatProperties
<1>4. ASSUME NEW i \in 1..Len(t) PROVE (s \o t)[Len(s) + i] = t[i]
  <2> DEFINE m == Len(s) + i
  <2>1. m \in 1..(Len(s) + Len(t)) /\ ~ m <= Len(s) /\ m - Len(s) = i
    BY <1>1
  <2> HIDE DEF m
  <2>2. (s \o t)[m] = t[m - Len(s)]
    BY <2>1, ConcatProperties
  <2> QED BY <2>1, <2>2 DEF m
<1> QED BY <1>1, <1>2, <1>3, <1>4

\* A line of an event.
LEMMA OneLine ==
  ASSUME NEW e \in Events, NEW c \in Int, NEW m \in 1..Size(e)
  PROVE  /\ Logged(c, e)[m].cyc = c /\ m \in {1, 2}
         /\ m = 2 => Splits(e)
         /\ Splits(e) => /\ m = 1 => Logged(c, e)[m] = HalfLine(c, e, LowDigits(e))
                         /\ m = 2 => Logged(c, e)[m] = HalfLine(c, e, HighDigits(e))
         /\ ~ Splits(e) => Logged(c, e)[m] = Event(c, e)
<1>1. /\ Logged(c, e)[m].cyc = c
      /\ Splits(e) => /\ Logged(c, e)[1] = HalfLine(c, e, LowDigits(e))
                      /\ Logged(c, e)[2] = HalfLine(c, e, HighDigits(e))
      /\ ~ Splits(e) => Logged(c, e) = <<Event(c, e)>>
  BY LoggedFacts
<1>2. m \in {1, 2} /\ (~ Splits(e) => m = 1)
  BY DEF Size
<1> QED BY <1>1, <1>2

At0(l) == [l EXCEPT !.cyc = 0]

\* But for the cycle, an event is always logged alike.
LEMMA LoggedBare ==
  ASSUME NEW e \in Events, NEW c \in Int
  PROVE  \A i \in 1..Size(e) : Logged(0, e)[i] = At0(Logged(c, e)[i])
<1>1. CASE ~ Splits(e)
  <2>1. Logged(c, e) = <<Event(c, e)>> /\ Logged(0, e) = <<Event(0, e)>>
    BY <1>1, LoggedFacts
  <2>2. Event(0, e) = At0(Event(c, e))
    BY DEF Event, At0
  <2>3. Size(e) = 1
    BY <1>1 DEF Size
  <2> HIDE DEF Size
  <2> QED BY <2>1, <2>2, <2>3
<1>2. CASE Splits(e)
  <2>1. /\ Logged(c, e)[1] = HalfLine(c, e, LowDigits(e))
        /\ Logged(c, e)[2] = HalfLine(c, e, HighDigits(e))
        /\ Logged(0, e)[1] = HalfLine(0, e, LowDigits(e))
        /\ Logged(0, e)[2] = HalfLine(0, e, HighDigits(e))
    BY <1>2, LoggedFacts
  <2>2. \A w : HalfLine(0, e, w) = At0(HalfLine(c, e, w))
    BY DEF HalfLine, At0
  <2>3. Size(e) = 2
    BY <1>2 DEF Size
  <2> QED BY <2>1, <2>2, <2>3
<1> QED BY <1>1, <1>2

\* The same log, at other times.
LEMMA LogBare ==
  ASSUME NEW E \in Seq(Events), NEW j \in 0..Len(E)
  PROVE  /\ Len(LogsOf(E, 0)[j]) = Len(LogsOf(E, 2)[j])
         /\ \A i \in 1..Len(LogsOf(E, 2)[j]) :
              LogsOf(E, 0)[j][i] = At0(LogsOf(E, 2)[j][i])
<1> DEFINE L == LogsOf(E, 2)
           Z == LogsOf(E, 0)
           N == Len(E)
           P(n) == /\ Len(Z[n]) = Len(L[n])
                   /\ \A i \in 1..Len(L[n]) : Z[n][i] = At0(L[n][i])
           Good == {n \in Nat : n <= N => P(n)}
<1>1. N \in Nat /\ \A n \in 1..N : E[n] \in Events
  BY LenProperties
<1>2. /\ \A n \in 0..N : L[n] \in Seq(Lines) /\ Z[n] \in Seq(Lines)
      /\ L[0] = <<>> /\ Z[0] = <<>>
      /\ \A n \in 1..N : L[n] = L[n - 1] \o Logged(2 * n, E[n])
      /\ \A n \in 1..N : Z[n] = Z[n - 1] \o Logged(0 * n, E[n])
  BY LogFacts
<1>3. \A n \in 0..N : Len(L[n]) \in Nat /\ Len(Z[n]) \in Nat
  BY <1>2, LenProperties
<1> HIDE DEF L, Z
<1>4. 0 \in Good
  <2>1. Len(L[0]) = 0 /\ Len(Z[0]) = 0
    BY <1>2, EmptySeq
  <2> QED BY <2>1
<1>5. ASSUME NEW n \in Nat, n \in Good PROVE n + 1 \in Good
  <2> SUFFICES ASSUME n + 1 <= N PROVE P(n + 1)
    OBVIOUS
  <2> DEFINE m == n + 1
             c == 2 * m
             s == L[n]
             t == Logged(c, E[m])
             z == Z[n]
             u == Logged(0, E[m])
  <2>1. P(n) /\ m \in 1..N /\ m - 1 = n /\ n \in 0..N /\ m \in 0..N
    BY <1>1, <1>5
  <2>2. 0 * m = 0 /\ c \in Int /\ E[m] \in Events
    BY <1>1, <2>1
  <2>3. L[m] = s \o t /\ Z[m] = z \o u
    <3>1. L[m] = L[m - 1] \o Logged(2 * m, E[m]) /\ Z[m] = Z[m - 1] \o Logged(0 * m, E[m])
      BY <1>2, <2>1
    <3> QED BY <2>1, <2>2, <3>1
  <2>4. s \in Seq(Lines) /\ z \in Seq(Lines) /\ Len(s) \in Nat /\ Len(z) = Len(s)
        /\ \A i \in 1..Len(s) : z[i] = At0(s[i])
    BY <1>2, <1>3, <2>1
  <2> HIDE DEF c
  <2>5. /\ t \in Seq(Lines) /\ u \in Seq(Lines) /\ Len(t) = Size(E[m]) /\ Len(u) = Size(E[m])
    BY <2>2, LoggedFacts
  <2>6. \A i \in 1..Size(E[m]) : u[i] = At0(t[i])
    BY <2>2, LoggedBare
  <2>7. Size(E[m]) \in Nat
    BY DEF Size
  <2> DEFINE k == Size(E[m])
             q == Len(s)
  <2> HIDE DEF m, s, t, z, u, k, q
  <2>8. q \in Nat /\ k \in Nat /\ Len(s) = q /\ Len(z) = q /\ Len(t) = k /\ Len(u) = k
    BY <2>4, <2>5, <2>7 DEF q, k
  <2>9. /\ Len(s \o t) = q + k /\ Len(z \o u) = q + k
        /\ \A i \in 1..q : (s \o t)[i] = s[i] /\ (z \o u)[i] = z[i]
        /\ \A i \in 1..k : (s \o t)[q + i] = t[i] /\ (z \o u)[q + i] = u[i]
    <3>1. s \in Seq(Lines) /\ t \in Seq(Lines) /\ z \in Seq(Lines) /\ u \in Seq(Lines)
      BY <2>4, <2>5
    <3>2. /\ Len(s \o t) = Len(s) + Len(t)
          /\ \A i \in 1..Len(s) : (s \o t)[i] = s[i]
          /\ \A i \in 1..Len(t) : (s \o t)[Len(s) + i] = t[i]
      BY <3>1, Concat
    <3>3. /\ Len(z \o u) = Len(z) + Len(u)
          /\ \A i \in 1..Len(z) : (z \o u)[i] = z[i]
          /\ \A i \in 1..Len(u) : (z \o u)[Len(z) + i] = u[i]
      BY <3>1, Concat
    <3> QED BY <2>8, <3>2, <3>3
  <2>10. ASSUME NEW i \in 1..(q + k) PROVE (z \o u)[i] = At0((s \o t)[i])
    <3>1. CASE i <= q
      <4>1. i \in 1..q
        BY <2>8, <3>1
      <4>2. z[i] = At0(s[i])
        BY <2>4, <4>1 DEF q
      <4> QED BY <2>9, <4>1, <4>2
    <3>2. CASE ~ i <= q
      <4> DEFINE m1 == i - q
      <4>1. m1 \in 1..k /\ i = q + m1
        BY <2>8, <3>2
      <4> HIDE DEF m1
      <4>2. u[m1] = At0(t[m1])
        BY <2>6, <4>1 DEF k
      <4> QED BY <2>9, <4>1, <4>2
    <3> QED BY <3>1, <3>2
  <2>11. P(m)
    BY <2>3, <2>9, <2>10
  <2> QED BY <2>11 DEF m
<1>6. Nat \subseteq Good
  <2> HIDE DEF Good
  <2> QED BY <1>4, <1>5, NatSetInduction
<1>7. P(j)
  <2>1. j \in Nat /\ j <= N
    BY <1>1
  <2> HIDE DEF P
  <2> QED BY <1>6, <2>1
<1> QED BY <1>7 DEF L, Z

\* The lines of a correct core that are written in one cycle.
LEMMA RtlPairs ==
  ASSUME NEW E \in Seq(Events),
         NEW i \in 1..Len(LogsOf(E, 2)[Len(E)]), NEW h \in 1..Len(LogsOf(E, 2)[Len(E)]),
         i < h, LogsOf(E, 2)[Len(E)][i].cyc = LogsOf(E, 2)[Len(E)][h].cyc
  PROVE  \E j \in 1..Len(E) :
           /\ i = Len(LogsOf(E, 2)[j - 1]) + 1 /\ h = i + 1 /\ Splits(E[j])
           /\ LogsOf(E, 2)[Len(E)][i] = HalfLine(2 * j, E[j], LowDigits(E[j]))
           /\ LogsOf(E, 2)[Len(E)][h] = HalfLine(2 * j, E[j], HighDigits(E[j]))
<1> DEFINE L == LogsOf(E, 2)
           N == Len(E)
           R == L[N]
           p(j) == Len(L[j - 1])
<1>1. N \in Nat /\ \A n \in 1..N : E[n] \in Events
  BY LenProperties
<1>2. PICK j \in 1..N : i - p(j) \in 1..Size(E[j]) /\ p(j) \in Nat /\ R[i] = Logged(2 * j, E[j])[i - p(j)]
  <2>1. 2 \in Nat
    OBVIOUS
  <2> QED BY <2>1, LogWhere
<1>3. PICK k \in 1..N : h - p(k) \in 1..Size(E[k]) /\ p(k) \in Nat /\ R[h] = Logged(2 * k, E[k])[h - p(k)]
  <2>1. 2 \in Nat
    OBVIOUS
  <2> QED BY <2>1, LogWhere
<1>7. i \in Int /\ h \in Int
  <2>1. N \in 0..N
    BY <1>1
  <2>2. LogsOf(E, 2)[N] \in Seq(Lines)
    BY <2>1, LogFacts
  <2>3. Len(L[N]) \in Nat
    BY <2>2, LenProperties
  <2> QED BY <2>3
<1> DEFINE c == 2 * j
           d == 2 * k
<1>4. c \in Int /\ d \in Int /\ E[j] \in Events /\ E[k] \in Events /\ (c = d => j = k)
  BY <1>1
<1> HIDE DEF p, R, c, d
<1>5. R[i].cyc = c /\ R[h].cyc = d
  <2>1. R[i] = Logged(c, E[j])[i - p(j)] /\ R[h] = Logged(d, E[k])[h - p(k)]
    BY <1>2, <1>3 DEF c, d
  <2>2. Logged(c, E[j])[i - p(j)].cyc = c
    BY <1>2, <1>4, OneLine
  <2>3. Logged(d, E[k])[h - p(k)].cyc = d
    BY <1>3, <1>4, OneLine
  <2> QED BY <2>1, <2>2, <2>3
<1>6. j = k /\ c = d
  <2>1. R[i].cyc = R[h].cyc
    BY DEF R
  <2> QED BY <1>4, <1>5, <2>1
<1>8. Size(E[j]) = 2 /\ Splits(E[j]) /\ i - p(j) = 1 /\ h - p(j) = 2
  BY <1>2, <1>3, <1>6, <1>7 DEF Size
<1>9. R[i] = HalfLine(c, E[j], LowDigits(E[j])) /\ R[h] = HalfLine(c, E[j], HighDigits(E[j]))
  <2>1. R[i] = Logged(c, E[j])[1] /\ R[h] = Logged(c, E[j])[2]
    BY <1>2, <1>3, <1>6, <1>8 DEF c, d
  <2>2. Logged(c, E[j])[1] = HalfLine(c, E[j], LowDigits(E[j]))
        /\ Logged(c, E[j])[2] = HalfLine(c, E[j], HighDigits(E[j]))
    BY <1>4, <1>8, LoggedFacts
  <2> QED BY <2>1, <2>2
<1>10. i = p(j) + 1 /\ h = i + 1
  <2> DEFINE x == p(j)
  <2>1. x \in Nat /\ i - x = 1 /\ h - x = 2
    BY <1>2, <1>8
  <2> HIDE DEF x
  <2>2. i = x + 1 /\ h = i + 1
    BY <1>7, <2>1
  <2> QED BY <2>2 DEF x
<1> QED BY <1>8, <1>9, <1>10 DEF p, R, c

-----------------------------------------------------------------------------
(* Which digits the merge loses.                                           *)

\* The digits after the leading zeros.
LEMMA StripEnds ==
  ASSUME NEW d \in Word, NEW k \in 1..Digits, EndsIn(d, k)
  PROVE  /\ Strip(d) \in Seq(0..15) /\ Len(Strip(d)) = k
         /\ \A i \in 1..k : Strip(d)[i] = d[Digits - k + i]
<1> DEFINE z == Digits - k
           Z(n) == (\A i \in 1..n : d[i] = 0) /\ (n < Len(d) => d[n + 1] # 0)
           c == CHOOSE n \in 0..Len(d) : Z(n)
<1>1. d \in Seq(0..15) /\ Len(d) = Digits /\ Digits \in Nat
  BY WordSeq, TracesAssumption
<1>2. z \in 0..Len(d) /\ Z(z)
  BY <1>1 DEF EndsIn
<1> HIDE DEF z
<1>3. \A n \in 0..Len(d) : Z(n) => n = z
  <2> TAKE n \in 0..Len(d)
  <2> SUFFICES ASSUME Z(n), n # z PROVE FALSE
    OBVIOUS
  <2>1. CASE n < z
    <3>1. n + 1 \in 1..z /\ n < Len(d)
      BY <1>1, <1>2, <2>1
    <3> QED BY <1>2, <3>1
  <2>2. CASE z < n
    <3>1. z + 1 \in 1..n /\ z < Len(d)
      BY <1>1, <1>2, <2>2
    <3> QED BY <1>2, <3>1
  <2> QED BY <1>1, <1>2, <2>1, <2>2
<1>4. c \in 0..Len(d) /\ Z(c)
  <2> HIDE DEF Z
  <2> QED BY <1>2
<1>5. c = z
  <2> HIDE DEF Z, c
  <2> QED BY <1>3, <1>4
<1>6. Strip(d) = SubSeq(d, c + 1, Len(d))
  BY DEF Strip
<1>7. Strip(d) = SubSeq(d, z + 1, Digits)
  BY <1>1, <1>5, <1>6
<1>8. z + 1 \in 1..(Len(d) + 1) /\ Digits \in ((z + 1) - 1)..Len(d) /\ Digits - (z + 1) + 1 = k
  BY <1>1, <1>2 DEF z
<1>9. /\ SubSeq(d, z + 1, Digits) \in Seq(0..15)
      /\ Len(SubSeq(d, z + 1, Digits)) = Digits - (z + 1) + 1
      /\ \A i \in 1..(Digits - (z + 1) + 1) : SubSeq(d, z + 1, Digits)[i] = d[(z + 1) + i - 1]
  BY <1>1, <1>8, SubFacts
<1>10. \A i \in 1..k : (z + 1) + i - 1 = z + i
  BY <1>1, <1>2
<1>11. \A i \in 1..k : Strip(d)[i] = d[z + i]
  BY <1>7, <1>8, <1>9, <1>10
<1> QED BY <1>7, <1>8, <1>9, <1>11 DEF z

\* Every word has some, or is zero.
LEMMA StripSome ==
  ASSUME NEW d \in Word
  PROVE  \/ \E k \in 1..Digits : EndsIn(d, k)
         \/ Strip(d) = <<>>
<1> DEFINE Good == {n \in Nat : n <= Digits => \/ \A i \in 1..n : d[i] = 0
                                               \/ \E k \in 1..Digits : EndsIn(d, k)}
<1>1. d \in Seq(0..15) /\ Len(d) = Digits /\ Digits \in Nat
  BY WordSeq, TracesAssumption
<1>2. 0 \in Good
  OBVIOUS
<1>3. ASSUME NEW n \in Nat, n \in Good PROVE n + 1 \in Good
  <2> SUFFICES ASSUME n + 1 <= Digits, ~ \E k \in 1..Digits : EndsIn(d, k)
               PROVE  \A i \in 1..(n + 1) : d[i] = 0
    OBVIOUS
  <2>1. \A i \in 1..n : d[i] = 0
    BY <1>1, <1>3
  <2> DEFINE k == Digits - n
  <2>2. k \in 1..Digits /\ Digits - k = n
    BY <1>1
  <2> HIDE DEF k
  <2>3. d[n + 1] = 0
    BY <2>1, <2>2 DEF EndsIn
  <2> QED BY <2>1, <2>3
<1>4. Nat \subseteq Good
  <2> HIDE DEF Good
  <2> QED BY <1>2, <1>3, NatSetInduction
<1>5. SUFFICES ASSUME ~ \E k \in 1..Digits : EndsIn(d, k) PROVE Strip(d) = <<>>
  OBVIOUS
<1>6. \A i \in 1..Digits : d[i] = 0
  BY <1>1, <1>4, <1>5
<1> DEFINE Z(n) == (\A i \in 1..n : d[i] = 0) /\ (n < Len(d) => d[n + 1] # 0)
           c == CHOOSE n \in 0..Len(d) : Z(n)
<1>7. Digits \in 0..Len(d) /\ Z(Digits)
  BY <1>1, <1>6
<1>8. c \in 0..Len(d) /\ Z(c)
  <2> HIDE DEF Z
  <2> QED BY <1>7
<1>9. c = Digits
  <2>1. ~ c < Len(d)
    <3> SUFFICES ASSUME c < Len(d) PROVE FALSE
      OBVIOUS
    <3>1. d[c + 1] # 0
      BY <1>8
    <3> HIDE DEF c
    <3>2. c + 1 \in 1..Digits
      BY <1>1, <1>8
    <3> QED BY <1>6, <3>1, <3>2
  <2> HIDE DEF c
  <2> QED BY <1>1, <1>8, <2>1
<1>10. Strip(d) = SubSeq(d, c + 1, Len(d))
  BY DEF Strip
<1>11. Strip(d) = SubSeq(d, Digits + 1, Digits)
  BY <1>1, <1>9, <1>10
<1> QED BY <1>1, <1>11, SubSeqEmpty

\* A cut that cuts nothing.
LEMMA CutAll ==
  ASSUME NEW s \in Seq(0..15), NEW n \in Nat, Len(s) <= n
  PROVE  Cut(s, n) = s
<1>1. Len(s) \in Nat
  BY LenProperties
<1>2. Cut(s, n) = SubSeq(s, 1, Len(s))
  BY <1>1 DEF Cut
<1> QED BY <1>2, SubSeqFull

\* The digits of two lines that are put together: the last j of one and the
\* last k of the other.
Both(a, b, n) == Cut(Strip(a), n) \o Cut(Strip(b), n)
Shows(m, a, j, b, k) ==
  /\ m \in Seq(0..15) /\ Len(m) = j + k
  /\ \A i \in 1..j : m[i] = a[Digits - j + i]
  /\ \A i \in 1..k : m[j + i] = b[Digits - k + i]

\* Which digits the merge puts together.
LEMMA MergeDigits ==
  ASSUME NEW a \in Word, NEW b \in Word, NEW j \in 1..Digits, NEW k \in 1..Digits,
         EndsIn(a, j), EndsIn(b, k), NEW n \in Nat, j <= n, k <= n
  PROVE  Shows(Both(a, b, n), a, j, b, k)
<1> DEFINE s == Strip(a)
           t == Strip(b)
<1>1. s \in Seq(0..15) /\ Len(s) = j /\ \A i \in 1..j : s[i] = a[Digits - j + i]
  BY StripEnds
<1>2. t \in Seq(0..15) /\ Len(t) = k /\ \A i \in 1..k : t[i] = b[Digits - k + i]
  BY StripEnds
<1> HIDE DEF s, t
<1>3. Cut(s, n) = s
  BY <1>1, CutAll
<1>4. Cut(t, n) = t
  BY <1>2, CutAll
<1>5. /\ s \o t \in Seq(0..15) /\ Len(s \o t) = Len(s) + Len(t)
      /\ \A i \in 1..Len(s) : (s \o t)[i] = s[i]
      /\ \A i \in 1..Len(t) : (s \o t)[Len(s) + i] = t[i]
  <2> DEFINE S == 0..15
  <2>1. s \in Seq(S) /\ t \in Seq(S)
    BY <1>1, <1>2
  <2> HIDE DEF S
  <2>2. /\ s \o t \in Seq(S) /\ Len(s \o t) = Len(s) + Len(t)
        /\ \A i \in 1..Len(s) : (s \o t)[i] = s[i]
        /\ \A i \in 1..Len(t) : (s \o t)[Len(s) + i] = t[i]
    BY <2>1, Concat
  <2> QED BY <2>2 DEF S
<1>6. /\ s \o t \in Seq(0..15) /\ Len(s \o t) = j + k
      /\ \A i \in 1..j : (s \o t)[i] = a[Digits - j + i]
      /\ \A i \in 1..k : (s \o t)[j + i] = b[Digits - k + i]
  BY <1>1, <1>2, <1>5
<1> QED BY <1>3, <1>4, <1>6 DEF s, t, Both, Shows

\* Two lines that together show the word of a store are its halves.
LEMMA MergeRight ==
  ASSUME NEW e \in Events, Splits(e), Upper(e) \in {2, 4}, NEW a \in Word, NEW b \in Word,
         NEW j \in {Upper(e), Digits - Upper(e)}, NEW k \in {Upper(e), Digits - Upper(e)},
         EndsIn(a, j), EndsIn(b, k), k = Digits - Upper(e) \/ j = Upper(e),
         e.touch[1].dig = Both(a, b, Digits - Upper(e))
  PROVE  b = LowDigits(e) /\ a = HighDigits(e)
<1> DEFINE u == Upper(e)
           low == Digits - u
           w == e.touch[1].dig
           m == Both(a, b, low)
<1>1. Digits \in Nat /\ Digits >= 8 /\ u \in {2, 4}
  BY TracesAssumption
<1>2. w \in Word
  BY StoreFacts DEF Events, Splits
<1>3. Len(w) = Digits
  BY <1>2, WordSeq
<1> HIDE DEF w, u
<1>4. low \in Nat /\ u <= low /\ j \in 1..Digits /\ k \in 1..Digits /\ j <= low /\ k <= low
  BY <1>1 DEF u
<1> HIDE DEF low
<1>5. /\ m \in Seq(0..15) /\ Len(m) = j + k
      /\ \A i \in 1..j : m[i] = a[Digits - j + i]
      /\ \A i \in 1..k : m[j + i] = b[Digits - k + i]
  <2>1. Shows(m, a, j, b, k)
    BY <1>4, MergeDigits
  <2> QED BY <2>1 DEF Shows
<1>6. w = m
  BY DEF w, u, low
<1> HIDE DEF m
<1>7. k = low /\ j = u /\ low = Digits - u /\ k = Digits - u
  BY <1>1, <1>3, <1>4, <1>5, <1>6 DEF low, u
<1>8. ASSUME NEW i \in 1..Digits PROVE b[i] = IF i <= u THEN 0 ELSE w[i]
  <2>1. CASE i <= u
    <3>1. i \in 1..(Digits - k)
      BY <1>1, <1>7, <2>1
    <3> QED BY <2>1, <3>1 DEF EndsIn
  <2>2. CASE ~ i <= u
    <3> DEFINE h == i - u
    <3>1. h \in 1..k /\ j + h = i /\ Digits - k + h = i
      BY <1>1, <1>7, <2>2
    <3> HIDE DEF h
    <3> QED BY <1>5, <1>6, <2>2, <3>1
  <2> QED BY <2>1, <2>2
<1>9. ASSUME NEW i \in 1..Digits PROVE a[i] = IF i <= low THEN 0 ELSE w[i - low]
  <2>1. CASE i <= low
    <3>1. i \in 1..(Digits - j)
      BY <1>1, <1>7, <2>1
    <3> QED BY <2>1, <3>1 DEF EndsIn
  <2>2. CASE ~ i <= low
    <3> DEFINE h == i - low
    <3>1. h \in 1..j /\ Digits - j + h = i
      BY <1>1, <1>7, <2>2
    <3> HIDE DEF h
    <3>2. w[h] = a[i]
      BY <1>5, <1>6, <3>1
    <3> QED BY <2>2, <3>2 DEF h
  <2> QED BY <2>1, <2>2
<1>10. a \in [1..Digits -> 0..15] /\ b \in [1..Digits -> 0..15]
  BY DEF Word
<1>11. b = [i \in 1..Digits |-> IF i <= u THEN 0 ELSE w[i]]
  BY <1>8, <1>10
<1>12. a = [i \in 1..Digits |-> IF i <= low THEN 0 ELSE w[i - low]]
  BY <1>9, <1>10
<1> QED BY <1>11, <1>12 DEF LowDigits, HighDigits, w, u, low

\* The halves of a store that Joins names begin with digits that count.
LEMMA HalvesEnd ==
  ASSUME NEW e \in Events, Splits(e), Joins(e)
  PROVE  /\ Upper(e) \in {2, 4}
         /\ EndsIn(LowDigits(e), Digits - Upper(e)) /\ EndsIn(HighDigits(e), Upper(e))
<1> DEFINE u == Upper(e)
           d == e.touch[1].dig
           low == Digits - u
<1>1. Digits \in Nat /\ Digits >= 8 /\ u \in {2, 4, 6}
  BY StoreFacts, TracesAssumption DEF Events, Splits
<1>2. e.touch[1].at % 4 # 3 /\ d[1] # 0 /\ d[2 * (e.touch[1].at % 4) + 1] # 0
  BY DEF Joins, Splits
<1>3. u \in {2, 4} /\ d[u + 1] # 0
  <2>1. e.touch[1].at % 4 \in Int
    BY StoreFacts DEF Events, Splits
  <2> QED BY <1>1, <1>2, <2>1 DEF Upper
<1> HIDE DEF u, d
<1>4. EndsIn([i \in 1..Digits |-> IF i <= u THEN 0 ELSE d[i]], low)
  BY <1>1, <1>3 DEF EndsIn
<1>5. EndsIn([i \in 1..Digits |-> IF i <= low THEN 0 ELSE d[i - low]], u)
  <2> DEFINE h == [i \in 1..Digits |-> IF i <= low THEN 0 ELSE d[i - low]]
  <2>1. \A i \in 1..(Digits - u) : h[i] = 0
    BY <1>1, <1>3
  <2>2. Digits - u + 1 \in 1..Digits /\ ~ (Digits - u + 1 <= low) /\ (Digits - u + 1) - low = 1
    BY <1>1, <1>3
  <2>3. h[Digits - u + 1] = d[1]
    BY <2>2
  <2> HIDE DEF h
  <2>4. h[Digits - u + 1] # 0
    BY <1>2, <2>3 DEF d
  <2>5. EndsIn(h, u)
    BY <2>1, <2>4 DEF EndsIn
  <2> QED BY <2>5 DEF h
<1> QED BY <1>3, <1>4, <1>5 DEF LowDigits, HighDigits, d, u

\* They are put together right.
LEMMA MergeBack ==
  ASSUME NEW e \in Events, Splits(e), Joins(e)
  PROVE  e.touch[1].dig = Both(HighDigits(e), LowDigits(e), Digits - Upper(e))
<1> DEFINE u == Upper(e)
           low == Digits - u
           w == e.touch[1].dig
           a == HighDigits(e)
           b == LowDigits(e)
           m == Both(a, b, low)
<1>1. Digits \in Nat /\ Digits >= 8 /\ u \in {2, 4} /\ EndsIn(b, low) /\ EndsIn(a, u)
  BY HalvesEnd, TracesAssumption
<1>2. w \in Word
  BY StoreFacts DEF Events, Splits
<1>3. a \in Word /\ b \in Word
  <2>1. 0 \in Int
    OBVIOUS
  <2> QED BY <2>1, HalvesFacts
<1>4. a = [i \in 1..Digits |-> IF i <= low THEN 0 ELSE w[i - low]]
  BY DEF HighDigits
<1>5. b = [i \in 1..Digits |-> IF i <= u THEN 0 ELSE w[i]]
  BY DEF LowDigits
<1> HIDE DEF u, w, a, b
<1>6. low \in Nat /\ u <= low /\ u \in 1..Digits /\ low \in 1..Digits /\ Digits - low = u /\ u + low = Digits
  BY <1>1
<1> HIDE DEF low
<1>7. /\ m \in Seq(0..15) /\ Len(m) = u + low
      /\ \A i \in 1..u : m[i] = a[Digits - u + i]
      /\ \A i \in 1..low : m[u + i] = b[Digits - low + i]
  <2>1. Shows(m, a, u, b, low)
    BY <1>1, <1>3, <1>6, MergeDigits
  <2> QED BY <2>1 DEF Shows
<1> HIDE DEF m
<1>8. ASSUME NEW i \in 1..Digits PROVE m[i] = w[i]
  <2>1. CASE i <= u
    <3> DEFINE h == Digits - u + i
    <3>1. i \in 1..u /\ h \in 1..Digits /\ ~ h <= low /\ h - low = i
      BY <1>1, <1>6, <2>1
    <3> HIDE DEF h
    <3>2. a[h] = w[i]
      BY <1>4, <3>1
    <3> QED BY <1>7, <3>1, <3>2 DEF h
  <2>2. CASE ~ i <= u
    <3> DEFINE h == i - u
    <3>1. h \in 1..low /\ u + h = i /\ Digits - low + h = i
      BY <1>1, <1>6, <2>2
    <3> HIDE DEF h
    <3>2. m[i] = b[i]
      BY <1>7, <3>1
    <3> QED BY <1>5, <2>2, <3>2
  <2> QED BY <2>1, <2>2
<1>9. m \in [1..Digits -> 0..15]
  <2>1. Len(m) = Digits
    BY <1>6, <1>7
  <2> QED BY <1>7, <2>1, LenProperties
<1>10. w = m
  <2>1. w = [i \in 1..Digits |-> w[i]]
    BY <1>2 DEF Word
  <2>2. m = [i \in 1..Digits |-> m[i]]
    BY <1>9
  <2>3. \A i \in 1..Digits : m[i] = w[i]
    BY <1>8
  <2> HIDE DEF m
  <2> QED BY <2>1, <2>2, <2>3
<1> QED BY <1>10 DEF m, w, a, b, low, u

\* No word is twice its own digits with the leading zeros gone.
LEMMA TwiceWrong ==
  ASSUME NEW d \in Word
  PROVE  d # Both(d, d, Digits)
<1> DEFINE m == Both(d, d, Digits)
<1>1. SUFFICES ASSUME d = m PROVE FALSE
  OBVIOUS
<1>2. Digits \in Nat /\ Digits >= 8 /\ Len(d) = Digits
  BY WordSeq, TracesAssumption
<1>3. CASE Strip(d) = <<>>
  <2>1. <<>> \in Seq(0..15) /\ Len(<<>>) = 0
    BY EmptySeq
  <2>2. Cut(<<>>, Digits) = <<>>
    BY <1>2 DEF Cut
  <2>3. d = <<>> \o <<>>
    BY <1>1, <1>3, <2>2 DEF Both
  <2>4. Len(<<>> \o <<>>) = 0
    BY <2>1, ConcatProperties
  <2> QED BY <1>2, <2>3, <2>4
<1>4. ASSUME NEW k \in 1..Digits, EndsIn(d, k) PROVE FALSE
  <2>1. /\ Len(m) = k + k
        /\ \A i \in 1..k : m[i] = d[Digits - k + i]
    <3>1. Shows(m, d, k, d, k)
      BY <1>2, <1>4, MergeDigits
    <3> QED BY <3>1 DEF Shows
  <2> HIDE DEF m
  <2>2. k + k = Digits /\ k \in Nat /\ k >= 1
    BY <1>1, <1>2, <2>1
  <2>3. 1 \in 1..k /\ 1 \in 1..(Digits - k)
    BY <1>2, <2>2
  <2>4. m[1] = d[Digits - k + 1]
    BY <2>1, <2>3
  <2>5. d[1] = 0 /\ d[Digits - k + 1] # 0
    BY <1>4, <2>3 DEF EndsIn
  <2> QED BY <1>1, <2>4, <2>5
<1> QED BY <1>3, <1>4, StripSome

-----------------------------------------------------------------------------
(* Logs whose lines the merge puts together as it should.                  *)

Dig(l) == l.touch[1].dig
Widths(l) == {Upper(l), Digits - Upper(l)}

\* A line of an event, whose digits the merge does not lose.
Whole(l) ==
  /\ l \in Lines /\ l.touch # <<>>
  /\ Splits(l) => Upper(l) \in {2, 4} /\ \E k \in Widths(l) : EndsIn(Dig(l), k)

\* A line as another, but for the last digit.
Like(l, r) ==
  /\ l \in Lines /\ l.touch # <<>>
  /\ l.cyc = r.cyc /\ l.pc = r.pc /\ l.ins = r.ins
  /\ IsStore(l) <=> IsStore(r)
  /\ IsStore(l) => /\ l.touch[1].at = r.touch[1].at
                   /\ \A i \in 1..(Digits - 1) : Dig(l)[i] = Dig(r)[i]

\* Two lines the merge puts together: halves of one store, the lower one
\* first or either twice, or a whole line twice, in a log that is right so far.
HalfPair(l, m) ==
  /\ Splits(l) /\ m.touch[1].at = l.touch[1].at
  /\ \E j, k \in Widths(l) : /\ EndsIn(Dig(m), j) /\ EndsIn(Dig(l), k)
                             /\ k = Digits - Upper(l) \/ j = Upper(l)
Repeat(L, i, R) ==
  /\ ~ Splits(L[i]) /\ L[i + 1] = L[i]
  /\ i \in 1..Len(R) /\ \A h \in 1..i : L[h] = R[h]

Sound(L, R) ==
  /\ L \in Seq(Lines)
  /\ \A i \in 1..Len(L) : Whole(L[i]) \/ (i = Len(L) /\ L[i].touch = <<>>)
  /\ \A i \in 1..(Len(L) - 1) :
       SameStore(L[i], L[i + 1]) => HalfPair(L[i], L[i + 1]) \/ Repeat(L, i, R)

Sourced(L, R, src) ==
  /\ L \in Seq(Lines)
  /\ \A i \in 1..Len(L) : src[i] \in 1..Len(R) /\ Like(L[i], R[src[i]])
  /\ \A i \in 1..(Len(L) - 1) :
       \/ src[i] < src[i + 1]
       \/ /\ src[i] = i /\ src[i + 1] = i /\ L[i + 1] = L[i]
          /\ \A h \in 1..i : L[h] = R[h]

\* A half is a line of the same store.
LEMMA HalfIs ==
  ASSUME NEW e \in Events, Splits(e), NEW c, NEW d
  PROVE  LET l == HalfLine(c, e, d) IN
         /\ l.cyc = c /\ l.pc = e.pc /\ l.ins = e.ins /\ l.touch # <<>>
         /\ IsStore(l) /\ Splits(l) /\ Upper(l) = Upper(e)
         /\ Dig(l) = d /\ l.touch[1].at = e.touch[1].at
<1> DEFINE l == HalfLine(c, e, d)
<1>1. /\ l.cyc = c /\ l.pc = e.pc /\ l.ins = e.ins /\ l.touch = Mem(e.touch[1].at, d)
  BY DEF HalfLine
<1>2. /\ l.touch[1] = [what |-> "mem", at |-> e.touch[1].at, dig |-> d]
      /\ Len(l.touch) = 1 /\ l.touch # <<>>
  BY <1>1 DEF Mem
<1> HIDE DEF l
<1>3. l.touch[1].what = "mem" /\ l.touch[1].at = e.touch[1].at /\ l.touch[1].dig = d
  BY <1>2
<1>4. IsStore(l) /\ Splits(l) /\ Upper(l) = Upper(e)
  BY <1>2, <1>3 DEF IsStore, Splits, Upper
<1> QED BY <1>1, <1>2, <1>3, <1>4 DEF l, Dig

\* What a correct core writes.
LEMMA RtlLine ==
  ASSUME NEW E \in Seq(Events), Joinable(E), NEW i \in 1..Len(LogsOf(E, 2)[Len(E)])
  PROVE  Whole(LogsOf(E, 2)[Len(E)][i]) /\ LogsOf(E, 2)[Len(E)][i].cyc \in Nat
<1> DEFINE L == LogsOf(E, 2)
           N == Len(E)
           l == L[N][i]
           p(j) == Len(L[j - 1])
<1>1. N \in Nat /\ \A n \in 1..N : E[n] \in Events
  BY LenProperties
<1>2. l \in Lines
  <2>1. N \in 0..N
    BY <1>1
  <2>2. L[N] \in Seq(Lines)
    BY <2>1, LogFacts
  <2> QED BY <2>2, LenProperties
<1>3. PICK j \in 1..N : i - p(j) \in 1..Size(E[j]) /\ p(j) \in Nat /\ l = Logged(2 * j, E[j])[i - p(j)]
  <2>1. 2 \in Nat
    OBVIOUS
  <2> QED BY <2>1, LogWhere
<1> DEFINE c == 2 * j
           e == E[j]
           m == i - p(j)
<1>4. c \in Nat /\ c \in Int /\ e \in Events /\ Joins(e)
  BY <1>1 DEF Joinable
<1>5. l = Logged(c, e)[m] /\ m \in 1..Size(e)
  BY <1>3
<1> HIDE DEF l, c, e, m
<1>6. l.cyc = c
  BY <1>4, <1>5, OneLine
<1>7. CASE ~ Splits(e)
  <2>1. l = Event(c, e)
    BY <1>4, <1>5, <1>7, OneLine
  <2>2. l.touch = e.touch
    BY <2>1 DEF Event
  <2>3. ~ Splits(l) /\ l.touch # <<>>
    BY <1>4, <1>7, <2>2 DEF Splits, IsStore, Events
  <2> QED BY <1>2, <1>4, <1>6, <2>3 DEF Whole, l
<1>8. CASE Splits(e)
  <2>1. Upper(e) \in {2, 4} /\ EndsIn(LowDigits(e), Digits - Upper(e)) /\ EndsIn(HighDigits(e), Upper(e))
    BY <1>4, <1>8, HalvesEnd
  <2>2. \/ l = HalfLine(c, e, LowDigits(e))
        \/ l = HalfLine(c, e, HighDigits(e))
    <3>1. m \in {1, 2}
      BY <1>5, <1>8 DEF Size
    <3>2. /\ Logged(c, e)[1] = HalfLine(c, e, LowDigits(e))
          /\ Logged(c, e)[2] = HalfLine(c, e, HighDigits(e))
      BY <1>4, <1>8, LoggedFacts
    <3> QED BY <1>5, <3>1, <3>2
  <2>3. CASE l = HalfLine(c, e, LowDigits(e))
    <3>1. l.touch # <<>> /\ Upper(l) = Upper(e) /\ Dig(l) = LowDigits(e)
      BY <1>4, <1>8, <2>3, HalfIs
    <3>2. \E k \in Widths(l) : EndsIn(Dig(l), k)
      BY <2>1, <3>1 DEF Widths
    <3> QED BY <1>2, <1>4, <1>6, <2>1, <3>1, <3>2 DEF Whole, l
  <2>4. CASE l = HalfLine(c, e, HighDigits(e))
    <3>1. l.touch # <<>> /\ Upper(l) = Upper(e) /\ Dig(l) = HighDigits(e)
      BY <1>4, <1>8, <2>4, HalfIs
    <3>2. \E k \in Widths(l) : EndsIn(Dig(l), k)
      BY <2>1, <3>1 DEF Widths
    <3> QED BY <1>2, <1>4, <1>6, <2>1, <3>1, <3>2 DEF Whole, l
  <2> QED BY <2>2, <2>3, <2>4
<1> QED BY <1>7, <1>8 DEF l

\* The merge does not lose digits of a line that differs in the last one.
LEMMA LikeWhole ==
  ASSUME NEW l, NEW r, Like(l, r), Whole(r)
  PROVE  /\ Whole(l)
         /\ IsStore(l) => Splits(l) = Splits(r) /\ Upper(l) = Upper(r)
         /\ Splits(l) => \A k \in Widths(r) : EndsIn(Dig(r), k) => EndsIn(Dig(l), k)
<1>1. Digits \in Nat /\ Digits >= 8
  BY TracesAssumption
<1>2. Splits(l) => IsStore(l) /\ Splits(r) /\ Upper(l) = Upper(r)
  BY DEF Splits, Like, Upper
<1>3. IsStore(l) => Splits(l) = Splits(r) /\ Upper(l) = Upper(r)
  BY DEF Splits, Like, Upper
<1>4. ASSUME Splits(l), NEW k \in Widths(r), EndsIn(Dig(r), k) PROVE EndsIn(Dig(l), k)
  <2>1. k \in Int /\ k >= 2
    BY <1>1, <1>2, <1>4 DEF Whole, Widths
  <2>2. \A i \in 1..(Digits - 1) : Dig(l)[i] = Dig(r)[i]
    BY <1>2, <1>4 DEF Like
  <2>3. Digits - k + 1 \in 1..(Digits - 1)
    <3>1. k <= Digits
      BY <1>1, <1>2, <1>4 DEF Whole, Widths
    <3> QED BY <1>1, <2>1, <3>1
  <2>4. \A i \in 1..(Digits - k) : i \in 1..(Digits - 1)
    BY <1>1, <2>1
  <2> QED BY <1>4, <2>2, <2>3, <2>4 DEF EndsIn
<1>5. Whole(l)
  <2> SUFFICES ASSUME Splits(l) PROVE Upper(l) \in {2, 4} /\ \E k \in Widths(l) : EndsIn(Dig(l), k)
    BY DEF Whole, Like
  <2>1. PICK k \in Widths(r) : EndsIn(Dig(r), k)
    BY <1>2 DEF Whole
  <2>2. EndsIn(Dig(l), k) /\ Widths(l) = Widths(r)
    BY <1>2, <1>4, <2>1 DEF Widths
  <2> QED BY <1>2, <2>2 DEF Whole
<1> QED BY <1>3, <1>4, <1>5

\* Lines of a correct log, in its order, perhaps one of them wrong or twice.
LEMMA SourcedSound ==
  ASSUME NEW E \in Seq(Events), Joinable(E), NEW L, NEW src,
         Sourced(L, LogsOf(E, 2)[Len(E)], src)
  PROVE  Sound(L, LogsOf(E, 2)[Len(E)])
<1> DEFINE R == LogsOf(E, 2)[Len(E)]
           n == Len(L)
<1>1. L \in Seq(Lines) /\ n \in Nat
  BY LenProperties DEF Sourced
<1>2. ASSUME NEW i \in 1..n
      PROVE  /\ src[i] \in 1..Len(R) /\ Like(L[i], R[src[i]])
             /\ Whole(R[src[i]]) /\ Whole(L[i])
  <2>1. src[i] \in 1..Len(R) /\ Like(L[i], R[src[i]])
    BY <1>2 DEF Sourced
  <2>2. Whole(R[src[i]])
    BY <2>1, RtlLine
  <2> QED BY <2>1, <2>2, LikeWhole
<1>3. ASSUME NEW i \in 1..(n - 1), SameStore(L[i], L[i + 1])
      PROVE  HalfPair(L[i], L[i + 1]) \/ Repeat(L, i, R)
  <2> DEFINE l == L[i]
             m == L[i + 1]
             s == src[i]
             t == src[i + 1]
  <2>1. i \in 1..n /\ i + 1 \in 1..n
    BY <1>1
  <2>2. /\ s \in 1..Len(R) /\ Like(l, R[s]) /\ Whole(R[s]) /\ Whole(l)
        /\ t \in 1..Len(R) /\ Like(m, R[t]) /\ Whole(R[t]) /\ Whole(m)
    BY <1>2, <2>1
  <2>3. \/ s < t
        \/ s = i /\ t = i /\ m = l /\ \A h \in 1..i : L[h] = R[h]
    BY <1>1 DEF Sourced
  <2>4. IsStore(l) /\ IsStore(m) /\ l.cyc = m.cyc
    BY <1>3 DEF SameStore
  <2> HIDE DEF R, l, m, s, t
  <2>5. CASE s < t
    <3>1. R[s].cyc = R[t].cyc
      BY <2>2, <2>4 DEF Like
    <3>2. PICK j \in 1..Len(E) :
            /\ Splits(E[j])
            /\ R[s] = HalfLine(2 * j, E[j], LowDigits(E[j]))
            /\ R[t] = HalfLine(2 * j, E[j], HighDigits(E[j]))
      BY <2>2, <2>5, <3>1, RtlPairs DEF R
    <3> DEFINE e == E[j]
               c == 2 * j
    <3>3. e \in Events /\ Joins(e)
      BY LenProperties DEF Joinable
    <3> HIDE DEF e, c
    <3>4. /\ Splits(R[s]) /\ Upper(R[s]) = Upper(e) /\ Dig(R[s]) = LowDigits(e)
          /\ R[s].touch[1].at = e.touch[1].at
      <4>1. R[s] = HalfLine(c, e, LowDigits(e)) /\ Splits(e)
        BY <3>2 DEF e, c
      <4> QED BY <3>3, <4>1, HalfIs
    <3>5. /\ Splits(R[t]) /\ Upper(R[t]) = Upper(e) /\ Dig(R[t]) = HighDigits(e)
          /\ R[t].touch[1].at = e.touch[1].at
      <4>1. R[t] = HalfLine(c, e, HighDigits(e)) /\ Splits(e)
        BY <3>2 DEF e, c
      <4> QED BY <3>3, <4>1, HalfIs
    <3>6. Upper(e) \in {2, 4} /\ EndsIn(LowDigits(e), Digits - Upper(e)) /\ EndsIn(HighDigits(e), Upper(e))
      <4>1. Splits(e)
        BY <3>2 DEF e
      <4> QED BY <3>3, <4>1, HalvesEnd
    <3>7. Splits(l) /\ Upper(l) = Upper(e) /\ EndsIn(Dig(l), Digits - Upper(e))
      <4>1. Splits(l) /\ Upper(l) = Upper(R[s])
        BY <2>2, <2>4, <3>4, LikeWhole
      <4>2. Digits - Upper(e) \in Widths(R[s])
        BY <3>4 DEF Widths
      <4> QED BY <2>2, <3>4, <3>6, <4>1, <4>2, LikeWhole
    <3>8. EndsIn(Dig(m), Upper(e))
      <4>1. Splits(m)
        BY <2>2, <2>4, <3>5, LikeWhole
      <4>2. Upper(e) \in Widths(R[t])
        BY <3>5 DEF Widths
      <4> QED BY <2>2, <3>5, <3>6, <4>1, <4>2, LikeWhole
    <3>9. l.touch[1].at = m.touch[1].at
      BY <2>2, <2>4, <3>4, <3>5 DEF Like
    <3>10. HalfPair(l, m)
      BY <3>7, <3>8, <3>9 DEF HalfPair, Widths
    <3> QED BY <3>10 DEF l, m
  <2>6. CASE s = i /\ t = i /\ m = l /\ \A h \in 1..i : L[h] = R[h]
    <3>1. CASE Splits(l)
      <4>1. PICK k \in Widths(l) : EndsIn(Dig(l), k)
        BY <2>2, <3>1 DEF Whole
      <4>2. k = Digits - Upper(l) \/ k = Upper(l)
        BY <4>1 DEF Widths
      <4>3. HalfPair(l, m)
        BY <2>6, <3>1, <4>1, <4>2 DEF HalfPair
      <4> QED BY <4>3 DEF l, m
    <3>2. CASE ~ Splits(l)
      BY <2>2, <2>6, <3>2 DEF Repeat, l, m
    <3> QED BY <3>1, <3>2
  <2> QED BY <2>3, <2>5, <2>6
<1> HIDE DEF R
<1>4. \A i \in 1..n : Whole(L[i])
  BY <1>2
<1> QED BY <1>1, <1>3, <1>4 DEF Sound, R

\* A last line that belongs to no store.
LEMMA SoundTail ==
  ASSUME NEW L, NEW R, Sound(L, R), \A i \in 1..Len(L) : Whole(L[i]), NEW x \in Lines,
         Whole(x) \/ x.touch = <<>>,
         Len(L) > 0 => ~ SameStore(L[Len(L)], x)
  PROVE  Sound(Append(L, x), R)
<1> DEFINE n == Len(L)
           K == Append(L, x)
<1>1. L \in Seq(Lines) /\ n \in Nat
  BY LenProperties DEF Sound
<1>2. /\ K \in Seq(Lines) /\ Len(K) = n + 1 /\ K[n + 1] = x
      /\ \A i \in 1..n : K[i] = L[i]
  BY <1>1, AppendProperties
<1> HIDE DEF K
<1>3. ASSUME NEW i \in 1..Len(K) PROVE Whole(K[i]) \/ (i = Len(K) /\ K[i].touch = <<>>)
  <2>1. CASE i \in 1..n
    BY <1>2, <2>1
  <2>2. CASE i = n + 1
    BY <1>2, <2>2
  <2> QED BY <1>1, <1>2, <2>1, <2>2
<1>4. ASSUME NEW i \in 1..(Len(K) - 1), SameStore(K[i], K[i + 1])
      PROVE  HalfPair(K[i], K[i + 1]) \/ Repeat(K, i, R)
  <2>1. i \in 1..n /\ K[i] = L[i]
    BY <1>1, <1>2
  <2>2. i # n
    <3> SUFFICES ASSUME i = n PROVE FALSE
      OBVIOUS
    <3> QED BY <1>1, <1>2, <1>4, <2>1
  <2>3. i \in 1..(n - 1) /\ K[i + 1] = L[i + 1]
    BY <1>1, <1>2, <2>1, <2>2
  <2>4. HalfPair(L[i], L[i + 1]) \/ Repeat(L, i, R)
    BY <1>4, <2>1, <2>3 DEF Sound
  <2>5. \A h \in 1..i : K[h] = L[h]
    BY <1>1, <1>2, <2>1
  <2> QED BY <2>1, <2>3, <2>4, <2>5 DEF Repeat
<1> QED BY <1>2, <1>3, <1>4 DEF Sound, K

-----------------------------------------------------------------------------
(* The rows that are left of some lines.                                   *)

Rowed(s, k, r) == Len(r) = k /\ \A i \in 1..k : r[i] = s[i]

\* Lines that all say something are all kept.
LEMMA RowsAll ==
  ASSUME NEW S, NEW s \in Seq(S), NEW k \in 0..Len(s),
         \A i \in 1..k : s[i].touch # <<>>
  PROVE  Rows(s)[k] \in Seq(S) /\ Rowed(s, k, Rows(s)[k])
<1> DEFINE r == Rows(s)
           P(m) == r[m] \in Seq(S) /\ Rowed(s, m, r[m])
           Good == {m \in Nat : m <= k => P(m)}
<1>1. Len(s) \in Nat /\ k \in Nat /\ \A i \in 1..Len(s) : s[i] \in S
  BY LenProperties
<1>2. r = [i \in 0..Len(s) |->
             IF i = 0 THEN <<>>
             ELSE IF s[i].touch = <<>> THEN r[i - 1] ELSE Append(r[i - 1], s[i])]
  BY <1>1, RowsExist DEF RowsEqs
<1> HIDE DEF r
<1>3. r[0] = <<>>
  <2>1. 0 \in 0..Len(s)
    BY <1>1
  <2> QED BY <1>2, <2>1
<1>4. \A i \in 1..k : r[i] = Append(r[i - 1], s[i])
  <2> TAKE i \in 1..k
  <2>1. i \in 0..Len(s) /\ i # 0 /\ s[i].touch # <<>>
    BY <1>1
  <2> QED BY <1>2, <2>1
<1>5. 0 \in Good
  <2>1. <<>> \in Seq(S) /\ Len(<<>>) = 0
    BY EmptySeq
  <2>2. Rowed(s, 0, <<>>)
    BY <2>1 DEF Rowed
  <2> QED BY <1>3, <2>1, <2>2
<1>6. ASSUME NEW m \in Nat, m \in Good PROVE m + 1 \in Good
  <2> SUFFICES ASSUME m + 1 <= k PROVE P(m + 1)
    OBVIOUS
  <2> DEFINE h == m + 1
  <2>1. P(m) /\ h \in 1..k /\ h - 1 = m /\ h = m + 1 /\ s[h] \in S
    BY <1>1, <1>6
  <2> HIDE DEF h
  <2>2. r[h] = Append(r[m], s[h])
    BY <1>4, <2>1
  <2>3. /\ r[h] \in Seq(S) /\ Len(r[h]) = Len(r[m]) + 1
        /\ \A i \in 1..Len(r[m]) : r[h][i] = r[m][i]
        /\ r[h][Len(r[m]) + 1] = s[h]
    BY <2>1, <2>2, AppendProperties
  <2>4. Len(r[h]) = h /\ r[h][h] = s[h] /\ \A i \in 1..m : r[h][i] = s[i]
    <3>1. Len(r[m]) = m /\ \A i \in 1..m : r[m][i] = s[i]
      BY <2>1 DEF Rowed
    <3>2. \A i \in 1..m : r[h][i] = s[i]
      BY <2>3, <3>1
    <3>3. Len(r[h]) = h /\ r[h][h] = s[h]
      BY <2>1, <2>3, <3>1
    <3> QED BY <3>2, <3>3
  <2>5. \A i \in 1..h : i \in 1..m \/ i = h
    BY <2>1
  <2>6. Rowed(s, h, r[h])
    BY <2>4, <2>5 DEF Rowed
  <2> QED BY <2>3, <2>6 DEF h
<1>7. Nat \subseteq Good
  <2> HIDE DEF Good
  <2> QED BY <1>5, <1>6, NatSetInduction
<1> HIDE DEF P
<1> QED BY <1>1, <1>7 DEF P, r

\* A last line that says nothing is left out.
LEMMA RowsLast ==
  ASSUME NEW S, NEW s \in Seq(S), NEW k \in 0..Len(s),
         \A i \in 1..k : s[i].touch # <<>>,
         k = Len(s) \/ (k = Len(s) - 1 /\ s[Len(s)].touch = <<>>)
  PROVE  Rows(s)[Len(s)] \in Seq(S) /\ Rowed(s, k, Rows(s)[Len(s)])
<1> DEFINE n == Len(s)
           r == Rows(s)
<1>1. n \in Nat
  BY LenProperties
<1>2. r[k] \in Seq(S) /\ Rowed(s, k, r[k])
  BY RowsAll
<1>3. CASE k = n
  BY <1>2, <1>3
<1>4. CASE k = n - 1 /\ s[n].touch = <<>>
  <2>1. r = [i \in 0..n |->
             IF i = 0 THEN <<>>
             ELSE IF s[i].touch = <<>> THEN r[i - 1] ELSE Append(r[i - 1], s[i])]
    BY <1>1, RowsExist DEF RowsEqs
  <2> HIDE DEF r
  <2>2. n \in 0..n /\ n # 0
    BY <1>1, <1>4
  <2>3. r[n] = r[n - 1]
    BY <1>4, <2>1, <2>2
  <2> QED BY <1>2, <1>4, <2>3 DEF r
<1> QED BY <1>3, <1>4

-----------------------------------------------------------------------------
(* The lines that are put together.                                        *)

Results(L) ==
  {L[i] : i \in 1..Len(L)} \cup {Merged(L[i], L[i + 1]) : i \in 1..Len(L)}

\* Which lines take the next one in.
LEMMA TakesFacts ==
  ASSUME NEW L, Len(L) \in Nat
  PROVE  /\ ~ Joining(L)[0] /\ ~ Joining(L)[Len(L)]
         /\ \A i \in 1..Len(L) :
              Joining(L)[i] <=> /\ i < Len(L) /\ ~ Joining(L)[i - 1]
                                /\ SameStore(L[i], L[i + 1])
<1> DEFINE J == Joining(L)
<1>1. J = [i \in 0..Len(L) |->
             IF i = 0 THEN FALSE
             ELSE i < Len(L) /\ ~ J[i - 1] /\ SameStore(L[i], L[i + 1])]
  BY TakesExists DEF TakesEqs
<1> HIDE DEF J
<1>2. ~ J[0]
  <2>1. 0 \in 0..Len(L)
    OBVIOUS
  <2> QED BY <1>1, <2>1
<1>3. ASSUME NEW i \in 1..Len(L)
      PROVE  J[i] <=> i < Len(L) /\ ~ J[i - 1] /\ SameStore(L[i], L[i + 1])
  <2>1. i \in 0..Len(L) /\ i # 0
    OBVIOUS
  <2> QED BY <1>1, <2>1
<1>4. ~ J[Len(L)]
  <2>1. CASE Len(L) = 0
    BY <1>2, <2>1
  <2>2. CASE Len(L) # 0
    <3>1. Len(L) \in 1..Len(L)
      BY <2>2
    <3>2. J[Len(L)] => Len(L) < Len(L)
      BY <1>3, <3>1
    <3> QED BY <3>2
  <2> QED BY <2>1, <2>2
<1> QED BY <1>2, <1>3, <1>4 DEF J

\* What becomes of a line.
LEMMA JoinedFacts ==
  ASSUME NEW L, Len(L) \in Nat
  PROVE  /\ Joined(L)[0] = <<>>
         /\ \A i \in 0..Len(L) : Joined(L)[i] \in Seq(Results(L))
         /\ \A i \in 1..Len(L) :
              /\ Joining(L)[i - 1] => Joined(L)[i] = Joined(L)[i - 1]
              /\ ~ Joining(L)[i - 1] /\ Joining(L)[i] =>
                   Joined(L)[i] = Append(Joined(L)[i - 1], Merged(L[i], L[i + 1]))
              /\ ~ Joining(L)[i - 1] /\ ~ Joining(L)[i] =>
                   Joined(L)[i] = Append(Joined(L)[i - 1], L[i])
<1> DEFINE J == Joining(L)
           O == Joined(L)
           n == Len(L)
           S == Results(L)
<1>1. O = [i \in 0..n |->
         IF i = 0 THEN <<>>
         ELSE IF J[i - 1] THEN O[i - 1]
         ELSE Append(O[i - 1], IF J[i] THEN Merged(L[i], L[i + 1]) ELSE L[i])]
  BY JoinedExists DEF JoinedEqs
<1> HIDE DEF J, O
<1>2. O[0] = <<>>
  <2>1. 0 \in 0..n
    OBVIOUS
  <2> QED BY <1>1, <2>1
<1>3. ASSUME NEW i \in 1..n
      PROVE  /\ J[i - 1] => O[i] = O[i - 1]
             /\ ~ J[i - 1] /\ J[i] => O[i] = Append(O[i - 1], Merged(L[i], L[i + 1]))
             /\ ~ J[i - 1] /\ ~ J[i] => O[i] = Append(O[i - 1], L[i])
  <2>1. i \in 0..n /\ i # 0
    OBVIOUS
  <2> QED BY <1>1, <2>1
<1>4. \A i \in 1..n : L[i] \in S /\ Merged(L[i], L[i + 1]) \in S
  BY DEF Results
<1> HIDE DEF S
<1> DEFINE Good == {m \in Nat : m <= n => O[m] \in Seq(S)}
<1>5. 0 \in Good
  BY <1>2, EmptySeq
<1>6. ASSUME NEW m \in Nat, m \in Good PROVE m + 1 \in Good
  <2> SUFFICES ASSUME m + 1 <= n PROVE O[m + 1] \in Seq(S)
    OBVIOUS
  <2> DEFINE h == m + 1
  <2>1. O[m] \in Seq(S) /\ h \in 1..n /\ h - 1 = m
    BY <1>6
  <2> HIDE DEF h
  <2>2. \/ O[h] = O[m]
        \/ O[h] = Append(O[m], Merged(L[h], L[h + 1]))
        \/ O[h] = Append(O[m], L[h])
    BY <1>3, <2>1
  <2>3. \A x \in S : Append(O[m], x) \in Seq(S)
    BY <2>1, AppendProperties
  <2>4. O[h] \in Seq(S)
    BY <1>4, <2>1, <2>2, <2>3
  <2> QED BY <2>4 DEF h
<1>7. Nat \subseteq Good
  <2> HIDE DEF Good
  <2> QED BY <1>5, <1>6, NatSetInduction
<1>8. \A i \in 0..n : O[i] \in Seq(S)
  BY <1>7
<1> QED BY <1>2, <1>3, <1>8 DEF J, O, S

\* What was put out stays.
LEMMA JoinedPrefix ==
  ASSUME NEW L, Len(L) \in Nat, NEW k \in 0..Len(L), NEW j \in 0..k
  PROVE  /\ Len(Joined(L)[j]) \in Nat /\ Len(Joined(L)[k]) \in Nat
         /\ Len(Joined(L)[j]) <= Len(Joined(L)[k])
         /\ \A i \in 1..Len(Joined(L)[j]) : Joined(L)[k][i] = Joined(L)[j][i]
<1> DEFINE O == Joined(L)
           J == Joining(L)
           n == Len(L)
           S == Results(L)
           P(m) == /\ Len(O[j]) <= Len(O[m])
                   /\ \A i \in 1..Len(O[j]) : O[m][i] = O[j][i]
           Good == {m \in Nat : j + m <= n => P(j + m)}
<1>1. /\ \A i \in 0..n : O[i] \in Seq(S) /\ Len(O[i]) \in Nat
      /\ \A i \in 1..n : O[i] = O[i - 1] \/ \E x \in S : O[i] = Append(O[i - 1], x)
  <2>1. \A i \in 1..n : L[i] \in S /\ Merged(L[i], L[i + 1]) \in S
    BY DEF Results
  <2> HIDE DEF S
  <2>2. \A i \in 0..n : O[i] \in Seq(S)
    BY JoinedFacts DEF S
  <2>3. \A i \in 1..n : O[i] = O[i - 1] \/ O[i] = Append(O[i - 1], Merged(L[i], L[i + 1]))
                        \/ O[i] = Append(O[i - 1], L[i])
    BY JoinedFacts
  <2> HIDE DEF O
  <2>4. \A i \in 0..n : Len(O[i]) \in Nat
    BY <2>2, LenProperties
  <2> QED BY <2>1, <2>2, <2>3, <2>4
<1> HIDE DEF O, S
<1>2. 0 \in Good
  BY <1>1
<1>3. ASSUME NEW m \in Nat, m \in Good PROVE m + 1 \in Good
  <2> SUFFICES ASSUME j + (m + 1) <= n PROVE P(j + (m + 1))
    OBVIOUS
  <2> DEFINE h == j + (m + 1)
             a == O[h - 1]
  <2>1. P(h - 1) /\ h \in 1..n /\ h - 1 \in 0..n /\ j \in 0..n
    <3>1. P(j + m) /\ h - 1 = j + m
      BY <1>3
    <3> HIDE DEF P
    <3> QED BY <3>1
  <2>2. a \in Seq(S) /\ Len(a) \in Nat /\ Len(O[j]) \in Nat /\ Len(O[j]) <= Len(a)
        /\ \A i \in 1..Len(O[j]) : a[i] = O[j][i]
    BY <1>1, <2>1
  <2>3. O[h] = a \/ \E x \in S : O[h] = Append(a, x)
    BY <1>1, <2>1
  <2> HIDE DEF h, a
  <2>4. CASE O[h] = a
    BY <2>2, <2>4 DEF h
  <2>5. ASSUME NEW x \in S, O[h] = Append(a, x) PROVE P(h)
    <3>1. Len(O[h]) = Len(a) + 1 /\ \A i \in 1..Len(a) : O[h][i] = a[i]
      BY <2>2, <2>5, AppendProperties
    <3>2. \A i \in 1..Len(O[j]) : i \in 1..Len(a)
      BY <2>2
    <3> QED BY <2>2, <3>1, <3>2
  <2> HIDE DEF P
  <2> QED BY <2>3, <2>4, <2>5 DEF h
<1>4. Nat \subseteq Good
  <2> HIDE DEF Good
  <2> QED BY <1>2, <1>3, NatSetInduction
<1>5. P(k)
  <2>1. k - j \in Nat /\ j + (k - j) = k /\ k <= n
    OBVIOUS
  <2> HIDE DEF P
  <2> QED BY <1>4, <2>1
<1>6. Len(O[j]) \in Nat /\ Len(O[k]) \in Nat
  BY <1>1
<1> QED BY <1>5, <1>6 DEF O

-----------------------------------------------------------------------------
(* Rows that agree with the events.                                        *)

\* The first p lines are those of the first q events.
Exact(L, E, p, q) ==
  /\ Len(LogsOf(E, 0)[q]) = p
  /\ \A h \in 1..p : At0(L[h]) = LogsOf(E, 0)[q][h]

Shown(r, e) == r.pc = e.pc /\ r.ins = e.ins /\ r.touch = e.touch

\* The lines of one more event.
LEMMA Advance ==
  ASSUME NEW E \in Seq(Events), NEW q \in 1..Len(E), NEW p \in Nat, NEW L,
         Exact(L, E, p, q - 1),
         \A m \in 1..Size(E[q]) : At0(L[p + m]) = Logged(0, E[q])[m]
  PROVE  Exact(L, E, p + Size(E[q]), q)
<1> DEFINE Z == LogsOf(E, 0)
           s == Z[q - 1]
           t == Logged(0, E[q])
           k == Size(E[q])
<1>1. E[q] \in Events /\ q - 1 \in 0..Len(E) /\ k \in Nat /\ 0 * q = 0
  BY LenProperties DEF Size
<1>2. s \in Seq(Lines) /\ Z[q] = s \o Logged(0 * q, E[q])
  <2>1. 0 \in Nat
    OBVIOUS
  <2> QED BY <1>1, <2>1, LogFacts
<1>3. t \in Seq(Lines) /\ Len(t) = k
  BY <1>1, LoggedFacts
<1>4. Z[q] = s \o t
  BY <1>1, <1>2
<1>5. Len(s) = p /\ \A h \in 1..p : At0(L[h]) = s[h]
  BY DEF Exact
<1> HIDE DEF Z, s, t, k
<1>6. /\ Len(s \o t) = Len(s) + Len(t)
      /\ \A i \in 1..Len(s) : (s \o t)[i] = s[i]
      /\ \A i \in 1..Len(t) : (s \o t)[Len(s) + i] = t[i]
  <2>1. s \in Seq(Lines) /\ t \in Seq(Lines)
    BY <1>2, <1>3
  <2> QED BY <2>1, Concat
<1>7. Len(Z[q]) = p + k
  BY <1>3, <1>4, <1>5, <1>6
<1>8. ASSUME NEW h \in 1..(p + k) PROVE At0(L[h]) = Z[q][h]
  <2>1. CASE h <= p
    <3>1. h \in 1..p
      BY <1>1, <2>1
    <3> QED BY <1>4, <1>5, <1>6, <3>1
  <2>2. CASE ~ h <= p
    <3> DEFINE m == h - p
    <3>1. m \in 1..k /\ h = p + m
      BY <1>1, <2>2
    <3> HIDE DEF m
    <3>2. At0(L[p + m]) = t[m]
      BY <3>1 DEF t, k
    <3>3. (s \o t)[p + m] = t[m]
      BY <1>3, <1>5, <1>6, <3>1
    <3> QED BY <1>4, <3>1, <3>2, <3>3
  <2> QED BY <2>1, <2>2
<1> QED BY <1>7, <1>8 DEF Exact, Z, k

\* The record of a line.
LEMMA LineRecord ==
  ASSUME NEW l \in Lines
  PROVE  /\ l = [cyc |-> l.cyc, pc |-> l.pc, ins |-> l.ins, touch |-> l.touch]
         /\ At0(l) = [cyc |-> 0, pc |-> l.pc, ins |-> l.ins, touch |-> l.touch]
BY DEF Lines, At0

\* The touch of a store.
LEMMA StoreRecord ==
  ASSUME NEW l \in Lines, IsStore(l)
  PROVE  /\ l.touch = Mem(l.touch[1].at, Dig(l))
         /\ Dig(l) \in Word /\ Upper(l) \in {0, 2, 4, 6} /\ Upper(l) \in 0..Digits
<1>1. l.touch \in Seq(Touch)
  BY DEF Lines
<1>2. /\ l.touch[1] \in Touch /\ l.touch[1].what = "mem" /\ Dig(l) \in Word
      /\ Upper(l) \in {0, 2, 4, 6} /\ Upper(l) \in 0..Digits
  BY <1>1, StoreFacts DEF Dig
<1>3. l.touch[1] = [what |-> "mem", at |-> l.touch[1].at, dig |-> Dig(l)]
  BY <1>2 DEF Touch, Dig
<1>4. Len(l.touch) = 1
  BY DEF IsStore
<1> DEFINE x == l.touch
           y == Mem(l.touch[1].at, Dig(l))
<1>5. y[1] = x[1] /\ Len(y) = 1 /\ y \in Seq(Touch)
  <2>1. y = <<x[1]>>
    BY <1>3 DEF Mem
  <2> HIDE DEF y
  <2>2. x[1] \in Touch
    BY <1>2
  <2> QED BY <2>1, <2>2
<1> HIDE DEF x, y
<1>6. x = y
  <2>1. x \in Seq(Touch) /\ Len(x) = 1
    BY <1>1, <1>4 DEF x
  <2> QED BY <1>5, <2>1, SeqEqual
<1> QED BY <1>2, <1>6 DEF x, y

\* One line that agrees with an event is all the lines of the event.
LEMMA SingleStep ==
  ASSUME NEW l, Whole(l), NEW e \in Events, Joins(e), Shown(l, e)
  PROVE  Size(e) = 1 /\ At0(l) = Logged(0, e)[1]
<1>1. l.touch = e.touch /\ l \in Lines
  BY DEF Shown, Whole
<1>2. IsStore(l) = IsStore(e) /\ Splits(l) = Splits(e) /\ Upper(l) = Upper(e)
      /\ Dig(l) = e.touch[1].dig
  BY <1>1 DEF IsStore, Splits, Upper, Dig
<1>3. ~ Splits(e)
  <2> SUFFICES ASSUME Splits(e) PROVE FALSE
    OBVIOUS
  <2>1. Upper(l) \in {2, 4} /\ \E k \in Widths(l) : EndsIn(Dig(l), k)
    BY <1>2 DEF Whole
  <2>2. Digits \in Nat /\ Digits >= 8
    BY TracesAssumption
  <2>3. PICK k \in Widths(l) : EndsIn(Dig(l), k)
    BY <2>1
  <2>4. 1 \in 1..(Digits - k)
    BY <2>1, <2>2, <2>3 DEF Widths
  <2>5. Dig(l)[1] = 0
    BY <2>3, <2>4 DEF EndsIn
  <2>6. e.touch[1].dig[1] # 0
    BY DEF Joins, Splits
  <2> QED BY <1>2, <2>5, <2>6
<1>4. Logged(0, e) = <<Event(0, e)>>
  <2>1. 0 \in Int
    OBVIOUS
  <2> QED BY <1>3, <2>1, LoggedFacts
<1>5. At0(l) = Event(0, e)
  BY <1>1, LineRecord DEF Event, Shown
<1> QED BY <1>3, <1>4, <1>5 DEF Size

\* What the merge changes.
LEMMA MergedIs ==
  ASSUME NEW l \in Lines, NEW m
  PROVE  /\ Merged(l, m).pc = l.pc /\ Merged(l, m).ins = l.ins
         /\ Merged(l, m).cyc = l.cyc
         /\ Merged(l, m).touch = Mem(l.touch[1].at, Both(Dig(m), Dig(l), Digits - Upper(l)))
<1> DEFINE t == Mem(l.touch[1].at, Both(Dig(m), Dig(l), Digits - Upper(l)))
<1>1. Merged(l, m) = [l EXCEPT !.touch = t]
  BY DEF Merged, Both, Dig, Upper
<1> HIDE DEF t
<1>2. l = [cyc |-> l.cyc, pc |-> l.pc, ins |-> l.ins, touch |-> l.touch]
  BY LineRecord
<1>3. Merged(l, m).pc = l.pc /\ Merged(l, m).ins = l.ins /\ Merged(l, m).touch = t
      /\ Merged(l, m).cyc = l.cyc
  BY <1>1, <1>2
<1> QED BY <1>3 DEF t

\* The merged line is a store.
LEMMA MemIs ==
  ASSUME NEW e, NEW a, NEW d, e.touch = Mem(a, d)
  PROVE  IsStore(e) /\ e.touch[1].at = a /\ e.touch[1].dig = d
<1>1. e.touch = <<[what |-> "mem", at |-> a, dig |-> d]>>
  BY DEF Mem
<1>2. Len(e.touch) = 1 /\ e.touch[1] = [what |-> "mem", at |-> a, dig |-> d]
  BY <1>1
<1> QED BY <1>2 DEF IsStore

\* Two lines that are put together and agree with an event are its halves.
LEMMA PairStep ==
  ASSUME NEW l, NEW m, Whole(l), Whole(m), SameStore(l, m), HalfPair(l, m),
         NEW e \in Events, Shown(Merged(l, m), e)
  PROVE  /\ Size(e) = 2
         /\ At0(l) = Logged(0, e)[1] /\ At0(m) = Logged(0, e)[2]
<1>1. l \in Lines /\ m \in Lines /\ IsStore(l) /\ IsStore(m) /\ l.pc = m.pc /\ l.ins = m.ins
  BY DEF Whole, SameStore
<1>2. e.pc = l.pc /\ e.ins = l.ins
      /\ e.touch = Mem(l.touch[1].at, Both(Dig(m), Dig(l), Digits - Upper(l)))
  BY <1>1, MergedIs DEF Shown
<1>3. /\ IsStore(e) /\ e.touch[1].at = l.touch[1].at
      /\ e.touch[1].dig = Both(Dig(m), Dig(l), Digits - Upper(l))
  BY <1>2, MemIs
<1>4. Splits(e) /\ Upper(e) = Upper(l) /\ Upper(e) \in {2, 4}
  BY <1>3 DEF HalfPair, Splits, Upper, Whole
<1>5. PICK j, k \in Widths(l) : /\ EndsIn(Dig(m), j) /\ EndsIn(Dig(l), k)
                                /\ k = Digits - Upper(l) \/ j = Upper(l)
  BY DEF HalfPair
<1>6. Dig(l) \in Word /\ Dig(m) \in Word
  BY <1>1, StoreRecord
<1>7. Dig(l) = LowDigits(e) /\ Dig(m) = HighDigits(e)
  <2>1. j \in {Upper(e), Digits - Upper(e)} /\ k \in {Upper(e), Digits - Upper(e)}
    BY <1>4, <1>5 DEF Widths
  <2> QED BY <1>3, <1>4, <1>5, <1>6, <2>1, MergeRight
<1>8. /\ Logged(0, e)[1] = HalfLine(0, e, LowDigits(e))
      /\ Logged(0, e)[2] = HalfLine(0, e, HighDigits(e))
  <2>1. 0 \in Int
    OBVIOUS
  <2> QED BY <1>4, <2>1, LoggedFacts
<1>9. l.touch = Mem(e.touch[1].at, Dig(l)) /\ m.touch = Mem(e.touch[1].at, Dig(m))
  BY <1>1, <1>3, StoreRecord DEF HalfPair
<1>10. At0(l) = HalfLine(0, e, LowDigits(e))
  BY <1>1, <1>2, <1>7, <1>9, LineRecord DEF HalfLine
<1>11. At0(m) = HalfLine(0, e, HighDigits(e))
  BY <1>1, <1>2, <1>7, <1>9, LineRecord DEF HalfLine
<1> QED BY <1>4, <1>8, <1>10, <1>11 DEF Size

\* A word that was logged twice agrees with no event that logs it.
LEMMA RepeatStep ==
  ASSUME NEW l, Whole(l), IsStore(l), ~ Splits(l), NEW e \in Events,
         l.touch = e.touch, Shown(Merged(l, l), e)
  PROVE  FALSE
<1>1. l \in Lines /\ Dig(l) \in Word
  BY StoreRecord DEF Whole
<1>2. e.touch = Mem(l.touch[1].at, Both(Dig(l), Dig(l), Digits - Upper(l)))
  BY <1>1, MergedIs DEF Shown
<1>3. e.touch[1].dig = Both(Dig(l), Dig(l), Digits - Upper(l))
  BY <1>2, MemIs
<1>4. Digits - Upper(l) = Digits
  BY TracesAssumption DEF Splits, Upper
<1>5. Dig(l) = Both(Dig(l), Dig(l), Digits)
  BY <1>3, <1>4 DEF Dig
<1> QED BY <1>1, <1>5, TwiceWrong

\* Where the log is right, the next line is of the next event.
LEMMA NextLine ==
  ASSUME NEW E \in Seq(Events), NEW q \in 1..Len(E),
         NEW i \in 1..Len(LogsOf(E, 2)[Len(E)]),
         Len(LogsOf(E, 0)[q - 1]) = i - 1, ~ Splits(LogsOf(E, 2)[Len(E)][i])
  PROVE  LogsOf(E, 2)[Len(E)][i].touch = E[q].touch
<1> DEFINE L == LogsOf(E, 2)
           Z == LogsOf(E, 0)
           N == Len(E)
           l == L[N][i]
           p(j) == Len(L[j - 1])
<1>0. 2 \in Nat /\ 0 \in Nat
  OBVIOUS
<1>1. N \in Nat /\ \A n \in 1..N : E[n] \in Events
  BY LenProperties
<1>2. PICK j \in 1..N : i - p(j) \in 1..Size(E[j]) /\ p(j) \in Nat /\ l = Logged(2 * j, E[j])[i - p(j)]
  BY <1>0, LogWhere
<1> DEFINE c == 2 * j
           e == E[j]
           m == i - p(j)
<1>3. c \in Int /\ e \in Events /\ l = Logged(c, e)[m] /\ m \in 1..Size(e)
  BY <1>1, <1>2
<1> HIDE DEF l, c, e, m
<1>4. ~ Splits(e)
  <2> SUFFICES ASSUME Splits(e) PROVE FALSE
    OBVIOUS
  <2>1. m \in {1, 2}
    BY <1>3 DEF Size
  <2>2. /\ Logged(c, e)[1] = HalfLine(c, e, LowDigits(e))
        /\ Logged(c, e)[2] = HalfLine(c, e, HighDigits(e))
    BY <1>3, LoggedFacts
  <2>3. Splits(HalfLine(c, e, LowDigits(e))) /\ Splits(HalfLine(c, e, HighDigits(e)))
    BY <1>3, HalfIs
  <2>4. Splits(l)
    BY <1>3, <2>1, <2>2, <2>3
  <2> QED BY <2>4 DEF l
<1>5. m = 1 /\ l.touch = e.touch
  <2>1. m = 1
    BY <1>3, <1>4 DEF Size
  <2>2. Logged(c, e) = <<Event(c, e)>>
    BY <1>3, <1>4, LoggedFacts
  <2>3. l = Event(c, e)
    BY <1>3, <2>1, <2>2
  <2> QED BY <2>1, <2>3 DEF Event
<1>6. Len(Z[j - 1]) = Len(Z[q - 1])
  <2>1. j - 1 \in 0..N
    BY <1>1
  <2>2. Len(Z[j - 1]) = p(j)
    BY <2>1, LogBare
  <2>3. i \in Int
    BY <1>2 
  <2>4. p(j) = i - 1
    BY <1>2, <1>5, <2>3 DEF m
  <2> QED BY <2>2, <2>4
<1>7. j = q
  <2> DEFINE a == j - 1
             b == q - 1
  <2>1. a \in 0..N /\ b \in 0..N /\ a \in Nat /\ b \in Nat
    BY <1>1
  <2> HIDE DEF a, b
  <2>2. ~ a < b
    <3> SUFFICES ASSUME a < b PROVE FALSE
      OBVIOUS
    <3>1. a \in 0..b
      BY <2>1
    <3>2. Len(Z[a]) \in Nat /\ Len(Z[a]) < Len(Z[b])
      BY <1>0, <2>1, <3>1, LogPrefix
    <3> QED BY <1>6, <3>2 DEF a, b
  <2>3. ~ b < a
    <3> SUFFICES ASSUME b < a PROVE FALSE
      OBVIOUS
    <3>1. b \in 0..a
      BY <2>1
    <3>2. Len(Z[b]) \in Nat /\ Len(Z[b]) < Len(Z[a])
      BY <1>0, <2>1, <3>1, LogPrefix
    <3> QED BY <1>6, <3>2 DEF a, b
  <2>4. a = b
    BY <2>1, <2>2, <2>3
  <2> QED BY <1>1, <2>4 DEF a, b
<1> QED BY <1>5, <1>7 DEF l, e

Agreed(E, rows) == Len(rows) >= Len(E) /\ \A j \in 1..Len(E) : Shown(rows[j], E[j])

\* The lines that are put together agree with the events: then the lines
\* themselves are those of the events.
LEMMA PassFollows ==
  ASSUME NEW E \in Seq(Events), Joinable(E), NEW L, Sound(L, LogsOf(E, 2)[Len(E)]),
         NEW k \in 0..Len(L), \A i \in 1..k : Whole(L[i]), ~ Joining(L)[k],
         Agreed(E, Joined(L)[k])
  PROVE  \E p \in 0..k : Exact(L, E, p, Len(E))
<1> DEFINE R == LogsOf(E, 2)[Len(E)]
           O == Joined(L)
           J == Joining(L)
           N == Len(E)
           n == Len(L)
           Inv(i) == /\ Len(O[i]) <= N => Exact(L, E, i, Len(O[i]))
                     /\ Len(O[i]) >= N => \E p \in 0..i : Exact(L, E, p, N)
           P(i) == i <= k /\ ~ J[i] => Inv(i)
           Good == {m \in Nat : \A i \in 0..m : P(i)}
<1>1. N \in Nat /\ n \in Nat /\ k \in Nat /\ k <= n
  BY LenProperties DEF Sound
<1>2. \A j \in 1..N : E[j] \in Events /\ Joins(E[j])
  BY LenProperties DEF Joinable
<1>3. /\ O[0] = <<>>
      /\ \A i \in 0..n : O[i] \in Seq(Results(L)) /\ Len(O[i]) \in Nat
  BY <1>1, JoinedFacts, LenProperties
<1>4. \A i \in 1..n : L[i] \in Results(L) /\ Merged(L[i], L[i + 1]) \in Results(L)
  BY DEF Results
<1>5. ASSUME NEW i \in 0..k, NEW q \in 1..N, q = Len(O[i])
      PROVE  Shown(O[i][q], E[q])
  <2>1. k \in 0..n /\ q \in 1..Len(O[i])
    BY <1>1, <1>5
  <2>2. O[k][q] = O[i][q]
    BY <1>1, <2>1, JoinedPrefix
  <2>3. Shown(O[k][q], E[q])
    BY DEF Agreed
  <2> QED BY <2>2, <2>3
<1> HIDE DEF O, J, R
<1>6. P(0)
  <2>1. Len(O[0]) = 0
    BY <1>3, EmptySeq
  <2>2. Exact(L, E, 0, 0)
    <3>1. LogsOf(E, 0)[0] = <<>>
      <4>1. 0 \in Nat
        OBVIOUS
      <4> QED BY <4>1, LogFacts
    <3>2. Len(LogsOf(E, 0)[0]) = 0
      BY <3>1, EmptySeq
    <3> QED BY <3>2 DEF Exact
  <2>3. 0 \in 0..0
    OBVIOUS
  <2>4. 0 >= N => N = 0
    BY <1>1
  <2> QED BY <2>1, <2>2, <2>3, <2>4
\* Where one more row comes out, and it is of the next event.
<1>7. ASSUME NEW i \in 1..k, NEW p \in 0..(i - 1), Inv(p), Len(O[i]) = Len(O[p]) + 1,
             ASSUME Len(O[i]) \in 1..N, Exact(L, E, p, Len(O[i]) - 1)
             PROVE  Exact(L, E, i, Len(O[i]))
      PROVE  Inv(i)
  <2> DEFINE q == Len(O[i])
             r == Len(O[p])
  <2>1. r \in Nat /\ q = r + 1 /\ q \in Nat /\ q >= 1 /\ q - 1 = r
    BY <1>1, <1>3, <1>7
  <2>2. ASSUME q <= N PROVE Exact(L, E, i, q)
    <3>1. q \in 1..N /\ r <= N
      BY <1>1, <2>1, <2>2
    <3>2. Exact(L, E, p, r)
      BY <1>7, <3>1
    <3>3. Exact(L, E, p, q - 1)
      BY <2>1, <3>2
    <3> QED BY <1>7, <3>1, <3>3
  <2>3. ASSUME q >= N PROVE \E h \in 0..i : Exact(L, E, h, N)
    <3>1. i \in 0..i
      BY <1>1
    <3>2. CASE q = N
      <4>1. Exact(L, E, i, N)
        BY <1>1, <2>2, <3>2
      <4> QED BY <3>1, <4>1
    <3>3. CASE q # N
      <4>1. r >= N
        BY <1>1, <2>1, <2>3, <3>3
      <4>2. PICK h \in 0..p : Exact(L, E, h, N)
        BY <1>7, <4>1
      <4>3. h \in 0..i
        BY <1>1
      <4> QED BY <4>2, <4>3
    <3> QED BY <3>2, <3>3
  <2> QED BY <2>2, <2>3
\* A line alone.
<1>8. ASSUME NEW i \in 1..k, ~ J[i - 1], ~ J[i], Inv(i - 1) PROVE Inv(i)
  <2> DEFINE p == i - 1
             q == Len(O[i])
  <2>1. i \in 1..n /\ p \in 0..n /\ p \in 0..(i - 1) /\ i \in 0..k /\ p \in Nat
    BY <1>1
  <2>2. O[i] = Append(O[p], L[i])
    BY <1>1, <1>8, <2>1, JoinedFacts DEF O, J
  <2>3. q = Len(O[p]) + 1 /\ O[i][q] = L[i]
    BY <1>3, <1>4, <2>1, <2>2, AppendProperties
  <2>4. ASSUME q \in 1..N, Exact(L, E, p, q - 1) PROVE Exact(L, E, i, q)
    <3> HIDE DEF p, q
    <3>1. q = Len(O[i]) /\ i = p + 1
      BY <2>1 DEF p, q
    <3>2. Shown(L[i], E[q])
      BY <1>5, <2>1, <2>3, <2>4, <3>1
    <3>3. Size(E[q]) = 1 /\ At0(L[i]) = Logged(0, E[q])[1]
      BY <1>2, <2>4, <3>2, SingleStep
    <3>4. \A m \in 1..Size(E[q]) : At0(L[p + m]) = Logged(0, E[q])[m]
      BY <3>1, <3>3
    <3>5. Exact(L, E, p + Size(E[q]), q)
      BY <2>1, <2>4, <3>4, Advance
    <3> QED BY <3>1, <3>3, <3>5
  <2> HIDE DEF Inv
  <2> QED BY <1>7, <1>8, <2>1, <2>3, <2>4
\* Two lines that were put together.
<1>9. ASSUME NEW i \in 1..k, i >= 2, J[i - 1], Inv(i - 2) PROVE Inv(i)
  <2> DEFINE p == i - 2
             h == i - 1
             q == Len(O[i])
  <2>1. i \in 1..n /\ h \in 1..n /\ p \in 0..n /\ p \in 0..(i - 1) /\ i \in 0..k /\ p \in Nat
        /\ h \in 1..k /\ h - 1 = p /\ h + 1 = i /\ h \in 1..(n - 1) /\ i = p + 2 /\ h = p + 1
    BY <1>1, <1>9
  <2> HIDE DEF h, p
  <2>2. ~ J[p] /\ SameStore(L[h], L[i]) /\ J[h]
    <3>1. J[h]
      BY <1>9 DEF h
    <3>2. J[h] <=> h < n /\ ~ J[h - 1] /\ SameStore(L[h], L[h + 1])
      BY <1>1, <2>1, TakesFacts DEF J
    <3> QED BY <2>1, <3>1, <3>2
  <2>3. O[i] = Append(O[p], Merged(L[h], L[i]))
    <3>1. O[i] = O[h]
      <4>1. J[i - 1]
        BY <1>9
      <4>2. O[i] = O[i - 1]
        BY <1>1, <2>1, <4>1, JoinedFacts DEF O, J
      <4> QED BY <4>2 DEF h
    <3>2. O[h] = Append(O[h - 1], Merged(L[h], L[h + 1]))
      <4>1. ~ J[h - 1]
        BY <2>1, <2>2
      <4> QED BY <1>1, <2>1, <2>2, <4>1, JoinedFacts DEF O, J
    <3> QED BY <2>1, <3>1, <3>2
  <2>4. q = Len(O[p]) + 1 /\ O[i][q] = Merged(L[h], L[i])
    <3>1. Merged(L[h], L[i]) \in Results(L)
      BY <1>4, <2>1
    <3> QED BY <1>3, <2>1, <2>3, <3>1, AppendProperties
  <2>5. ASSUME q \in 1..N, Exact(L, E, p, q - 1) PROVE Exact(L, E, i, q)
    <3> HIDE DEF q
    <3>1. q = Len(O[i])
      BY DEF q
    <3>2. Shown(Merged(L[h], L[i]), E[q])
      BY <1>5, <2>1, <2>4, <2>5, <3>1
    <3>3. Whole(L[h]) /\ Whole(L[i]) /\ E[q] \in Events
      BY <1>2, <2>1, <2>5
    <3>4. HalfPair(L[h], L[i]) \/ Repeat(L, h, R)
      <4>1. SameStore(L[h], L[h + 1])
        BY <2>1, <2>2
      <4>2. HalfPair(L[h], L[h + 1]) \/ Repeat(L, h, R)
        BY <2>1, <4>1 DEF Sound, R
      <4> QED BY <2>1, <4>2
    <3>5. CASE HalfPair(L[h], L[i])
      <4>1. /\ Size(E[q]) = 2
            /\ At0(L[h]) = Logged(0, E[q])[1] /\ At0(L[i]) = Logged(0, E[q])[2]
        BY <2>2, <3>2, <3>3, <3>5, PairStep
      <4>2. \A m \in 1..Size(E[q]) : At0(L[p + m]) = Logged(0, E[q])[m]
        <5> TAKE m \in 1..Size(E[q])
        <5>1. (m = 1 /\ p + m = h) \/ (m = 2 /\ p + m = i)
          BY <2>1, <4>1
        <5> QED BY <4>1, <5>1
      <4>3. Exact(L, E, p + Size(E[q]), q)
        BY <2>1, <2>5, <4>2, Advance
      <4> QED BY <2>1, <4>1, <4>3
    <3>6. CASE Repeat(L, h, R)
      <4>1. h \in 1..Len(R) /\ R[h] = L[h] /\ L[i] = L[h] /\ ~ Splits(L[h])
        BY <2>1, <3>6 DEF Repeat
      <4>2. Len(LogsOf(E, 0)[q - 1]) = h - 1
        BY <2>1, <2>5 DEF Exact
      <4>3. L[h].touch = E[q].touch
        BY <2>5, <4>1, <4>2, NextLine DEF R
      <4>4. IsStore(L[h])
        BY <2>2 DEF SameStore
      <4> QED BY <3>2, <3>3, <4>1, <4>3, <4>4, RepeatStep
    <3> QED BY <3>4, <3>5, <3>6
  <2>6. Inv(p)
    BY <1>9 DEF p
  <2> HIDE DEF Inv
  <2> QED BY <1>7, <2>1, <2>4, <2>5, <2>6
<1> HIDE DEF Inv
<1>10. 0 \in Good
  BY <1>6
<1>11. ASSUME NEW m \in Nat, m \in Good PROVE m + 1 \in Good
  <2> DEFINE i == m + 1
  <2> SUFFICES ASSUME i <= k, ~ J[i] PROVE Inv(i)
    <3>1. \A h \in 0..(m + 1) : h \in 0..m \/ h = m + 1
      OBVIOUS
    <3> QED BY <1>11, <3>1
  <2>1. i \in 1..k /\ i - 1 = m /\ i - 1 \in 0..m /\ i - 1 <= k /\ i \in 1..n /\ i - 1 \in 0..n
    BY <1>1
  <2> HIDE DEF i
  <2>2. CASE ~ J[i - 1]
    <3>1. Inv(i - 1)
      BY <1>11, <2>1, <2>2
    <3> QED BY <1>8, <2>1, <2>2, <3>1
  <2>3. CASE J[i - 1]
    <3>1. i # 1
      <4> SUFFICES ASSUME i = 1 PROVE FALSE
        OBVIOUS
      <4>1. i - 1 = 0
        OBVIOUS
      <4> QED BY <1>1, <2>3, <4>1, TakesFacts DEF J
    <3>2. i >= 2 /\ i - 2 \in 0..m /\ i - 2 <= k /\ i - 1 \in 1..n /\ (i - 1) - 1 = i - 2
      BY <1>1, <2>1, <3>1
    <3>3. ~ J[i - 2]
      <4> DEFINE h == i - 1
      <4> HIDE DEF h
      <4>1. h \in 1..n /\ J[h]
        BY <2>3, <3>2 DEF h
      <4>2. ~ J[h - 1]
        BY <1>1, <4>1, TakesFacts DEF J
      <4> QED BY <3>2, <4>2 DEF h
    <3>4. Inv(i - 2)
      BY <1>11, <3>2, <3>3
    <3> QED BY <1>9, <2>1, <2>3, <3>2, <3>4
  <2> QED BY <2>2, <2>3
<1>12. Nat \subseteq Good
  <2> HIDE DEF Good
  <2> QED BY <1>10, <1>11, NatSetInduction
<1>13. Inv(k)
  <2>1. k \in Good /\ k \in 0..k
    BY <1>1, <1>12
  <2> QED BY <2>1 DEF J
<1>14. Len(O[k]) >= N
  BY DEF O, Agreed
<1> QED BY <1>13, <1>14 DEF Inv

-----------------------------------------------------------------------------
(* Whatever the simulators log, the comparison can judge.                  *)

\* No line of it is a NUL.
Clean(L) == \A i \in 1..Len(L) : L[i].cyc # -2

\* A log without a NUL is kept.
LEMMA ValidAll ==
  ASSUME NEW S, NEW L \in Seq(S), Clean(L)
  PROVE  ValidLines(L) = L
<1>1. DOMAIN L = 1..Len(L)
  BY LenProperties
<1>2. \A i \in 1..Len(L) : L[i] # Nul
  BY DEF Clean, Nul
<1> QED BY <1>1, <1>2 DEF ValidLines

\* What is behind a NUL does not count.
LEMMA ValidCut ==
  ASSUME NEW S, Nul \in S, NEW A \in Seq(S), NEW B \in Seq(S), Clean(A)
  PROVE  ValidLines(A \o <<Nul>> \o B) = A
<1> DEFINE a == Len(A)
           C == A \o <<Nul>>
           D == C \o B
           First(i) == D[i] = Nul /\ \A j \in 1..(i - 1) : D[j] # Nul
           f == CHOOSE i \in DOMAIN D : First(i)
<1>1. /\ C \in Seq(S) /\ Len(C) = a + 1 /\ C[a + 1] = Nul /\ a \in Nat
      /\ \A i \in 1..a : C[i] = A[i]
  <2>1. <<Nul>> \in Seq(S) /\ Len(<<Nul>>) = 1 /\ <<Nul>>[1] = Nul
    OBVIOUS
  <2> DEFINE o == <<Nul>>
  <2>2. o \in Seq(S) /\ Len(o) = 1 /\ o[1] = Nul
    BY <2>1
  <2> HIDE DEF o
  <2>3. /\ A \o o \in Seq(S) /\ Len(A \o o) = a + Len(o) /\ a \in Nat
        /\ \A i \in 1..a : (A \o o)[i] = A[i]
        /\ \A i \in 1..Len(o) : (A \o o)[a + i] = o[i]
    <3>1. A \in Seq(S) /\ o \in Seq(S)
      BY <2>2
    <3> QED BY <3>1, Concat
  <2>4. C = A \o o
    BY DEF o
  <2> QED BY <2>2, <2>3, <2>4
<1> HIDE DEF C
<1>2. /\ D \in Seq(S) /\ Len(D) = Len(C) + Len(B) /\ Len(B) \in Nat
      /\ \A i \in 1..Len(C) : D[i] = C[i]
  BY <1>1, Concat
<1> HIDE DEF D
<1>3. DOMAIN D = 1..Len(D)
  BY <1>2, LenProperties
<1>4. a + 1 \in DOMAIN D /\ D[a + 1] = Nul
  BY <1>1, <1>2, <1>3
<1>5. \A i \in 1..a : i \in DOMAIN D /\ D[i] = A[i] /\ D[i] # Nul
  <2> TAKE i \in 1..a
  <2>1. D[i] = A[i] /\ i \in DOMAIN D
    BY <1>1, <1>2, <1>3
  <2>2. A[i].cyc # -2
    BY DEF Clean
  <2>3. A[i] # Nul
    BY <2>2 DEF Nul
  <2> QED BY <2>1, <2>3
<1>6. First(a + 1)
  <2>1. a + 1 - 1 = a
    BY <1>1
  <2> QED BY <1>4, <1>5, <2>1
<1>7. f \in DOMAIN D /\ First(f)
  BY <1>4, <1>6
<1>8. f = a + 1
  <2>1. f \in Int /\ f >= 1
    BY <1>2, <1>3, <1>7
  <2>2. ~ f < a + 1
    <3> SUFFICES ASSUME f < a + 1 PROVE FALSE
      OBVIOUS
    <3>1. f \in 1..a
      BY <1>1, <2>1
    <3> QED BY <1>5, <1>7, <3>1
  <2>3. ~ a + 1 < f
    <3> SUFFICES ASSUME a + 1 < f PROVE FALSE
      OBVIOUS
    <3>1. a + 1 \in 1..(f - 1)
      BY <1>1, <2>1
    <3> QED BY <1>4, <1>7, <3>1
  <2> QED BY <1>1, <2>1, <2>2, <2>3
<1>9. ValidLines(D) = SubSeq(D, 1, f - 1)
  BY <1>4 DEF ValidLines
<1> HIDE DEF f
<1>10. SubSeq(D, 1, a) = A
  <2>1. 1 \in 1..(Len(D) + 1) /\ a \in (1 - 1)..Len(D)
    BY <1>1, <1>2
  <2>2. /\ SubSeq(D, 1, a) \in Seq(S) /\ Len(SubSeq(D, 1, a)) = a - 1 + 1
        /\ \A i \in 1..(a - 1 + 1) : SubSeq(D, 1, a)[i] = D[1 + i - 1]
    BY <1>2, <2>1, SubFacts
  <2>3. \A i \in 1..a : SubSeq(D, 1, a)[i] = A[i]
    BY <1>1, <1>5, <2>2
  <2>4. Len(SubSeq(D, 1, a)) = a
    BY <1>1, <2>2
  <2> HIDE DEF a
  <2> QED BY <2>2, <2>3, <2>4, SeqEqual DEF a
<1>11. f - 1 = a
  BY <1>1, <1>8
<1> QED BY <1>9, <1>10, <1>11 DEF D, C

\* What is put together is no NUL.
LEMMA CleanResults ==
  ASSUME NEW L \in Seq(Lines), Clean(L)
  PROVE  \A x \in Results(L) : x.cyc # -2
<1>1. \A i \in 1..Len(L) : L[i] \in Lines /\ L[i].cyc # -2
  BY LenProperties DEF Clean
<1>2. \A i \in 1..Len(L) : Merged(L[i], L[i + 1]).cyc = L[i].cyc
  BY <1>1, MergedIs
<1> QED BY <1>1, <1>2 DEF Results

\* What is put out is a line or two that were put together.
LEMMA JoinedIn ==
  ASSUME NEW L, Len(L) \in Nat, NEW k \in 0..Len(L), NEW S,
         \A i \in 1..k : L[i] \in S /\ Merged(L[i], L[i + 1]) \in S
  PROVE  Joined(L)[k] \in Seq(S)
<1> DEFINE O == Joined(L)
           Good == {m \in Nat : m <= k => O[m] \in Seq(S)}
<1>1. /\ O[0] = <<>>
      /\ \A i \in 1..k : \/ O[i] = O[i - 1]
                         \/ O[i] = Append(O[i - 1], Merged(L[i], L[i + 1]))
                         \/ O[i] = Append(O[i - 1], L[i])
  <2>1. \A i \in 1..k : i \in 1..Len(L)
    OBVIOUS
  <2> QED BY <2>1, JoinedFacts
<1> HIDE DEF O
<1>2. 0 \in Good
  <2>1. <<>> \in Seq(S)
    OBVIOUS
  <2> QED BY <1>1, <2>1
<1>3. ASSUME NEW m \in Nat, m \in Good PROVE m + 1 \in Good
  <2> SUFFICES ASSUME m + 1 <= k PROVE O[m + 1] \in Seq(S)
    OBVIOUS
  <2> DEFINE h == m + 1
  <2>1. O[m] \in Seq(S) /\ h \in 1..k /\ h - 1 = m
    BY <1>3
  <2> HIDE DEF h
  <2>2. \/ O[h] = O[m] \/ O[h] = Append(O[m], Merged(L[h], L[h + 1]))
        \/ O[h] = Append(O[m], L[h])
    BY <1>1, <2>1
  <2>3. \A x \in S : Append(O[m], x) \in Seq(S)
    BY <2>1, AppendProperties
  <2>4. O[h] \in Seq(S)
    BY <2>1, <2>2, <2>3
  <2> QED BY <2>4 DEF h
<1>4. Nat \subseteq Good
  <2> HIDE DEF Good
  <2> QED BY <1>2, <1>3, NatSetInduction
<1> QED BY <1>4 DEF O

\* A log the comparison can judge, by the log of a correct core.
Fine(L, R) == Sound(L, R) /\ Clean(L)

\* The lines of a correct core.
LEMMA RtlFacts ==
  ASSUME NEW E \in Seq(Events), Joinable(E)
  PROVE  /\ LogsOf(E, 2)[Len(E)] \in Seq(Lines)
         /\ \A i \in 1..Len(LogsOf(E, 2)[Len(E)]) :
              /\ Whole(LogsOf(E, 2)[Len(E)][i])
              /\ LogsOf(E, 2)[Len(E)][i].cyc \in Nat
<1>1. 2 \in Nat /\ Len(E) \in 0..Len(E)
  BY LenProperties
<1>2. LogsOf(E, 2)[Len(E)] \in Seq(Lines)
  BY <1>1, LogFacts
<1> QED BY <1>2, RtlLine

\* A line is like itself.
LEMMA LikeSelf ==
  ASSUME NEW l, Whole(l)
  PROVE  Like(l, l)
BY DEF Whole, Like

\* A digit of a line that is wrong.
LEMMA WrongLike ==
  ASSUME NEW l, Whole(l)
  PROVE  Like(Wrong(l), l)
<1> DEFINE s == l.touch
           n == Len(s)
           d == s[n].dig
           g == [d EXCEPT ![Len(d)] = 15 - d[Len(d)]]
           x == [s[n] EXCEPT !.dig = g]
           r == [s EXCEPT ![n] = x]
<1>1. /\ l \in Lines /\ s \in Seq(Touch) /\ n \in Nat /\ n # 0
      /\ DOMAIN s = 1..n /\ \A i \in 1..n : s[i] \in Touch
  <2>1. l \in Lines /\ s \in Seq(Touch) /\ s # <<>>
    BY DEF Whole, Lines
  <2> QED BY <2>1, LenProperties, EmptySeq
<1>2. Wrong(l) = [l EXCEPT !.touch = r]
  BY DEF Wrong
<1>3. d \in Word /\ Len(d) = Digits /\ Digits \in Nat /\ Digits >= 8
  <2>1. d \in Word
    <3>1. n \in 1..n /\ s[n] \in Touch
      BY <1>1
    <3> HIDE DEF n, s
    <3> QED BY <3>1 DEF Touch, Word, d
  <2> HIDE DEF d
  <2> QED BY <2>1, WordSeq, TracesAssumption
<1>4. g \in Word /\ \A i \in 1..(Digits - 1) : g[i] = d[i]
  <2>1. g = [d EXCEPT ![Digits] = 15 - d[Digits]]
    BY <1>3
  <2> HIDE DEF d, g
  <2>2. d[Digits] \in 0..15
    BY <1>3 DEF Word
  <2> DEFINE y == d[Digits]
  <2>3. 15 - d[Digits] \in 0..15
    <3>1. y \in 0..15
      BY <2>2
    <3> HIDE DEF y
    <3>2. 15 - y \in 0..15
      BY <3>1
    <3> QED BY <3>2 DEF y
  <2> QED BY <1>3, <2>1, <2>3 DEF Word
<1> HIDE DEF d, g
<1>5. x \in Touch /\ x.what = s[n].what /\ x.at = s[n].at /\ x.dig = g
  <2>1. s[n] \in Touch
    BY <1>1
  <2>2. s[n] = [what |-> s[n].what, at |-> s[n].at, dig |-> s[n].dig]
    BY <2>1 DEF Touch
  <2>3. x = [what |-> s[n].what, at |-> s[n].at, dig |-> g]
    BY <2>2
  <2> HIDE DEF x
  <2> QED BY <1>4, <2>1, <2>3 DEF Touch, Word
<1> HIDE DEF x
<1>6. /\ r \in Seq(Touch) /\ Len(r) = n /\ r[n] = x /\ r # <<>>
  <2>1. r \in [1..n -> Touch] /\ r[n] = x
    <3>1. n \in DOMAIN s
      BY <1>1
    <3> QED BY <1>1, <1>5, <3>1
  <2>2. r \in Seq(Touch)
    BY <1>1, <2>1, SeqDef
  <2>3. DOMAIN r = 1..n /\ DOMAIN r = 1..Len(r) /\ Len(r) \in Nat
    BY <2>1, <2>2, LenProperties
  <2>4. Len(r) = n
    BY <1>1, <2>3
  <2> QED BY <1>1, <2>1, <2>2, <2>4, EmptySeq
<1> HIDE DEF r
<1> DEFINE w == Wrong(l)
<1>7. /\ w \in Lines /\ w.cyc = l.cyc /\ w.pc = l.pc /\ w.ins = l.ins /\ w.touch = r
  <2>1. l = [cyc |-> l.cyc, pc |-> l.pc, ins |-> l.ins, touch |-> l.touch]
    BY <1>1, LineRecord
  <2>2. w = [cyc |-> l.cyc, pc |-> l.pc, ins |-> l.ins, touch |-> r]
    BY <1>2, <2>1
  <2> HIDE DEF w
  <2> QED BY <1>1, <1>6, <2>2 DEF Lines
<1> HIDE DEF w
<1>8. IsStore(w) <=> IsStore(l)
  <2>1. n = 1 => r[1].what = s[1].what
    BY <1>5, <1>6
  <2> QED BY <1>6, <1>7, <2>1 DEF IsStore
<1>9. ASSUME IsStore(w)
      PROVE  /\ w.touch[1].at = l.touch[1].at
             /\ \A i \in 1..(Digits - 1) : Dig(w)[i] = Dig(l)[i]
  <2>1. n = 1
    BY <1>8, <1>9 DEF IsStore
  <2>2. w.touch[1] = x /\ Dig(l) = d
    BY <1>6, <1>7, <2>1 DEF Dig, d
  <2> QED BY <1>4, <1>5, <2>1, <2>2 DEF Dig
<1>10. w.touch # <<>>
  BY <1>6, <1>7
<1> QED BY <1>7, <1>8, <1>9, <1>10 DEF Like, w

\* Lines of a correct log can be judged.
LEMMA SourcedFine ==
  ASSUME NEW E \in Seq(Events), Joinable(E), NEW L, NEW src,
         Sourced(L, LogsOf(E, 2)[Len(E)], src)
  PROVE  Fine(L, LogsOf(E, 2)[Len(E)]) /\ \A i \in 1..Len(L) : Whole(L[i])
<1> DEFINE R == LogsOf(E, 2)[Len(E)]
<1>1. Sound(L, R)
  BY SourcedSound
<1>2. ASSUME NEW i \in 1..Len(L)
      PROVE  L[i].cyc \in Nat /\ Whole(L[i])
  <2>1. src[i] \in 1..Len(R) /\ Like(L[i], R[src[i]])
    BY DEF Sourced
  <2>2. Whole(R[src[i]]) /\ R[src[i]].cyc \in Nat
    BY <2>1, RtlFacts
  <2>3. Whole(L[i])
    BY <2>1, <2>2, LikeWhole
  <2>4. L[i].cyc = R[src[i]].cyc
    BY <2>1 DEF Like
  <2> QED BY <2>2, <2>3, <2>4
<1>3. Clean(L)
  <2>1. \A x \in Nat : x # -2
    OBVIOUS
  <2> QED BY <1>2, <2>1 DEF Clean
<1> HIDE DEF R
<1> QED BY <1>1, <1>2, <1>3 DEF Fine, R

\* Lines of the log of a correct core, at these places.
From(L, R, src) ==
  \A i \in 1..Len(L) : src[i] \in 1..Len(R) /\ L[i] = R[src[i]]

\* Lines of a correct log, none of them wrong.
LEMMA FromSourced ==
  ASSUME NEW E \in Seq(Events), Joinable(E), NEW L \in Seq(Lines), NEW src,
         From(L, LogsOf(E, 2)[Len(E)], src),
         \A i \in 1..(Len(L) - 1) :
           \/ src[i] < src[i + 1]
           \/ /\ src[i] = i /\ src[i + 1] = i
              /\ \A h \in 1..i : L[h] = LogsOf(E, 2)[Len(E)][h]
  PROVE  Sourced(L, LogsOf(E, 2)[Len(E)], src)
<1> DEFINE R == LogsOf(E, 2)[Len(E)]
<1>1. ASSUME NEW i \in 1..Len(L)
      PROVE  src[i] \in 1..Len(R) /\ Like(L[i], R[src[i]]) /\ L[i] = R[src[i]]
  <2>1. src[i] \in 1..Len(R) /\ L[i] = R[src[i]]
    BY DEF From
  <2>2. Whole(R[src[i]])
    BY <2>1, RtlFacts
  <2>3. Like(R[src[i]], R[src[i]])
    BY <2>2, LikeSelf
  <2> QED BY <2>1, <2>3
<1>2. ASSUME NEW i \in 1..(Len(L) - 1), src[i] = i, src[i + 1] = i
      PROVE  L[i + 1] = L[i]
  <2>1. i \in 1..Len(L) /\ i + 1 \in 1..Len(L)
    <3>1. Len(L) \in Nat
      BY LenProperties
    <3> QED BY <3>1
  <2>2. L[i] = R[src[i]] /\ L[i + 1] = R[src[i + 1]]
    BY <1>1, <2>1
  <2> QED BY <1>2, <2>2
<1> HIDE DEF R
<1> QED BY <1>1, <1>2 DEF Sourced, R

\* The beginning of the log.
LEMMA PrefixFine ==
  ASSUME NEW E \in Seq(Events), Joinable(E), NEW k \in 0..Len(LogsOf(E, 2)[Len(E)])
  PROVE  /\ SubSeq(LogsOf(E, 2)[Len(E)], 1, k) \in Seq(Lines)
         /\ Len(SubSeq(LogsOf(E, 2)[Len(E)], 1, k)) = k
         /\ Fine(SubSeq(LogsOf(E, 2)[Len(E)], 1, k), LogsOf(E, 2)[Len(E)])
         /\ \A i \in 1..k : Whole(SubSeq(LogsOf(E, 2)[Len(E)], 1, k)[i])
<1> DEFINE R == LogsOf(E, 2)[Len(E)]
           L == SubSeq(R, 1, k)
           src == [i \in 1..k |-> i]
<1>1. R \in Seq(Lines) /\ Len(R) \in Nat
  BY RtlFacts, LenProperties
<1> HIDE DEF R
<1>2. L \in Seq(Lines) /\ Len(L) = k /\ \A i \in 1..k : L[i] = R[i]
  <2>1. 1 \in 1..(Len(R) + 1) /\ k \in (1 - 1)..Len(R)
    BY <1>1 DEF R
  <2>2. /\ L \in Seq(Lines) /\ Len(L) = k - 1 + 1
        /\ \A i \in 1..(k - 1 + 1) : L[i] = R[1 + i - 1]
    BY <1>1, <2>1, SubFacts
  <2>3. k - 1 + 1 = k /\ \A i \in 1..k : 1 + i - 1 = i
    OBVIOUS
  <2> QED BY <2>2, <2>3
<1> HIDE DEF L
<1>3. From(L, R, src)
  <2>1. ASSUME NEW i \in 1..k PROVE i \in 1..Len(R)
    BY <1>1 DEF R
  <2> QED BY <1>2, <2>1 DEF From
<1>4. \A i \in 1..(Len(L) - 1) : src[i] < src[i + 1]
  <2> TAKE i \in 1..(Len(L) - 1)
  <2>1. i \in 1..k /\ i + 1 \in 1..k
    BY <1>2
  <2> QED BY <2>1
<1> HIDE DEF src
<1>5. Sourced(L, R, src)
  BY <1>2, <1>3, <1>4, FromSourced DEF R
<1>6. Fine(L, R) /\ \A i \in 1..Len(L) : Whole(L[i])
  BY <1>5, SourcedFine DEF R
<1> QED BY <1>2, <1>6 DEF L, R

\* One line is wrong.
LEMMA WrongFine ==
  ASSUME NEW E \in Seq(Events), Joinable(E), NEW k \in 1..Len(LogsOf(E, 2)[Len(E)])
  PROVE  Fine([LogsOf(E, 2)[Len(E)] EXCEPT ![k] = Wrong(LogsOf(E, 2)[Len(E)][k])],
              LogsOf(E, 2)[Len(E)])
<1> DEFINE R == LogsOf(E, 2)[Len(E)]
           w == Wrong(R[k])
           n == Len(R)
           L == [R EXCEPT ![k] = w]
           src == [i \in 1..n |-> i]
<1>1. /\ R \in Seq(Lines) /\ n \in Nat /\ DOMAIN R = 1..n
      /\ \A i \in 1..n : Whole(R[i]) /\ Like(R[i], R[i])
  BY RtlFacts, LenProperties, LikeSelf
<1>2. Like(w, R[k]) /\ w \in Lines
  <2>1. Whole(R[k])
    BY <1>1
  <2>2. Like(w, R[k])
    BY <2>1, WrongLike
  <2> QED BY <2>2 DEF Like
<1>3. k \in 1..n
  OBVIOUS
<1> HIDE DEF R, w
<1>4. L \in Seq(Lines) /\ Len(L) = n /\ L[k] = w /\ \A i \in 1..n : i # k => L[i] = R[i]
  <2>1. R \in [1..n -> Lines]
    BY <1>1
  <2>2. L \in [1..n -> Lines] /\ L[k] = w /\ \A i \in 1..n : i # k => L[i] = R[i]
    BY <1>2, <1>3, <2>1
  <2>3. L \in Seq(Lines)
    BY <1>1, <2>2, SeqDef
  <2>4. DOMAIN L = 1..n /\ DOMAIN L = 1..Len(L) /\ Len(L) \in Nat
    BY <2>2, <2>3, LenProperties
  <2>5. Len(L) = n
    BY <1>1, <2>4
  <2> QED BY <2>2, <2>3, <2>5
<1> HIDE DEF L
<1>5. Sourced(L, R, src)
  <2>1. ASSUME NEW i \in 1..Len(L) PROVE src[i] \in 1..Len(R) /\ Like(L[i], R[src[i]])
    <3>1. src[i] = i /\ i \in 1..n
      BY <1>4
    <3>2. Like(L[i], R[i])
      BY <1>1, <1>2, <1>4, <3>1
    <3> QED BY <3>1, <3>2
  <2>2. ASSUME NEW i \in 1..(Len(L) - 1) PROVE src[i] < src[i + 1]
    <3>1. i \in 1..n /\ i + 1 \in 1..n
      BY <1>1, <1>4
    <3> QED BY <3>1
  <2> HIDE DEF src
  <2> QED BY <1>4, <2>1, <2>2 DEF Sourced
<1>6. Fine(L, R)
  BY <1>5, SourcedFine DEF R
<1> QED BY <1>6 DEF L, R, w

\* One line is missing.
LEMMA LostFine ==
  ASSUME NEW E \in Seq(Events), Joinable(E), NEW k \in 1..Len(LogsOf(E, 2)[Len(E)])
  PROVE  Fine(Without(LogsOf(E, 2)[Len(E)], k), LogsOf(E, 2)[Len(E)])
<1> DEFINE R == LogsOf(E, 2)[Len(E)]
           n == Len(R)
           A == SubSeq(R, 1, k - 1)
           B == SubSeq(R, k + 1, n)
           L == A \o B
           src == [i \in 1..(n - 1) |-> IF i < k THEN i ELSE i + 1]
<1>1. R \in Seq(Lines) /\ n \in Nat /\ k \in 1..n
  BY RtlFacts, LenProperties
<1> HIDE DEF R
<1>2. A \in Seq(Lines) /\ Len(A) = k - 1 /\ \A i \in 1..(k - 1) : A[i] = R[i]
  <2> DEFINE b == k - 1
  <2>1. 1 \in 1..(Len(R) + 1) /\ b \in (1 - 1)..Len(R)
    BY <1>1
  <2> HIDE DEF b
  <2>2. /\ SubSeq(R, 1, b) \in Seq(Lines) /\ Len(SubSeq(R, 1, b)) = b - 1 + 1
        /\ \A i \in 1..(b - 1 + 1) : SubSeq(R, 1, b)[i] = R[1 + i - 1]
    BY <1>1, <2>1, SubFacts
  <2>3. b - 1 + 1 = b /\ \A i \in 1..b : 1 + i - 1 = i
    BY <2>1
  <2> QED BY <2>2, <2>3 DEF b
<1>3. B \in Seq(Lines) /\ Len(B) = n - k /\ \A i \in 1..(n - k) : B[i] = R[k + i]
  <2> DEFINE a == k + 1
  <2>1. a \in 1..(Len(R) + 1) /\ n \in (a - 1)..Len(R)
    BY <1>1
  <2>2. a \in Int /\ k \in Int /\ a = k + 1
    BY <1>1
  <2> HIDE DEF a, n
  <2>3. /\ SubSeq(R, a, n) \in Seq(Lines) /\ Len(SubSeq(R, a, n)) = n - a + 1
        /\ \A i \in 1..(n - a + 1) : SubSeq(R, a, n)[i] = R[a + i - 1]
    BY <1>1, <2>1, SubFacts DEF n
  <2>4. n - a + 1 = n - k /\ \A i \in 1..(n - k) : a + i - 1 = k + i
    BY <1>1, <2>2
  <2> QED BY <2>3, <2>4 DEF a
<1> HIDE DEF A, B
<1>4. /\ L \in Seq(Lines) /\ Len(L) = n - 1
      /\ \A i \in 1..(n - 1) : L[i] = R[src[i]] /\ src[i] \in 1..n
  <2>1. A \in Seq(Lines) /\ B \in Seq(Lines)
    BY <1>2, <1>3
  <2>2. /\ L \in Seq(Lines) /\ Len(L) = Len(A) + Len(B)
        /\ \A i \in 1..Len(A) : L[i] = A[i]
        /\ \A i \in 1..Len(B) : L[Len(A) + i] = B[i]
    BY <2>1, Concat
  <2> HIDE DEF L
  <2>3. Len(L) = n - 1
    BY <1>1, <1>2, <1>3, <2>2
  <2>4. ASSUME NEW i \in 1..(n - 1) PROVE L[i] = R[src[i]] /\ src[i] \in 1..n
    <3>1. CASE i < k
      <4>1. i \in 1..(k - 1) /\ src[i] = i /\ i \in 1..n
        BY <1>1, <3>1
      <4>2. i \in 1..Len(A)
        BY <1>2, <4>1
      <4>3. L[i] = A[i] /\ A[i] = R[i]
        BY <1>2, <2>2, <4>1, <4>2
      <4> QED BY <4>1, <4>3
    <3>2. CASE ~ i < k
      <4> DEFINE m == i - (k - 1)
      <4>1. m \in 1..(n - k) /\ i = (k - 1) + m /\ src[i] = i + 1 /\ i + 1 \in 1..n
            /\ k + m = i + 1
        BY <1>1, <3>2
      <4> HIDE DEF m
      <4>2. L[(k - 1) + m] = B[m]
        BY <1>2, <1>3, <2>2, <4>1
      <4>3. B[m] = R[k + m]
        BY <1>3, <4>1
      <4> HIDE DEF src
      <4>4. L[i] = R[i + 1]
        BY <4>1, <4>2, <4>3
      <4> QED BY <4>1, <4>4
    <3> QED BY <3>1, <3>2
  <2> QED BY <2>2, <2>3, <2>4 DEF L
<1> HIDE DEF L
<1>5. \A i \in 1..(Len(L) - 1) : src[i] < src[i + 1]
  <2> TAKE i \in 1..(Len(L) - 1)
  <2>1. i \in 1..(n - 1) /\ i + 1 \in 1..(n - 1)
    BY <1>1, <1>4
  <2>2. src[i] = (IF i < k THEN i ELSE i + 1) /\ src[i + 1] = IF i + 1 < k THEN i + 1 ELSE i + 1 + 1
    BY <2>1
  <2> QED BY <1>1, <2>1, <2>2
<1> HIDE DEF src
<1>6. From(L, R, src)
  BY <1>4 DEF From
<1>7. Sourced(L, R, src)
  BY <1>4, <1>5, <1>6, FromSourced DEF R
<1>8. Fine(L, R)
  BY <1>7, SourcedFine DEF R
<1> QED BY <1>8 DEF L, A, B, R, Without

\* One line is written twice.
LEMMA TwiceFine ==
  ASSUME NEW E \in Seq(Events), Joinable(E), NEW k \in 1..Len(LogsOf(E, 2)[Len(E)])
  PROVE  Fine(SubSeq(LogsOf(E, 2)[Len(E)], 1, k)
                \o SubSeq(LogsOf(E, 2)[Len(E)], k, Len(LogsOf(E, 2)[Len(E)])),
              LogsOf(E, 2)[Len(E)])
<1> DEFINE R == LogsOf(E, 2)[Len(E)]
           n == Len(R)
           A == SubSeq(R, 1, k)
           B == SubSeq(R, k, n)
           L == A \o B
           src == [i \in 1..(n + 1) |-> IF i <= k THEN i ELSE i - 1]
<1>1. R \in Seq(Lines) /\ n \in Nat /\ k \in 1..n
  BY RtlFacts, LenProperties
<1> HIDE DEF R
<1>2. A \in Seq(Lines) /\ Len(A) = k /\ \A i \in 1..k : A[i] = R[i]
  <2>1. 1 \in 1..(Len(R) + 1) /\ k \in (1 - 1)..Len(R)
    BY <1>1
  <2>2. /\ SubSeq(R, 1, k) \in Seq(Lines) /\ Len(SubSeq(R, 1, k)) = k - 1 + 1
        /\ \A i \in 1..(k - 1 + 1) : SubSeq(R, 1, k)[i] = R[1 + i - 1]
    BY <1>1, <2>1, SubFacts
  <2>3. k - 1 + 1 = k /\ \A i \in 1..k : 1 + i - 1 = i
    BY <1>1
  <2> QED BY <2>2, <2>3
<1>3. B \in Seq(Lines) /\ Len(B) = n - k + 1 /\ \A i \in 1..(n - k + 1) : B[i] = R[k + i - 1]
  <2>1. k \in 1..(Len(R) + 1) /\ n \in (k - 1)..Len(R)
    BY <1>1
  <2> HIDE DEF n
  <2>2. /\ SubSeq(R, k, n) \in Seq(Lines) /\ Len(SubSeq(R, k, n)) = n - k + 1
        /\ \A i \in 1..(n - k + 1) : SubSeq(R, k, n)[i] = R[k + i - 1]
    BY <1>1, <2>1, SubFacts DEF n
  <2> QED BY <2>2
<1> HIDE DEF A, B
<1>4. /\ L \in Seq(Lines) /\ Len(L) = n + 1
      /\ \A i \in 1..(n + 1) : L[i] = R[src[i]] /\ src[i] \in 1..n
  <2>1. A \in Seq(Lines) /\ B \in Seq(Lines)
    BY <1>2, <1>3
  <2>2. /\ L \in Seq(Lines) /\ Len(L) = Len(A) + Len(B)
        /\ \A i \in 1..Len(A) : L[i] = A[i]
        /\ \A i \in 1..Len(B) : L[Len(A) + i] = B[i]
    BY <2>1, Concat
  <2> HIDE DEF L
  <2>3. Len(L) = n + 1
    BY <1>1, <1>2, <1>3, <2>2
  <2>4. ASSUME NEW i \in 1..(n + 1) PROVE L[i] = R[src[i]] /\ src[i] \in 1..n
    <3>1. CASE i <= k
      <4>1. i \in 1..k /\ src[i] = i /\ i \in 1..n
        BY <1>1, <3>1
      <4>2. i \in 1..Len(A)
        BY <1>2, <4>1
      <4>3. L[i] = A[i] /\ A[i] = R[i]
        BY <1>2, <2>2, <4>1, <4>2
      <4> QED BY <4>1, <4>3
    <3>2. CASE ~ i <= k
      <4> DEFINE m == i - k
      <4>1. m \in 1..(n - k + 1) /\ i = k + m /\ src[i] = i - 1 /\ i - 1 \in 1..n
        BY <1>1, <3>2
      <4> HIDE DEF m
      <4>2. L[k + m] = B[m]
        BY <1>2, <1>3, <2>2, <4>1
      <4>3. B[m] = R[k + m - 1]
        BY <1>3, <4>1
      <4> HIDE DEF src
      <4>4. L[i] = R[i - 1]
        BY <4>1, <4>2, <4>3
      <4> QED BY <4>1, <4>4
    <3> QED BY <3>1, <3>2
  <2> QED BY <2>2, <2>3, <2>4 DEF L
<1> HIDE DEF L
<1>5. ASSUME NEW i \in 1..(Len(L) - 1)
      PROVE  \/ src[i] < src[i + 1]
             \/ src[i] = i /\ src[i + 1] = i /\ \A h \in 1..i : L[h] = R[h]
  <2>1. i \in 1..(n + 1) /\ i + 1 \in 1..(n + 1)
    BY <1>1, <1>4
  <2>2. /\ src[i] = (IF i <= k THEN i ELSE i - 1)
        /\ src[i + 1] = IF i + 1 <= k THEN i + 1 ELSE i + 1 - 1
    BY <2>1
  <2>3. CASE i # k
    <3>1. src[i] < src[i + 1]
      BY <1>1, <2>1, <2>2, <2>3
    <3> QED BY <3>1
  <2>4. CASE i = k
    <3>1. src[i] = i /\ src[i + 1] = i
      BY <1>1, <2>1, <2>2, <2>4
    <3>2. ASSUME NEW h \in 1..i PROVE L[h] = R[h]
      <4>1. h \in 1..(n + 1) /\ src[h] = h
        BY <1>1, <2>4
      <4> QED BY <1>4, <4>1
    <3> QED BY <3>1, <3>2
  <2> QED BY <2>3, <2>4
<1> HIDE DEF src
<1>6. From(L, R, src)
  BY <1>4 DEF From
<1>7. Sourced(L, R, src)
  BY <1>4, <1>5, <1>6, FromSourced DEF R
<1>8. Fine(L, R)
  BY <1>7, SourcedFine DEF R
<1> QED BY <1>8 DEF L, A, B, R

\* One line more, of a cycle of its own.
LEMMA AppendFine ==
  ASSUME NEW L, NEW R, Fine(L, R), \A i \in 1..Len(L) : Whole(L[i]), NEW x \in Lines,
         Whole(x) \/ x.touch = <<>>, x.cyc # -2,
         Len(L) > 0 => ~ SameStore(L[Len(L)], x)
  PROVE  Fine(Append(L, x), R)
<1>1. L \in Seq(Lines) /\ Len(L) \in Nat /\ Sound(L, R) /\ Clean(L)
  BY LenProperties DEF Fine, Sound
<1>2. Sound(Append(L, x), R)
  BY <1>1, SoundTail
<1>3. Clean(Append(L, x))
  <2> DEFINE K == Append(L, x)
             n == Len(L)
  <2>1. /\ Len(K) = n + 1 /\ K[n + 1] = x
        /\ \A i \in 1..n : K[i] = L[i]
    BY <1>1, AppendProperties
  <2> HIDE DEF K
  <2>2. ASSUME NEW i \in 1..Len(K) PROVE K[i].cyc # -2
    <3>1. CASE i \in 1..n
      BY <1>1, <2>1, <3>1 DEF Clean
    <3>2. CASE i = n + 1
      BY <2>1, <3>2
    <3> QED BY <1>1, <2>1, <3>1, <3>2
  <2> QED BY <2>2 DEF Clean, K
<1> QED BY <1>2, <1>3 DEF Fine

\* The log ends in the middle of a line.
LEMMA ShortFine ==
  ASSUME NEW E \in Seq(Events), Joinable(E), NEW k \in 0..Len(LogsOf(E, 2)[Len(E)])
  PROVE  Fine(SubSeq(LogsOf(E, 2)[Len(E)], 1, k) \o <<Text>>, LogsOf(E, 2)[Len(E)])
<1> DEFINE R == LogsOf(E, 2)[Len(E)]
           L == SubSeq(R, 1, k)
<1>1. L \in Seq(Lines) /\ Len(L) = k /\ Fine(L, R) /\ \A i \in 1..k : Whole(L[i])
  BY PrefixFine
<1> HIDE DEF L, R
<1>2. Text \in Lines /\ Text.touch = <<>> /\ Text.cyc # -2
  BY DEF Text, Lines
<1>3. \A l : ~ SameStore(l, Text)
  <2>1. Len(Text.touch) = 0
    BY <1>2, EmptySeq
  <2>2. ~ IsStore(Text)
    BY <2>1 DEF IsStore
  <2> QED BY <2>2 DEF SameStore
<1>4. Fine(Append(L, Text), R)
  BY <1>1, <1>2, <1>3, AppendFine
<1>5. L \o <<Text>> = Append(L, Text)
  BY <1>1, <1>2, AppendIsConcat
<1> QED BY <1>4, <1>5 DEF L, R

\* The core runs on where it ought to have stopped.
LEMMA LongFine ==
  ASSUME NEW E \in Seq(Events), Joinable(E), Len(LogsOf(E, 2)[Len(E)]) # 0
  PROVE  Fine(Append(LogsOf(E, 2)[Len(E)],
                     [LogsOf(E, 2)[Len(E)][Len(LogsOf(E, 2)[Len(E)])] EXCEPT !.cyc = @ + 2]),
              LogsOf(E, 2)[Len(E)])
<1> DEFINE R == LogsOf(E, 2)[Len(E)]
           n == Len(R)
           l == R[n]
           x == [l EXCEPT !.cyc = @ + 2]
           src == [i \in 1..n |-> i]
<1>1. /\ R \in Seq(Lines) /\ n \in Nat /\ n \in 1..n
      /\ \A i \in 1..n : Whole(R[i])
  BY RtlFacts, LenProperties
<1>2. Whole(l) /\ l.cyc \in Nat /\ l \in Lines
  BY <1>1, RtlFacts DEF Whole
<1>3. Fine(R, R)
  <2>1. From(R, R, src)
    BY DEF From
  <2>2. \A i \in 1..(Len(R) - 1) : src[i] < src[i + 1]
    <3> TAKE i \in 1..(Len(R) - 1)
    <3>1. i \in 1..n /\ i + 1 \in 1..n
      BY <1>1
    <3> QED BY <3>1
  <2> HIDE DEF src
  <2>3. Sourced(R, R, src)
    BY <1>1, <2>1, <2>2, FromSourced
  <2> QED BY <2>3, SourcedFine
<1> HIDE DEF R, l
<1>4. x = [cyc |-> l.cyc + 2, pc |-> l.pc, ins |-> l.ins, touch |-> l.touch]
  BY <1>2, LineRecord
<1> HIDE DEF x
<1>5. x \in Lines /\ x.touch = l.touch /\ x.cyc = l.cyc + 2 /\ x.cyc # -2 /\ x.cyc # l.cyc
  BY <1>2, <1>4 DEF Lines
<1>6. Whole(x)
  <2>1. (Splits(x) <=> Splits(l)) /\ Upper(x) = Upper(l) /\ Dig(x) = Dig(l)
    BY <1>5 DEF Splits, Upper, Dig, IsStore
  <2> QED BY <1>2, <1>5, <2>1 DEF Whole, Widths
<1>7. ~ SameStore(R[n], x)
  BY <1>5 DEF SameStore, l
<1>8. Fine(Append(R, x), R)
  BY <1>1, <1>3, <1>5, <1>6, <1>7, AppendFine
<1> QED BY <1>8 DEF R, x, l

\* A log without a NUL can be judged as it is.
LEMMA FineValid ==
  ASSUME NEW L, NEW R, Fine(L, R)
  PROVE  Fine(ValidLines(L), R)
<1>1. L \in Seq(Lines) /\ Clean(L)
  BY DEF Fine, Sound
<1> QED BY <1>1, ValidAll

\* Whatever is behind a NUL.
LEMMA BehindNul ==
  ASSUME NEW E \in Seq(Events), Joinable(E), NEW k \in 0..Len(LogsOf(E, 2)[Len(E)]),
         NEW B \in Seq(Lines)
  PROVE  Fine(ValidLines(SubSeq(LogsOf(E, 2)[Len(E)], 1, k) \o <<Nul>> \o B),
              LogsOf(E, 2)[Len(E)])
<1> DEFINE R == LogsOf(E, 2)[Len(E)]
           A == SubSeq(R, 1, k)
<1>1. A \in Seq(Lines) /\ Fine(A, R)
  BY PrefixFine
<1> HIDE DEF A, R
<1>2. Nul \in Lines
  BY EmptySeq DEF Nul, Lines
<1>3. ValidLines(A \o <<Nul>> \o B) = A
  BY <1>1, <1>2, ValidCut DEF Fine
<1> QED BY <1>1, <1>3 DEF A, R

\* Whatever the simulator logs can be judged.
LEMMA LogsFine ==
  ASSUME NEW v \in Versions, Joinable(Traces[v]), NEW raw \in Logs[v]
  PROVE  Fine(ValidLines(raw), RtlLog(v))
<1> DEFINE E == Traces[v]
           R == RtlLog(v)
           n == Len(R)
           F == Faulty(R)
<1>1. E \in Seq(Events) /\ R = LogsOf(E, 2)[Len(E)]
  BY TracesAssumption DEF Events, RtlLog
<1>2. R \in Seq(Lines) /\ n \in Nat
  BY <1>1, RtlFacts, LenProperties
<1> HIDE DEF R
<1>3. F = [short |-> {SubSeq(R, 1, i) \o <<Text>> : i \in 0..(n - 1)},
           long |-> {Append(R, [R[i] EXCEPT !.cyc = @ + 2]) : i \in {n} \ {0}},
           wrong |-> {[R EXCEPT ![i] = Wrong(R[i])] : i \in 1..n},
           lost |-> {Without(R, i) : i \in 1..n},
           twice |-> {SubSeq(R, 1, i) \o SubSeq(R, i, n) : i \in 1..n},
           leftover |-> {R \o <<Nul>> \o SubSeq(R, i, n) : i \in 2..n}
                          \cup {SubSeq(R, 1, i) \o <<Nul>>
                                  \o SubSeq(R, i + 1, n) : i \in 1..(n - 1)}]
  BY DEF Faulty
<1> HIDE DEF F
<1>4. raw = R \/ \E f \in {"short", "long", "wrong", "lost", "twice", "leftover"} : raw \in F[f]
  BY SuiteAssumption DEF Logs, R, F
<1>5. CASE raw = R
  <2>1. n \in 0..n
    BY <1>2
  <2>2. Fine(SubSeq(R, 1, n), R)
    BY <1>1, <2>1, PrefixFine
  <2>3. SubSeq(R, 1, n) = R
    BY <1>2, SubSeqFull
  <2>4. Fine(R, R)
    BY <2>2, <2>3
  <2> QED BY <1>5, <2>4, FineValid DEF R
<1>6. CASE raw \in F["short"]
  <2>1. PICK i \in 0..(n - 1) : raw = SubSeq(R, 1, i) \o <<Text>>
    BY <1>3, <1>6
  <2>2. i \in 0..n
    BY <1>2
  <2>3. Fine(raw, R)
    BY <1>1, <2>1, <2>2, ShortFine
  <2> QED BY <2>3, FineValid DEF R
<1>7. CASE raw \in F["long"]
  <2>1. n # 0 /\ raw = Append(R, [R[n] EXCEPT !.cyc = @ + 2])
    BY <1>3, <1>7
  <2>2. Fine(raw, R)
    BY <1>1, <2>1, LongFine
  <2> QED BY <2>2, FineValid DEF R
<1>8. CASE raw \in F["wrong"]
  <2>1. PICK i \in 1..n : raw = [R EXCEPT ![i] = Wrong(R[i])]
    BY <1>3, <1>8
  <2>2. Fine(raw, R)
    BY <1>1, <2>1, WrongFine
  <2> QED BY <2>2, FineValid DEF R
<1>9. CASE raw \in F["lost"]
  <2>1. PICK i \in 1..n : raw = Without(R, i)
    BY <1>3, <1>9
  <2>2. Fine(raw, R)
    BY <1>1, <2>1, LostFine
  <2> QED BY <2>2, FineValid DEF R
<1>10. CASE raw \in F["twice"]
  <2>1. PICK i \in 1..n : raw = SubSeq(R, 1, i) \o SubSeq(R, i, n)
    BY <1>3, <1>10
  <2>2. Fine(raw, R)
    BY <1>1, <2>1, TwiceFine
  <2> QED BY <2>2, FineValid DEF R
<1>11. CASE raw \in F["leftover"]
  <2>0. ASSUME NEW a \in 1..(n + 1) PROVE SubSeq(R, a, n) \in Seq(Lines)
    <3>1. a \in 1..(Len(R) + 1) /\ n \in (a - 1)..Len(R)
      BY <1>2
    <3> HIDE DEF n
    <3> QED BY <1>2, <3>1, SubFacts
  <2>1. CASE \E i \in 2..n : raw = R \o <<Nul>> \o SubSeq(R, i, n)
    <3>1. PICK i \in 2..n : raw = R \o <<Nul>> \o SubSeq(R, i, n)
      BY <2>1
    <3>2. i \in 1..(n + 1) /\ n \in 0..n
      BY <1>2
    <3>3. SubSeq(R, 1, n) = R
      BY <1>2, SubSeqFull
    <3> DEFINE B == SubSeq(R, i, n)
    <3>4. B \in Seq(Lines)
      BY <2>0, <3>2
    <3> HIDE DEF B
    <3>5. Fine(ValidLines(SubSeq(R, 1, n) \o <<Nul>> \o B), R)
      BY <1>1, <3>2, <3>4, BehindNul
    <3> QED BY <3>1, <3>3, <3>5 DEF B, R
  <2>2. CASE \E i \in 1..(n - 1) : raw = SubSeq(R, 1, i) \o <<Nul>> \o SubSeq(R, i + 1, n)
    <3>1. PICK i \in 1..(n - 1) : raw = SubSeq(R, 1, i) \o <<Nul>> \o SubSeq(R, i + 1, n)
      BY <2>2
    <3>2. i + 1 \in 1..(n + 1) /\ i \in 0..n
      BY <1>2
    <3> DEFINE B == SubSeq(R, i + 1, n)
    <3>4. B \in Seq(Lines)
      BY <2>0, <3>2
    <3> HIDE DEF B
    <3>5. Fine(ValidLines(SubSeq(R, 1, i) \o <<Nul>> \o B), R)
      BY <1>1, <3>2, <3>4, BehindNul
    <3> QED BY <3>1, <3>5 DEF B, R
  <2>3. F["leftover"] = {R \o <<Nul>> \o SubSeq(R, i, n) : i \in 2..n}
                          \cup {SubSeq(R, 1, i) \o <<Nul>>
                                  \o SubSeq(R, i + 1, n) : i \in 1..(n - 1)}
    BY <1>3
  <2> QED BY <1>11, <2>1, <2>2, <2>3
<1> QED BY <1>4, <1>5, <1>6, <1>7, <1>8, <1>9, <1>10, <1>11 DEF R

\* A processed log holds no NUL.
LEMMA JoinedKept ==
  ASSUME NEW L \in Seq(Lines), Clean(L)
  PROVE  /\ Joined(L)[Len(L)] \in Seq(Results(L))
         /\ ValidLines(Joined(L)[Len(L)]) = Joined(L)[Len(L)]
<1> DEFINE Q == Joined(L)[Len(L)]
<1>1. Len(L) \in Nat /\ Len(L) \in 0..Len(L)
  BY LenProperties
<1>2. Q \in Seq(Results(L))
  BY <1>1, JoinedFacts
<1>3. Clean(Q)
  <2>1. \A i \in 1..Len(Q) : Q[i] \in Results(L)
    BY <1>2, LenProperties
  <2> QED BY <2>1, CleanResults DEF Clean
<1> HIDE DEF Q
<1>4. ValidLines(Q) = Q
  <2> DEFINE S == Results(L)
  <2>1. Q \in Seq(S)
    BY <1>2
  <2> HIDE DEF S
  <2> QED BY <1>3, <2>1, ValidAll
<1> QED BY <1>2, <1>4 DEF Q

\* The last line that says nothing is not put together with another.
LEMMA LastAlone ==
  ASSUME NEW L \in Seq(Lines), NEW k \in 0..Len(L), \A i \in 1..k : Whole(L[i]),
         k = Len(L) \/ (k = Len(L) - 1 /\ L[Len(L)].touch = <<>>)
  PROVE  /\ ~ Joining(L)[k]
         /\ \E S : /\ Joined(L)[k] \in Seq(S)
                   /\ Joined(L)[Len(L)] \in Seq(S)
                   /\ \A i \in 1..Len(Joined(L)[k]) :
                        /\ Joined(L)[k][i].touch # <<>>
                        /\ Joined(L)[Len(L)][i] = Joined(L)[k][i]
                   /\ Len(Joined(L)[k]) \in Nat
                   /\ \/ Joined(L)[Len(L)] = Joined(L)[k]
                      \/ /\ Len(Joined(L)[Len(L)]) = Len(Joined(L)[k]) + 1
                         /\ Joined(L)[Len(L)][Len(Joined(L)[k]) + 1].touch = <<>>
<1> DEFINE n == Len(L)
           O == Joined(L)
           S == Results(L)
           T == {x \in S : x.touch # <<>>}
<1>1. n \in Nat /\ k \in Nat /\ k <= n /\ \A i \in 1..n : L[i] \in Lines
  BY LenProperties
<1>2. \A i \in 1..n : L[i] \in S /\ Merged(L[i], L[i + 1]) \in S
  BY DEF Results
<1>3. O[n] \in Seq(S)
  BY <1>1, JoinedFacts
<1>4. O[k] \in Seq(S)
  BY <1>1, JoinedFacts
<1>5. O[k] \in Seq(T)
  <2>1. ASSUME NEW i \in 1..k PROVE L[i] \in T /\ Merged(L[i], L[i + 1]) \in T
    <3>1. i \in 1..n /\ L[i].touch # <<>> /\ L[i] \in Lines
      BY <1>1 DEF Whole
    <3>2. Merged(L[i], L[i + 1]).touch
            = Mem(L[i].touch[1].at, Both(Dig(L[i + 1]), Dig(L[i]), Digits - Upper(L[i])))
      BY <3>1, MergedIs
    <3>3. \A a, d : Mem(a, d) # <<>>
      <4> TAKE a, d
      <4>1. Len(Mem(a, d)) = 1
        BY DEF Mem
      <4> DEFINE m == Mem(a, d)
      <4>2. Len(m) = 1
        BY <4>1
      <4> HIDE DEF m
      <4>3. SUFFICES ASSUME m = <<>> PROVE FALSE
        BY DEF m
      <4>4. Len(m) = Len(<<>>) /\ Len(<<>>) = 0
        BY <4>3, EmptySeq
      <4> QED BY <4>2, <4>4
    <3>4. Merged(L[i], L[i + 1]).touch # <<>>
      BY <3>2, <3>3
    <3> QED BY <1>2, <3>1, <3>4
  <2> HIDE DEF T
  <2> QED BY <1>1, <2>1, JoinedIn
<1>6. Len(O[k]) \in Nat /\ \A i \in 1..Len(O[k]) : O[k][i].touch # <<>>
  <2>1. \A x \in T : x.touch # <<>>
    OBVIOUS
  <2> HIDE DEF T, O
  <2>2. Len(O[k]) \in Nat /\ \A i \in 1..Len(O[k]) : O[k][i] \in T
    BY <1>5, LenProperties
  <2> QED BY <2>1, <2>2
<1>7. ~ Joining(L)[k] /\ ~ Joining(L)[n]
  <2>1. ~ Joining(L)[0] /\ ~ Joining(L)[n]
    BY <1>1, TakesFacts
  <2>2. CASE k = n
    BY <2>1, <2>2
  <2>3. CASE k = n - 1 /\ L[n].touch = <<>> /\ k # 0
    <3>1. k \in 1..n /\ k + 1 = n
      BY <1>1, <2>3
    <3>2. Joining(L)[k] => SameStore(L[k], L[k + 1])
      BY <1>1, <3>1, TakesFacts
    <3>3. ~ IsStore(L[n])
      <4>1. Len(L[n].touch) = 0
        BY <2>3, EmptySeq
      <4> QED BY <4>1 DEF IsStore
    <3> QED BY <2>1, <3>1, <3>2, <3>3 DEF SameStore
  <2> QED BY <2>1, <2>2, <2>3
<1>8. \/ O[n] = O[k]
      \/ /\ Len(O[n]) = Len(O[k]) + 1
         /\ O[n][Len(O[k]) + 1].touch = <<>>
  <2>1. CASE k = n
    BY <2>1
  <2>2. CASE k = n - 1 /\ L[n].touch = <<>>
    <3>1. n \in 1..n /\ n - 1 = k
      BY <1>1, <2>2
    <3>2. ~ Joining(L)[n - 1]
      BY <1>7, <3>1
    <3>3. O[n] = Append(O[n - 1], L[n])
      BY <1>1, <1>7, <3>1, <3>2, JoinedFacts
    <3>4. O[n] = Append(O[k], L[n]) /\ L[n] \in S
      BY <1>2, <3>1, <3>3
    <3> HIDE DEF O, S
    <3>5. Len(O[n]) = Len(O[k]) + 1 /\ O[n][Len(O[k]) + 1] = L[n]
      BY <1>4, <3>4, AppendProperties
    <3> QED BY <2>2, <3>5
  <2> QED BY <2>1, <2>2
<1>9. \A i \in 1..Len(O[k]) : O[n][i] = O[k][i]
  <2>1. n \in 0..n /\ k \in 0..n
    BY <1>1
  <2> QED BY <1>1, <2>1, JoinedPrefix
<1> HIDE DEF O, S, T
<1> QED BY <1>3, <1>4, <1>6, <1>7, <1>8, <1>9 DEF O

\* The rows the comparison reads.
LEMMA RowsOfJoined ==
  ASSUME NEW L \in Seq(Lines), Clean(L), NEW k \in 0..Len(L), \A i \in 1..k : Whole(L[i]),
         k = Len(L) \/ (k = Len(L) - 1 /\ L[Len(L)].touch = <<>>)
  PROVE  /\ Len(Executed(Joined(L)[Len(L)])) = Len(Joined(L)[k])
         /\ Len(Joined(L)[k]) \in Nat
         /\ \A i \in 1..Len(Joined(L)[k]) :
              Executed(Joined(L)[Len(L)])[i] = Joined(L)[k][i]
<1> DEFINE Q == Joined(L)[Len(L)]
           K == Joined(L)[k]
           m == Len(K)
<1>1. PICK S : /\ K \in Seq(S) /\ Q \in Seq(S) /\ m \in Nat
               /\ \A i \in 1..m : K[i].touch # <<>> /\ Q[i] = K[i]
               /\ \/ Q = K
                  \/ Len(Q) = m + 1 /\ Q[m + 1].touch = <<>>
  BY LastAlone
<1>2. ValidLines(Q) = Q
  BY JoinedKept
<1>3. Executed(Q) = Rows(Q)[Len(Q)]
  BY <1>2 DEF Executed
<1> HIDE DEF Q, K
<1>4. /\ m \in 0..Len(Q)
      /\ \A i \in 1..m : Q[i].touch # <<>>
      /\ m = Len(Q) \/ (m = Len(Q) - 1 /\ Q[Len(Q)].touch = <<>>)
  BY <1>1
<1>5. Rowed(Q, m, Rows(Q)[Len(Q)])
  <2> HIDE DEF m
  <2> QED BY <1>1, <1>4, RowsLast
<1>6. Len(Executed(Q)) = m /\ \A i \in 1..m : Executed(Q)[i] = Q[i]
  BY <1>3, <1>5 DEF Rowed
<1> QED BY <1>1, <1>6 DEF Q, K

\* PASSED: the core did what the ISS did.
LEMMA PassRight ==
  ASSUME NEW E \in Seq(Events), Joinable(E), NEW raw,
         Fine(ValidLines(raw), LogsOf(E, 2)[Len(E)]), Agrees(E, Processed(raw))
  PROVE  Follows(raw, E)
<1> DEFINE L == ValidLines(raw)
           n == Len(L)
           N == Len(E)
           k == IF n = 0 \/ L[n].touch # <<>> THEN n ELSE n - 1
           Z == LogsOf(E, 0)[N]
           X == Executed(raw)
           B == Bare(X)
<1>1. L \in Seq(Lines) /\ Clean(L) /\ n \in Nat /\ Sound(L, LogsOf(E, 2)[N]) /\ N \in Nat
      /\ N \in 0..N
  BY LenProperties DEF Fine, Sound
<1>2. /\ k \in 0..n
      /\ k = n \/ (k = n - 1 /\ L[n].touch = <<>>)
  BY <1>1
<1>3. \A i \in 1..k : Whole(L[i]) /\ L[i].touch # <<>>
  <2> TAKE i \in 1..k
  <2>1. i \in 1..n
    BY <1>1
  <2>2. Whole(L[i]) \/ (i = n /\ L[i].touch = <<>>)
    BY <1>1, <2>1 DEF Sound
  <2>3. ~ (i = n /\ L[i].touch = <<>>)
    BY <1>1
  <2> QED BY <2>2, <2>3 DEF Whole
<1>4. Processed(raw) = Joined(L)[n] /\ X = Rows(L)[n]
  BY DEF Processed, Executed
<1> HIDE DEF L, k
<1>5. Agreed(E, Joined(L)[k])
  <2> DEFINE Y == Executed(Joined(L)[n])
             K == Joined(L)[k]
  <2>1. /\ Len(Y) = Len(K) /\ Len(K) \in Nat
        /\ \A i \in 1..Len(K) : Y[i] = K[i]
    BY <1>1, <1>2, <1>3, RowsOfJoined
  <2>2. /\ Len(Y) >= N
        /\ \A j \in DOMAIN E : /\ Y[j].pc = E[j].pc /\ Y[j].ins = E[j].ins
                               /\ Y[j].touch = E[j].touch
    BY <1>4 DEF Agrees
  <2>3. DOMAIN E = 1..N
    BY LenProperties
  <2> HIDE DEF Y, K
  <2>4. ASSUME NEW j \in 1..N PROVE Shown(K[j], E[j])
    <3>1. j \in 1..Len(K)
      BY <1>1, <2>1, <2>2
    <3> QED BY <2>1, <2>2, <2>3, <3>1 DEF Shown
  <2>5. Len(K) >= N
    BY <2>1, <2>2
  <2> QED BY <2>4, <2>5 DEF Agreed, K
<1>6. ~ Joining(L)[k]
  BY <1>1, <1>2, <1>3, LastAlone
<1>7. PICK p \in 0..k : Exact(L, E, p, N)
  BY <1>1, <1>2, <1>3, <1>5, <1>6, PassFollows
<1>8. Len(Z) = p /\ \A h \in 1..p : At0(L[h]) = Z[h]
  BY <1>7 DEF Exact
<1>9. X \in Seq(Lines) /\ Len(X) = k /\ \A i \in 1..k : X[i] = L[i]
  <2>1. X \in Seq(Lines) /\ Rowed(L, k, X)
    BY <1>1, <1>2, <1>3, <1>4, RowsLast
  <2> QED BY <2>1 DEF Rowed
<1>10. Z \in Seq(Lines)
  <2>1. 0 \in Nat
    OBVIOUS
  <2> QED BY <1>1, <2>1, LogFacts
<1> HIDE DEF X, Z
<1>11. B \in Seq(Lines) /\ Len(B) = k /\ \A i \in 1..k : B[i] = At0(L[i])
  <2>1. DOMAIN X = 1..k /\ k \in Nat
    BY <1>1, <1>2, <1>9, LenProperties
  <2>2. ASSUME NEW i \in 1..k PROVE At0(X[i]) \in Lines
    <3>1. X[i] \in Lines
      BY <1>9, LenProperties
    <3>2. At0(X[i]) = [cyc |-> 0, pc |-> X[i].pc, ins |-> X[i].ins, touch |-> X[i].touch]
      BY <3>1, LineRecord
    <3> QED BY <3>1, <3>2 DEF Lines
  <2>3. B = [i \in 1..k |-> At0(X[i])]
    BY <2>1 DEF Bare, At0
  <2> HIDE DEF B
  <2>4. B \in [1..k -> Lines]
    BY <2>2, <2>3
  <2>5. B \in Seq(Lines)
    BY <2>1, <2>4, SeqDef
  <2>6. DOMAIN B = 1..k /\ DOMAIN B = 1..Len(B) /\ Len(B) \in Nat
    BY <2>3, <2>5, LenProperties
  <2>7. Len(B) = k
    BY <2>1, <2>6
  <2>8. \A i \in 1..k : B[i] = At0(L[i])
    BY <1>9, <2>3
  <2> QED BY <2>5, <2>7, <2>8
<1> HIDE DEF B
<1>12. /\ SubSeq(B, 1, p) \in Seq(Lines) /\ Len(SubSeq(B, 1, p)) = p
       /\ \A i \in 1..p : SubSeq(B, 1, p)[i] = B[i] /\ i \in 1..k
  <2>1. p \in Nat /\ p <= k /\ k \in Nat
    BY <1>1, <1>2
  <2>2. 1 \in 1..(Len(B) + 1) /\ p \in (1 - 1)..Len(B)
    BY <1>11, <2>1
  <2>3. /\ SubSeq(B, 1, p) \in Seq(Lines) /\ Len(SubSeq(B, 1, p)) = p - 1 + 1
        /\ \A i \in 1..(p - 1 + 1) : SubSeq(B, 1, p)[i] = B[1 + i - 1]
    BY <1>11, <2>2, SubFacts
  <2>4. p - 1 + 1 = p /\ \A i \in 1..p : 1 + i - 1 = i /\ i \in 1..k
    BY <2>1
  <2> QED BY <2>3, <2>4
<1>13. SubSeq(B, 1, p) = Z
  <2> DEFINE s == SubSeq(B, 1, p)
  <2>1. s \in Seq(Lines) /\ Len(s) = Len(Z)
    BY <1>8, <1>12
  <2>2. \A i \in 1..Len(s) : s[i] = Z[i]
    BY <1>8, <1>11, <1>12
  <2> HIDE DEF s
  <2>3. s = Z
    BY <1>10, <2>1, <2>2, SeqEqual
  <2> QED BY <2>3 DEF s
<1>14. Len(B) >= Len(Z) /\ SubSeq(B, 1, Len(Z)) = Z
  BY <1>1, <1>2, <1>8, <1>11, <1>13
<1> QED BY <1>14 DEF Follows, Expected, B, X, Z

-----------------------------------------------------------------------------
(* The log of a correct core agrees.                                       *)

\* After the lines of j events, the rows are theirs.
Judged(E, R, j, q) ==
  /\ ~ Joining(R)[q]
  /\ Len(Joined(R)[q]) = j
  /\ \A h \in 1..j : Shown(Joined(R)[q][h], E[h])

\* One more row, of the next event.
LEMMA OneRow ==
  ASSUME NEW E \in Seq(Events), NEW R \in Seq(Lines), NEW q \in 0..Len(R), NEW p \in 0..Len(R),
         NEW j \in Nat, j + 1 <= Len(E), Judged(E, R, j, q), NEW x \in Results(R),
         Joined(R)[p] = Append(Joined(R)[q], x), ~ Joining(R)[p], Shown(x, E[j + 1])
  PROVE  Judged(E, R, j + 1, p)
<1> DEFINE s == Joined(R)[q]
           t == Joined(R)[p]
           S == Results(R)
<1>1. s \in Seq(S) /\ Len(s) = j /\ x \in S
  <2>1. Len(R) \in Nat
    BY LenProperties
  <2>2. s \in Seq(S)
    BY <2>1, JoinedFacts
  <2> QED BY <2>2 DEF Judged
<1>2. t = Append(s, x) /\ \A h \in 1..j : Shown(s[h], E[h])
  BY DEF Judged
<1> HIDE DEF s, t, S
<1>3. Len(t) = j + 1 /\ t[j + 1] = x /\ \A h \in 1..j : t[h] = s[h]
  BY <1>1, <1>2, AppendProperties
<1>4. ASSUME NEW h \in 1..(j + 1) PROVE Shown(t[h], E[h])
  <2>1. CASE h \in 1..j
    BY <1>2, <1>3, <2>1
  <2>2. CASE h = j + 1
    BY <1>3, <2>2
  <2> QED BY <2>1, <2>2
<1> QED BY <1>3, <1>4 DEF Judged, t

\* The one or two lines of the next event give its row.
LEMMA StepJudged ==
  ASSUME NEW E \in Seq(Events), Joinable(E), NEW j \in 1..Len(E),
         Judged(E, LogsOf(E, 2)[Len(E)], j - 1, Len(LogsOf(E, 2)[j - 1]))
  PROVE  Judged(E, LogsOf(E, 2)[Len(E)], j, Len(LogsOf(E, 2)[j]))
<1> DEFINE L == LogsOf(E, 2)
           N == Len(E)
           R == L[N]
           n == Len(R)
           e == E[j]
           c == 2 * j
           q == Len(L[j - 1])
           p == Len(L[j])
           J == Joining(R)
           O == Joined(R)
<1>0. 2 \in Nat /\ 0 \in Int
  OBVIOUS
<1>1. /\ N \in Nat /\ e \in Events /\ Joins(e) /\ c \in Int /\ j - 1 \in 0..N /\ j \in 0..N
      /\ N \in 0..N /\ j - 1 \in 0..j /\ j \in Nat /\ j - 1 \in Nat /\ j - 1 + 1 = j
  BY LenProperties DEF Joinable
<1>2. R \in Seq(Lines) /\ n \in Nat /\ \A i \in 1..n : R[i] \in Lines
  <2>1. R \in Seq(Lines)
    BY RtlFacts
  <2> QED BY <2>1, LenProperties
<1>3. /\ L[j] = L[j - 1] \o Logged(c, e) /\ p = q + Size(e)
      /\ L[j - 1] \in Seq(Lines)
  BY <1>0, <1>1, LogFacts
<1>4. p \in Nat /\ p <= n /\ \A i \in 1..p : R[i] = L[j][i]
  BY <1>0, <1>1, LogPrefix
<1>5. Logged(c, e) \in Seq(Lines) /\ Len(Logged(c, e)) = Size(e)
  BY <1>1, LoggedFacts
<1>6. q \in Nat
  BY <1>0, <1>1, LogPrefix
<1>7. ASSUME NEW m \in 1..Size(e) PROVE R[q + m] = Logged(c, e)[m]
  <2> DEFINE s == L[j - 1]
             t == Logged(c, e)
  <2>1. s \in Seq(Lines) /\ t \in Seq(Lines) /\ Len(s) = q /\ Len(t) = Size(e)
    BY <1>3, <1>5
  <2>2. L[j] = s \o t
    BY <1>3
  <2>3. q + m \in 1..p
    <3>1. Size(e) \in Nat
      BY DEF Size
    <3> HIDE DEF p, q, e
    <3> QED BY <1>3, <1>6, <3>1
  <2> HIDE DEF s, t
  <2>4. (s \o t)[Len(s) + m] = t[m]
    <3>1. m \in 1..Len(t) /\ s \in Seq(Lines) /\ t \in Seq(Lines)
      BY <2>1
    <3> QED BY <3>1, Concat
  <2>5. R[q + m] = (s \o t)[q + m]
    BY <1>4, <2>2, <2>3
  <2> QED BY <2>1, <2>4, <2>5 DEF t
<1>8. Judged(E, R, j - 1, q)
  OBVIOUS
\* Two lines of one cycle are of one event that splits.
<1>9. ASSUME NEW i \in 1..n, i + 1 \in 1..n, SameStore(R[i], R[i + 1])
      PROVE  \E h \in 1..N : /\ i = Len(L[h - 1]) + 1 /\ Splits(E[h])
                             /\ R[i] = HalfLine(2 * h, E[h], LowDigits(E[h]))
  <2> DEFINE b == i + 1
  <2>1. i < b /\ b \in 1..n /\ R[i].cyc = R[b].cyc
    BY <1>9 DEF SameStore
  <2> HIDE DEF b
  <2>2. \E h \in 1..N :
           /\ i = Len(L[h - 1]) + 1 /\ b = i + 1 /\ Splits(E[h])
           /\ R[i] = HalfLine(2 * h, E[h], LowDigits(E[h]))
           /\ R[b] = HalfLine(2 * h, E[h], HighDigits(E[h]))
    BY <2>1, RtlPairs
  <2> QED BY <2>2
<1>10. CASE ~ Splits(e)
  <2>1. Size(e) = 1 /\ p = q + 1 /\ p \in 1..n /\ q \in 0..n /\ p \in 0..n /\ p - 1 = q
    <3>1. Size(e) = 1
      BY <1>10 DEF Size
    <3> HIDE DEF p, q, n, e
    <3> QED BY <1>2, <1>3, <1>4, <1>6, <3>1
  <2>2. R[p] = Event(c, e)
    <3>1. R[q + 1] = Logged(c, e)[1]
      BY <1>7, <2>1
    <3>2. Logged(c, e) = <<Event(c, e)>>
      BY <1>1, <1>10, LoggedFacts
    <3> DEFINE x == Event(c, e)
    <3> HIDE DEF x
    <3>3. <<x>>[1] = x
      OBVIOUS
    <3> QED BY <2>1, <3>1, <3>2, <3>3 DEF x
  <2>3. R[p].cyc = c /\ Shown(R[p], e)
    BY <2>2 DEF Event, Shown
  <2>4. ~ J[p]
    <3> SUFFICES ASSUME J[p] PROVE FALSE
      OBVIOUS
    <3>1. p < n /\ SameStore(R[p], R[p + 1])
      BY <1>2, <2>1, TakesFacts
    <3>2. p + 1 \in 1..n
      BY <1>2, <2>1, <3>1
    <3>3. PICK h \in 1..N : /\ p = Len(L[h - 1]) + 1 /\ Splits(E[h])
                            /\ R[p] = HalfLine(2 * h, E[h], LowDigits(E[h]))
      BY <1>9, <2>1, <3>1, <3>2
    <3>4. R[p].cyc = 2 * h
      BY <3>3 DEF HalfLine
    <3>5. h = j
      BY <2>3, <3>4
    <3> QED BY <1>10, <3>3, <3>5
  <2>5. ~ J[p - 1]
    BY <1>8, <2>1 DEF Judged
  <2>6. O[p] = Append(O[p - 1], R[p])
    BY <1>2, <2>1, <2>4, <2>5, JoinedFacts
  <2>7. O[p] = Append(O[q], R[p]) /\ R[p] \in Results(R)
    BY <2>1, <2>6 DEF Results
  <2> DEFINE g == j - 1
  <2>8. g \in Nat /\ g + 1 = j /\ g + 1 <= N /\ Judged(E, R, g, q) /\ Shown(R[p], E[g + 1])
    BY <1>1, <1>8, <2>3
  <2> HIDE DEF g, q, p, R
  <2>9. Judged(E, R, g + 1, p)
    BY <1>2, <2>1, <2>4, <2>7, <2>8, OneRow
  <2> QED BY <2>8, <2>9 DEF p, R
<1>11. CASE Splits(e)
  <2> DEFINE a == q + 1
  <2>1. /\ Size(e) = 2 /\ p = q + 2 /\ p \in 1..n /\ q \in 0..n /\ p \in 0..n /\ p - 1 = a
        /\ a \in 1..n /\ a - 1 = q /\ a + 1 = p /\ a < n
    <3>1. Size(e) = 2
      BY <1>11 DEF Size
    <3> HIDE DEF p, q, n, e
    <3> QED BY <1>2, <1>3, <1>4, <1>6, <3>1
  <2>2. /\ R[a] = HalfLine(c, e, LowDigits(e))
        /\ R[p] = HalfLine(c, e, HighDigits(e))
    <3>1. R[q + 1] = Logged(c, e)[1] /\ R[q + 2] = Logged(c, e)[2]
      BY <1>7, <2>1
    <3>2. /\ Logged(c, e)[1] = HalfLine(c, e, LowDigits(e))
          /\ Logged(c, e)[2] = HalfLine(c, e, HighDigits(e))
      BY <1>1, <1>11, LoggedFacts
    <3> QED BY <2>1, <3>1, <3>2
  <2> HIDE DEF a, p, q, n, e, c, R
  <2>3. /\ R[a].cyc = c /\ R[a].pc = e.pc /\ R[a].ins = e.ins /\ IsStore(R[a])
        /\ Upper(R[a]) = Upper(e) /\ Dig(R[a]) = LowDigits(e)
        /\ R[a].touch[1].at = e.touch[1].at
    BY <1>1, <1>11, <2>2, HalfIs
  <2>4. /\ R[p].cyc = c /\ R[p].pc = e.pc /\ R[p].ins = e.ins /\ IsStore(R[p])
        /\ Dig(R[p]) = HighDigits(e)
    BY <1>1, <1>11, <2>2, HalfIs
  <2>5. SameStore(R[a], R[p])
    BY <2>3, <2>4 DEF SameStore
  <2>6. ~ J[a - 1]
    BY <1>8, <2>1 DEF Judged
  <2>7. J[a]
    <3>1. SameStore(R[a], R[a + 1])
      BY <2>1, <2>5
    <3> QED BY <1>2, <2>1, <2>6, <3>1, TakesFacts DEF n
  <2>8. ~ J[p] /\ J[p - 1]
    <3>1. J[p - 1]
      BY <2>1, <2>7
    <3> QED BY <1>2, <2>1, <3>1, TakesFacts DEF n
  <2> DEFINE x == Merged(R[a], R[p])
  <2>9. O[a] = Append(O[a - 1], Merged(R[a], R[a + 1]))
    BY <1>2, <2>1, <2>6, <2>7, JoinedFacts DEF n
  <2>10. O[p] = O[p - 1]
    BY <1>2, <2>1, <2>8, JoinedFacts DEF n
  <2>11. O[p] = Append(O[q], x) /\ x \in Results(R)
    <3>1. O[p] = Append(O[q], x)
      BY <2>1, <2>9, <2>10
    <3>2. x = Merged(R[a], R[a + 1])
      BY <2>1
    <3> QED BY <2>1, <3>1, <3>2 DEF Results, n
  <2>12. Shown(x, e)
    <3>1. /\ x.pc = R[a].pc /\ x.ins = R[a].ins
          /\ x.touch = Mem(R[a].touch[1].at, Both(Dig(R[p]), Dig(R[a]), Digits - Upper(R[a])))
      <4>1. R[a] \in Lines
        BY <1>2, <2>1
      <4> QED BY <4>1, MergedIs
    <3> HIDE DEF x
    <3>2. e.touch[1].dig = Both(HighDigits(e), LowDigits(e), Digits - Upper(e))
      BY <1>1, <1>11, MergeBack
    <3>3. x.touch = Mem(e.touch[1].at, e.touch[1].dig)
      BY <2>3, <2>4, <3>1, <3>2
    <3>4. e.touch = Mem(e.touch[1].at, e.touch[1].dig)
      <4> DEFINE y == Mem(e.touch[1].at, e.touch[1].dig)
                 s == e.touch
      <4>1. s \in Seq(Touch) /\ Len(s) = 1 /\ s[1].what = "mem"
        BY <1>1, <1>11 DEF Events, Splits, IsStore
      <4>2. s[1] \in Touch
        BY <4>1
      <4>3. s[1] = [what |-> "mem", at |-> s[1].at, dig |-> s[1].dig]
        BY <4>1, <4>2 DEF Touch
      <4>4. y = <<s[1]>>
        BY <4>3 DEF Mem
      <4> HIDE DEF s, y
      <4>5. y \in Seq(Touch) /\ Len(y) = 1 /\ y[1] = s[1]
        BY <4>2, <4>4
      <4>6. s = y
        BY <4>1, <4>5, SeqEqual
      <4> QED BY <4>6 DEF s, y
    <3> QED BY <2>3, <3>1, <3>3, <3>4 DEF Shown
  <2> DEFINE g == j - 1
  <2>13. g \in Nat /\ g + 1 = j /\ g + 1 <= N /\ Judged(E, R, g, q) /\ Shown(x, E[g + 1])
    BY <1>1, <1>8, <2>12 DEF e
  <2> HIDE DEF g, x
  <2>14. Judged(E, R, g + 1, p)
    BY <1>2, <2>1, <2>8, <2>11, <2>13, OneRow DEF n
  <2> QED BY <2>13, <2>14 DEF p, R
<1> QED BY <1>10, <1>11

\* A correct core passes.
LEMMA CorrectAgrees ==
  ASSUME NEW E \in Seq(Events), Joinable(E), NEW raw, ValidLines(raw) = LogsOf(E, 2)[Len(E)]
  PROVE  Agrees(E, Processed(raw))
<1> DEFINE L == LogsOf(E, 2)
           N == Len(E)
           R == L[N]
           n == Len(R)
           Good == {m \in Nat : m <= N => Judged(E, R, m, Len(L[m]))}
<1>1. N \in Nat /\ 2 \in Nat
  BY LenProperties
<1>2. R \in Seq(Lines) /\ n \in Nat /\ n \in 0..n /\ \A i \in 1..n : Whole(R[i])
  BY RtlFacts, LenProperties
<1>3. Clean(R)
  <2>1. \A i \in 1..n : R[i].cyc \in Nat
    BY RtlFacts
  <2>2. \A x \in Nat : x # -2
    OBVIOUS
  <2> HIDE DEF R
  <2> QED BY <2>1, <2>2 DEF Clean
<1>4. 0 \in Good
  <2>1. L[0] = <<>>
    BY <1>1, LogFacts
  <2>2. Len(L[0]) = 0
    BY <2>1, EmptySeq
  <2>3. Joined(R)[0] = <<>> /\ ~ Joining(R)[0]
    BY <1>2, JoinedFacts, TakesFacts
  <2>4. Len(Joined(R)[0]) = 0
    BY <2>3, EmptySeq
  <2>5. Judged(E, R, 0, 0)
    BY <2>3, <2>4 DEF Judged
  <2> QED BY <2>2, <2>5
<1>5. ASSUME NEW m \in Nat, m \in Good PROVE m + 1 \in Good
  <2> SUFFICES ASSUME m + 1 <= N PROVE Judged(E, R, m + 1, Len(L[m + 1]))
    OBVIOUS
  <2> DEFINE h == m + 1
  <2>1. h \in 1..N /\ h - 1 = m
    BY <1>1
  <2>2. Judged(E, R, h - 1, Len(L[h - 1]))
    BY <1>1, <1>5, <2>1
  <2> HIDE DEF h
  <2>3. Judged(E, R, h, Len(L[h]))
    BY <2>1, <2>2, StepJudged
  <2> QED BY <2>3 DEF h
<1>6. Nat \subseteq Good
  <2> HIDE DEF Good
  <2> QED BY <1>4, <1>5, NatSetInduction
<1>7. Judged(E, R, N, n)
  <2>1. N \in Good
    BY <1>1, <1>6
  <2> QED BY <1>1, <2>1
<1> DEFINE X == Executed(Joined(R)[n])
<1>8. /\ Len(X) = Len(Joined(R)[n]) /\ \A i \in 1..Len(Joined(R)[n]) : X[i] = Joined(R)[n][i]
  BY <1>2, <1>3, RowsOfJoined
<1>9. Executed(Processed(raw)) = X
  BY DEF Processed
<1> HIDE DEF X
<1>10. DOMAIN E = 1..N
  BY LenProperties
<1>11. Len(X) = N /\ \A j \in 1..N : Shown(X[j], E[j])
  BY <1>7, <1>8 DEF Judged
<1> QED BY <1>1, <1>9, <1>10, <1>11 DEF Agrees, Shown

-----------------------------------------------------------------------------
(* The verdicts.                                                           *)

\* What a verdict rests on: the log of the ISS is that of the program, that of
\* the RTL one that the simulator may write of it, processed once.
Rests(t) ==
  /\ at[t] \in {"imem", "sim", "running", "hung", "process", "compare", "stats"} =>
       work[t].iss.log = Traces[work[t].elf]
  /\ at[t] = "process" /\ work[t].rtl.by # 0 =>
       /\ work[t].rtl.raw \in Logs[work[t].elf]
       /\ work[t].rtl.log = work[t].rtl.raw
  /\ at[t] \in {"compare", "stats"} =>
       /\ work[t].rtl.raw \in Logs[work[t].elf]
       /\ work[t].rtl.log = Processed(work[t].rtl.raw)
  /\ at[t] = "stats" =>
       (said[t] = "PASSED" <=> Agrees(Traces[work[t].elf], work[t].rtl.log))

\* What a verdict rests on, step by step of a test's thread.
LEMMA ThreadRests ==
  ASSUME SuiteInv, NEW t \in Tests, Thread(t), Running, Rests(t)
  PROVE  Rests(t)'
<1>0. /\ Shapes /\ Done(t) /\ File(work[t].rtl) /\ Directory(work[t]) /\ DOMAIN work = Tests
      /\ at \in [Tests -> Steps] /\ DOMAIN said = Tests
  BY DEF SuiteInv, Shapes, Directory
<1>1. CASE Begin(t) \/ GenC(t) \/ GenPyVedas(t) \/ GenAsm(t) \/ Timeout(t) \/ Stats(t)
  <2>1. \E step \in {"gen", "iss", "failed", "done"} : Goto(t, step)
    BY <1>1, Zenon DEF Begin, GenC, GenPyVedas, GenAsm, Timeout, Stats, Link, Fail
  <2>2. at'[t] \in {"gen", "iss", "failed", "done"}
    BY <1>0, <2>1, GotoShape
  <2> QED BY <2>2 DEF Rests
<1>2. CASE RunIss(t)
  <2>1. CASE /\ Put(t, "iss", [by |-> run, log |-> Traces[work[t].elf], raw |-> <<>>])
             /\ Goto(t, "imem")
    <3>1. /\ work'[t].iss = [by |-> run, log |-> Traces[work[t].elf], raw |-> <<>>]
          /\ work'[t].elf = work[t].elf
      BY <1>0, <2>1, FileShapes, PutShape
    <3>2. at'[t] = "imem" /\ work'[t].iss.log = Traces[work[t].elf]
      BY <1>0, <2>1, <3>1, GotoShape
    <3> QED BY <3>1, <3>2 DEF Rests
  <2>2. CASE Goto(t, "failed")
    <3>1. at'[t] = "failed"
      BY <1>0, <2>2, GotoShape
    <3> QED BY <3>1 DEF Rests
  <2> QED BY <1>2, <2>1, <2>2 DEF RunIss, Fail
<1>3. CASE PrepareImem(t)
  <2>1. at[t] = "imem" /\ work' = work /\ (Goto(t, "sim") \/ Goto(t, "failed"))
    BY <1>3 DEF PrepareImem
  <2>2. at'[t] \in {"sim", "failed"}
    BY <1>0, <2>1, GotoShape
  <2> QED BY <2>1, <2>2 DEF Rests
<1>4. CASE StartSim(t)
  <2>1. /\ at[t] = "sim" /\ Put(t, "rtl", NoFile)
        /\ Goto(t, "running") \/ Goto(t, "hung")
    BY <1>4 DEF StartSim, Unlink
  <2>2. work'[t].iss = work[t].iss /\ work'[t].elf = work[t].elf
    BY <1>0, <2>1, FileShapes, PutShape
  <2>3. at'[t] \in {"running", "hung"}
    BY <1>0, <2>1, GotoShape
  <2> QED BY <2>1, <2>2, <2>3 DEF Rests
<1>5. CASE EndSim(t)
  <2>1. at[t] = "running" /\ work[t].rtl.by = 0
    BY <1>0, <1>5 DEF EndSim, Done
  <2>2. CASE \E log \in Logs[work[t].elf] : /\ Put(t, "rtl", [by |-> run, log |-> log, raw |-> log])
                                            /\ Goto(t, "process")
    <3>1. PICK log \in Logs[work[t].elf] : /\ Put(t, "rtl", [by |-> run, log |-> log, raw |-> log])
                                           /\ Goto(t, "process")
      BY <2>2
    <3>2. /\ work'[t].rtl = [by |-> run, log |-> log, raw |-> log]
          /\ work'[t].iss = work[t].iss /\ work'[t].elf = work[t].elf
      BY <1>0, <3>1, FileShapes, PutShape
    <3>3. at'[t] = "process" /\ work'[t].rtl.log = log /\ work'[t].rtl.raw = log
      BY <1>0, <3>1, <3>2, GotoShape
    <3> QED BY <2>1, <3>2, <3>3 DEF Rests
  <2>3. CASE (Goto(t, "process") \/ Goto(t, "failed")) /\ work' = work
    <3>1. at'[t] \in {"process", "failed"}
      BY <1>0, <2>3, GotoShape
    <3> QED BY <2>1, <2>3, <3>1 DEF Rests
  <2> QED BY <1>5, <2>2, <2>3 DEF EndSim, Fail
<1>6. CASE ProcessLog(t)
  <2>1. at[t] = "process"
    BY <1>6 DEF ProcessLog
  <2>2. CASE work[t].rtl.by = 0
    <3>1. Goto(t, "failed")
      BY <1>6, <2>2 DEF ProcessLog, Fail
    <3>2. at'[t] = "failed"
      BY <1>0, <3>1, GotoShape
    <3> QED BY <3>2 DEF Rests
  <2>3. CASE work[t].rtl.by # 0
    <3> DEFINE d == work[t]
               f == d.rtl
               log == Processed(f.log)
    <3>1. work' = [work EXCEPT ![t].rtl.log = log] /\ Goto(t, "compare")
      BY <1>6, <2>3 DEF ProcessLog
    <3>2. f.raw \in Logs[d.elf] /\ f.log = f.raw /\ d.iss.log = Traces[d.elf]
      BY <2>1, <2>3 DEF Rests
    <3>3. log = Processed(f.raw)
      BY <3>2
    <3> HIDE DEF log
    <3>4. work'[t] = [d EXCEPT !.rtl = [f EXCEPT !.log = log]]
      BY <1>0, <3>1
    <3>5. DOMAIN d = {"elf", "dram", "iss", "rtl"} /\ DOMAIN f = {"by", "log", "raw"}
      BY <1>0 DEF Directory, File
    <3> HIDE DEF d, f
    <3>6. /\ work'[t].elf = d.elf /\ work'[t].iss = d.iss
          /\ work'[t].rtl = [f EXCEPT !.log = log]
      BY <3>4, <3>5
    <3>7. work'[t].rtl.log = log /\ work'[t].rtl.raw = f.raw
      BY <3>5, <3>6
    <3>8. at'[t] = "compare"
      BY <1>0, <3>1, GotoShape
    <3> QED BY <3>2, <3>3, <3>6, <3>7, <3>8 DEF Rests
  <2> QED BY <2>2, <2>3
<1>7. CASE Compare(t)
  <2> DEFINE v == IF Agrees(work[t].iss.log, work[t].rtl.log) THEN "PASSED" ELSE "FAILED"
  <2>1. at[t] = "compare" /\ work' = work /\ Goto(t, "stats") /\ said' = [said EXCEPT ![t] = v]
    BY <1>7 DEF Compare
  <2>2. at'[t] = "stats"
    BY <1>0, <2>1, GotoShape
  <2>3. said'[t] = v
    BY <1>0, <2>1
  <2>4. work[t].iss.log = Traces[work[t].elf]
    BY <2>1 DEF Rests
  <2>5. v = "PASSED" <=> Agrees(Traces[work[t].elf], work[t].rtl.log)
    BY <2>4
  <2> HIDE DEF v
  <2> QED BY <2>1, <2>2, <2>3, <2>4, <2>5 DEF Rests
<1> QED BY <1>1, <1>2, <1>3, <1>4, <1>5, <1>6, <1>7 DEF Thread

AllRest == \A t \in Tests : Rests(t)

\* No other test is touched, and what has not begun rests on nothing.
LEMMA RestsStep == SuiteInv /\ AllRest /\ [Next]_vars => AllRest'
<1> SUFFICES ASSUME SuiteInv, AllRest, [Next]_vars PROVE AllRest'
  OBVIOUS
<1>1. CASE UNCHANGED <<work, at, said>>
  BY <1>1 DEF AllRest, Rests
<1>2. CASE UNCHANGED vars \/ Main \/ \E s \in Trees : Edit(s)
  <2>1. UNCHANGED <<work, at, said>>
    BY <1>2 DEF vars, Main, Finish, Leave, Collect, Edit
  <2> QED BY <1>1, <2>1
<1>3. ASSUME NEW l \in Lists, NEW s \in Simulators, Invoke(l, s) PROVE AllRest'
  <2>1. \A t \in Tests : at'[t] \in {"queued", "out"}
    BY <1>3 DEF Invoke
  <2> QED BY <2>1 DEF AllRest, Rests
<1>4. ASSUME NEW t \in Tests, Thread(t) PROVE AllRest'
  <2>1. at[t] \notin {"out", "done", "failed"}
    BY <1>4
    DEF Thread, Begin, GenC, GenPyVedas, GenAsm, RunIss, PrepareImem, StartSim,
        EndSim, Timeout, ProcessLog, Compare, Stats
  <2>2. Running
    BY <2>1 DEF SuiteInv, MainInv, ExitHonest, AllRun, Ended
  <2>3. tree.ver \in Versions /\ run \in Nat /\ Typed(t)
    BY SuiteAssumption DEF SuiteInv, Types, Trees
  <2>4. ThreadStep(t)
    BY <1>4, <2>2, <2>3, ThreadMoves DEF SuiteInv
  <2>5. \A u \in Tests \ {t} : /\ at'[u] = at[u] /\ said'[u] = said[u]
                               /\ work'[u] = work[u]
    BY <2>4, ThreadKeeps DEF SuiteInv
  <2>6. Rests(t)'
    BY <1>4, <2>2, ThreadRests DEF AllRest
  <2>7. ASSUME NEW u \in Tests \ {t} PROVE Rests(u)'
    BY <2>5 DEF AllRest, Rests
  <2> QED BY <2>6, <2>7 DEF AllRest
<1> QED BY <1>2, <1>3, <1>4 DEF Next, User

\* The stores of the programs are those whose halves the merge can join.
TracesJoinable == \A v \in Versions : Joinable(Traces[v])

\* A correct core is not FAILED.
LEMMA RestsCorrect == SuiteInv /\ AllRest => CorrectPasses
<1> SUFFICES ASSUME SuiteInv, AllRest, NEW t \in Tests, at[t] = "stats", said[t] = "FAILED",
                    \A i \in DOMAIN work[t].iss.log : Joins(work[t].iss.log[i]),
                    ValidLines(work[t].rtl.raw) = RtlLog(work[t].elf)
             PROVE  FALSE
  BY DEF CorrectPasses
<1> DEFINE E == Traces[work[t].elf]
           raw == work[t].rtl.raw
<1>1. E \in Seq(Events) /\ RtlLog(work[t].elf) = LogsOf(E, 2)[Len(E)]
  <2>1. work[t].elf \in Versions
    BY DEF SuiteInv, Types, Typed
  <2> QED BY <2>1, TracesAssumption DEF Events, RtlLog
<1>2. /\ work[t].iss.log = E
      /\ said[t] = "PASSED" <=> Agrees(E, Processed(raw))
  BY DEF AllRest, Rests
<1>3. ~ Agrees(E, Processed(raw))
  <2>1. said[t] # "PASSED"
    OBVIOUS
  <2> QED BY <1>2, <2>1
<1>4. ValidLines(raw) = LogsOf(E, 2)[Len(E)]
  BY <1>1
<1> HIDE DEF E, raw
<1>5. Joinable(E)
  BY <1>1, <1>2, LenProperties DEF Joinable
<1>6. Agrees(E, Processed(raw))
  BY <1>1, <1>4, <1>5, CorrectAgrees
<1> QED BY <1>3, <1>6

\* What is PASSED is right.
LEMMA RestsSound == TracesJoinable /\ SuiteInv /\ AllRest => PassSound
<1> SUFFICES ASSUME TracesJoinable, SuiteInv, AllRest,
                    NEW t \in Tests, at[t] = "stats", said[t] = "PASSED"
             PROVE  Follows(work[t].rtl.raw, work[t].iss.log)
  BY DEF PassSound
<1> DEFINE v == work[t].elf
           E == Traces[v]
           raw == work[t].rtl.raw
<1>1. v \in Versions
  BY DEF SuiteInv, Types, Typed
<1>2. E \in Seq(Events) /\ RtlLog(v) = LogsOf(E, 2)[Len(E)] /\ Joinable(E)
  BY <1>1, TracesAssumption DEF Events, RtlLog, TracesJoinable
<1>3. /\ work[t].iss.log = E /\ raw \in Logs[v]
      /\ work[t].rtl.log = Processed(raw)
      /\ said[t] = "PASSED" <=> Agrees(E, work[t].rtl.log)
  BY DEF AllRest, Rests
<1>4. Fine(ValidLines(raw), RtlLog(v))
  BY <1>1, <1>2, <1>3, LogsFine
<1>5. Agrees(E, Processed(raw)) /\ Fine(ValidLines(raw), LogsOf(E, 2)[Len(E)])
  BY <1>2, <1>3, <1>4
<1>6. Follows(raw, E)
  <2> HIDE DEF E, raw
  <2> QED BY <1>2, <1>5, PassRight
<1> QED BY <1>3, <1>6

\* The invariant of the verdicts.
LEMMA RestsInvariant == Spec => []AllRest
<1>1. Init => AllRest
  BY DEF Init, AllRest, Rests
<1> QED BY <1>1, RestsStep, SuiteInvariant, PTL DEF Spec

\* A core that logs what it ought to, of a program whose split stores the merge
\* can join, is not FAILED, whatever the other programs are.
THEOREM CorrectIsPassed == Spec => []CorrectPasses
BY RestsCorrect, RestsInvariant, SuiteInvariant, PTL

\* A test is PASSED only if the RTL did what the ISS did, event by event and
\* half by half, and a core that logs what it ought to is never FAILED.
THEOREM VerdictsAreRight ==
  ASSUME TracesJoinable
  PROVE  Spec => []VerdictRight
<1>1. AllRest /\ SuiteInv => VerdictRight
  BY RestsCorrect, RestsSound DEF VerdictRight
<1> QED BY <1>1, RestsInvariant, SuiteInvariant, PTL
=============================================================================
