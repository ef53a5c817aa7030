------------------------------- MODULE SimSuite -------------------------------
(***************************************************************************)
(* The simulation manager (tools/sim_manager.py): a suite of tests, each   *)
(* compiled, run on the ISS and on the RTL, and judged by comparing the    *)
(* two logs, in a pool of threads over work directories that outlive the   *)
(* invocation.                                                             *)
(*                                                                         *)
(* The test sources change between invocations.  A program is the number   *)
(* of the checkout it was built from; Traces gives what the ISS logs for it. *)
(* The compilers, the ISS and the simulators are the environment: they     *)
(* succeed or fail, and Logs says what the RTL may log.  A logged value is *)
(* the sequence of its digits, which the log processing cuts and joins.    *)
(***************************************************************************)
EXTENDS Integers, Sequences, FiniteSets

CONSTANTS
  Lists,      \* the task lists, and the single tests: [name, kind, needs]
  Vector,     \* hw_config.has_vector_unit
  Traces,     \* Traces[v]: the events of program v
  Dram,       \* the programs with a DRAM image
  Faults,     \* what may be wrong with an RTL log
  Simulators, \* of "verilator", "xsim"
  Cores,      \* multiprocessing.cpu_count()
  MaxRuns,    \* bound: invocations
  Digits      \* hexadecimal digits of a word (8)

Versions == DOMAIN Traces
Kinds == {"c", "pyvedas", "asm", "elf"}

ASSUME SuiteAssumption ==
  /\ \A l \in Lists : \A i \in DOMAIN l : l[i].kind \in Kinds
  /\ Vector \in BOOLEAN
  /\ Cores \in Nat \ {0} /\ MaxRuns \in Nat \ {0}
  /\ Simulators \subseteq {"verilator", "xsim"}
  /\ Faults \subseteq {"short", "long", "wrong", "lost", "twice", "leftover"}

\* What a line says of its instruction: a register, the pc or a word of
\* memory that it writes, or a branch or ecall and no number.
Touch == [what : {"x", "pc", "mem", "taken", "ecall"},
          at : Nat, dig : [1..Digits -> 0..15]]

\* A line of the ISS says something.
ASSUME TracesAssumption ==
  /\ Digits \in Nat /\ Digits >= 8 /\ Digits % 4 = 0
  /\ \A v \in Versions :
       Traces[v] \in Seq([pc : Nat, ins : Nat, touch : Seq(Touch) \ {<<>>}])

\* read_task_list: a line whose predicate is false is skipped.
Read(list) == SelectSeq(list, LAMBDA line : line.needs = "vector" => Vector)

Named(list) == {list[i].name : i \in DOMAIN list}
Tests == UNION {Named(Read(l)) : l \in Lists}
Kind(t) ==
  CHOOSE k \in Kinds : \E l \in Lists : \E i \in DOMAIN l :
    l[i].name = t /\ l[i].kind = k

VARIABLES
  tree,     \* the checkout: the version of its tests, those that do not build
  work,     \* the files of work/<test>
  asked,    \* the tests of this invocation, in order
  at,       \* the step of run_e2e a test is in
  said,     \* the verdict printed in this invocation
  main,     \* the main thread: "idle", "waiting", "leaving", "exit0", "exit1"
  seen,     \* the futures it has collected
  sim,      \* the simulator of the invocation
  run       \* the number of the invocation

vars == <<tree, work, asked, at, said, main, seen, sim, run>>

-----------------------------------------------------------------------------
(* The two logs.                                                           *)

Event(cyc, e) == [cyc |-> cyc, pc |-> e.pc, ins |-> e.ins, touch |-> e.touch]
Text == [cyc |-> -1, pc |-> 0, ins |-> 0, touch |-> <<>>]     \* under 4 parts
Nul == [cyc |-> -2, pc |-> 0, ins |-> 0, touch |-> <<>>]

IsStore(l) == Len(l.touch) = 1 /\ l.touch[1].what = "mem"
Mem(a, digits) == <<[what |-> "mem", at |-> a, dig |-> digits]>>
Zeros(n) == [i \in 1..n |-> 0]

\* What the RTL logs of a word stored at a: one line, or two in one cycle,
\* the low bytes first, both with the address of the store.
Halves(cyc, e) ==
  LET a == e.touch[1].at
      low == Digits - 2 * (a % 4)
      d == e.touch[1].dig
      Half(digits) == [Event(cyc, e) EXCEPT !.touch = Mem(a, digits)]
  IN  <<Half(Zeros(Digits - low) \o SubSeq(d, Digits - low + 1, Digits)),
        Half(Zeros(low) \o SubSeq(d, 1, Digits - low))>>

Logged(cyc, e) ==
  IF IsStore(e) /\ e.touch[1].at % 4 # 0 THEN Halves(cyc, e)
  ELSE <<Event(cyc, e)>>

\* The lines of the first events of a trace, d cycles from one to the next.
LogsOf(events, d) ==
  LET Log[i \in 0..Len(events)] ==
        IF i = 0 THEN <<>> ELSE Log[i - 1] \o Logged(d * i, events[i])
  IN  Log

\* The log of a correct core that runs program v: an event every other cycle.
RtlLog(v) == LogsOf(Traces[v], 2)[Len(Traces[v])]

\* _iter_rtl_log_lines: what an untruncated file holds after a NUL is dropped.
ValidLines(log) ==
  IF \E i \in DOMAIN log : log[i] = Nul
  THEN SubSeq(log, 1, (CHOOSE i \in DOMAIN log :
                        log[i] = Nul /\ \A j \in 1..(i - 1) : log[j] # Nul) - 1)
  ELSE log

\* lstrip("0x"), and a slice that may be longer than the string.
Strip(d) ==
  LET zeros == CHOOSE n \in 0..Len(d) :
                 /\ \A i \in 1..n : d[i] = 0
                 /\ n < Len(d) => d[n + 1] # 0
  IN  SubSeq(d, zeros + 1, Len(d))
Cut(d, n) == SubSeq(d, 1, IF n < Len(d) THEN n ELSE Len(d))

SameStoreAnyCycle(l, m) ==
  /\ IsStore(l) /\ IsStore(m)
  /\ l.pc = m.pc /\ l.ins = m.ins

SameStore(l, m) ==
  /\ IsStore(l) /\ IsStore(m)
  /\ l.cyc = m.cyc /\ l.pc = m.pc /\ l.ins = m.ins

Merged(l, m) ==
  LET a == l.touch[1].at
      keep == Digits - 2 * (a % 4)
  IN  [l EXCEPT !.touch = Mem(a, Cut(Strip(m.touch[1].dig), keep)
                                   \o Cut(Strip(l.touch[1].dig), keep))]

\* process_rtl_log: the lines that take the next one in.  A line that was
\* taken in is deleted, and a line that took one in is not looked at again.
Joining(lines) ==
  LET Takes[i \in 0..Len(lines)] ==
        IF i = 0 THEN FALSE
        ELSE i < Len(lines) /\ ~ Takes[i - 1] /\ SameStore(lines[i], lines[i + 1])
  IN  Takes

\* What becomes of the first lines.
Joined(lines) ==
  LET joins == Joining(lines)
      Out[i \in 0..Len(lines)] ==
        IF i = 0 THEN <<>>
        ELSE IF joins[i - 1] THEN Out[i - 1]
        ELSE Append(Out[i - 1],
                    IF joins[i] THEN Merged(lines[i], lines[i + 1]) ELSE lines[i])
  IN  Out

Processed(log) == LET lines == ValidLines(log) IN Joined(lines)[Len(lines)]

\* read_rtl_log: what it keeps of the first lines.
Rows(lines) ==
  LET Row[i \in 0..Len(lines)] ==
        IF i = 0 THEN <<>>
        ELSE IF lines[i].touch = <<>> THEN Row[i - 1]
        ELSE Append(Row[i - 1], lines[i])
  IN  Row

Executed(log) == LET lines == ValidLines(log) IN Rows(lines)[Len(lines)]

\* compare_results: the RTL may log more than the ISS, never less.
Agrees(iss, log) ==
  LET rtl == Executed(log)
  IN  /\ Len(rtl) >= Len(iss)
      /\ \A i \in DOMAIN iss :
           /\ rtl[i].pc = iss[i].pc
           /\ rtl[i].ins = iss[i].ins
           /\ rtl[i].touch = iss[i].touch

\* calculate_perf_stats: it needs two different numbers to divide by.
HasStats(log) ==
  /\ log # <<>>
  /\ log[1].cyc >= 0 /\ log[Len(log)].cyc >= 0
  /\ log[Len(log)].cyc # log[1].cyc

-----------------------------------------------------------------------------
(* What the simulators may log of program v, beside the correct log.       *)

Without(s, i) == SubSeq(s, 1, i - 1) \o SubSeq(s, i + 1, Len(s))
Wrong(l) ==
  LET n == Len(l.touch)
      d == l.touch[n].dig
  IN  [l EXCEPT !.touch[n].dig = [d EXCEPT ![Len(d)] = 15 - d[Len(d)]]]

Faulty(log) ==
  LET n == Len(log)
  IN  [short |-> {SubSeq(log, 1, i) \o <<Text>> : i \in 0..(n - 1)},
       long |-> {Append(log, [log[i] EXCEPT !.cyc = @ + 2]) : i \in {n} \ {0}},
       wrong |-> {[log EXCEPT ![i] = Wrong(log[i])] : i \in 1..n},
       lost |-> {Without(log, i) : i \in 1..n},
       twice |-> {SubSeq(log, 1, i) \o SubSeq(log, i, n) : i \in 1..n},
       leftover |-> {log \o <<Nul>> \o SubSeq(log, i, n) : i \in 2..n}
                      \cup {SubSeq(log, 1, i) \o <<Nul>>
                              \o SubSeq(log, i + 1, n) : i \in 1..(n - 1)}]

Logs == [v \in Versions |->
           {RtlLog(v)} \cup UNION {Faulty(RtlLog(v))[f] : f \in Faults}]

-----------------------------------------------------------------------------
(* run_e2e, in a thread of the pool.                                       *)

NoFile == [by |-> 0, log |-> <<>>, raw |-> <<>>]   \* raw: before processing
Emptied(file) == [NoFile EXCEPT !.by = file.by]
Free == Cardinality({t \in Tests : at[t] \notin {"out", "queued", "done", "failed"}}) < Cores

Put(t, file, value) == work' = [work EXCEPT ![t][file] = value]
Goto(t, step) == at' = [at EXCEPT ![t] = step]
Fail(t) == Goto(t, "failed")     \* sys.exit(1): SystemExit in the future

\* The pool starts the tests in the order they were submitted.
Begin(t) ==
  /\ main \in {"waiting", "leaving"}
  /\ at[t] = "queued" /\ Free
  /\ \E i \in DOMAIN asked :
       asked[i].name = t /\ \A j \in 1..(i - 1) : at[asked[j].name] # "queued"
  /\ Goto(t, "gen")
  /\ UNCHANGED <<tree, work, asked, said, main, seen, sim, run>>

Builds(t) == t \notin tree.broken

\* _compile_riscv_elf: every tool's exit code is looked at, and an ELF
\* of an earlier run stays where the build fails.
Link(t, dram) ==
  /\ work' = [work EXCEPT ![t].elf = IF Builds(t) THEN tree.ver ELSE @,
                         ![t].dram = dram]
  /\ IF Builds(t) THEN Goto(t, "iss") ELSE Fail(t)

GenC(t) ==
  /\ at[t] = "gen" /\ Kind(t) = "c"
  /\ Link(t, work[t].dram)
  /\ UNCHANGED <<tree, asked, said, main, seen, sim, run>>

\* The JIT comes first, and writes dram.hex; its failure, too, is noticed.
GenPyVedas(t) ==
  /\ at[t] = "gen" /\ Kind(t) = "pyvedas"
  /\ \/ Link(t, IF tree.ver \in Dram THEN tree.ver ELSE work[t].dram)
     \/ ~Builds(t) /\ Fail(t) /\ UNCHANGED work
  /\ UNCHANGED <<tree, asked, said, main, seen, sim, run>>

GenAsmNoElf(t) ==
  /\ at[t] = "gen" /\ Kind(t) \in {"asm", "elf"}
  /\ \E kept \in BOOLEAN :
       Put(t, "elf", IF Builds(t) THEN tree.ver
                     ELSE IF kept THEN work[t].elf ELSE 0)
  /\ Goto(t, "iss")
  /\ UNCHANGED <<tree, asked, said, main, seen, sim, run>>

\* Assembly and prebuilt ELFs: the exit code is not looked at, only whether
\* there is an ELF.  The linker that fails removes it, the assembler does not.
GenAsm(t) ==
  /\ at[t] = "gen" /\ Kind(t) \in {"asm", "elf"}
  /\ \E kept \in BOOLEAN :
       LET elf == IF Builds(t) THEN tree.ver
                  ELSE IF kept THEN work[t].elf ELSE 0
       IN  /\ Put(t, "elf", elf)
           /\ IF elf = 0 THEN Fail(t) ELSE Goto(t, "iss")
  /\ UNCHANGED <<tree, asked, said, main, seen, sim, run>>

\* run_iss: an error is an exit code other than 0.
RunIss(t) ==
  /\ at[t] = "iss"
  /\ \/ /\ Put(t, "iss", [by |-> run, log |-> Traces[work[t].elf], raw |-> <<>>])
        /\ Goto(t, "imem")
     \/ /\ Put(t, "iss", [by |-> run, log |-> <<>>, raw |-> <<>>])
        /\ Fail(t)
  /\ UNCHANGED <<tree, asked, said, main, seen, sim, run>>

\* prepare_imem: the images of the ELF, unless it has no .text.  They are
\* written in every run, so a simulation runs the ELF of its own run.
PrepareImem(t) ==
  /\ at[t] = "imem"
  /\ \E step \in {"sim", "failed"} : Goto(t, step)
  /\ UNCHANGED <<tree, work, asked, said, main, seen, sim, run>>

\* _unlink_sim_logs
Unlink(t) == Put(t, "rtl", NoFile)

StartSimOverLogs(t) ==
  /\ at[t] = "sim"
  /\ \E step \in {"running", "hung"} : Goto(t, step)
  /\ UNCHANGED <<tree, work, asked, said, main, seen, sim, run>>

\* run_verilator and run_xsim: the logs of an earlier run go first.
StartSim(t) ==
  /\ at[t] = "sim"
  /\ Unlink(t)
  /\ \E step \in {"running", "hung"} : Goto(t, step)
  /\ UNCHANGED <<tree, asked, said, main, seen, sim, run>>

\* The simulator ends: with a log, without one, or with an error code.
EndSim(t) ==
  /\ at[t] = "running"
  /\ \/ /\ \E log \in Logs[work[t].elf] : Put(t, "rtl", [by |-> run, log |-> log, raw |-> log])
        /\ Goto(t, "process")
     \/ Goto(t, "process") /\ UNCHANGED work
     \/ Fail(t) /\ UNCHANGED work
  /\ UNCHANGED <<tree, asked, said, main, seen, sim, run>>

TimeoutIgnored(t) ==
  /\ at[t] = "hung" /\ sim = "verilator"
  /\ UNCHANGED vars

\* Only the wait for Verilator has a timeout (600 s).
Timeout(t) ==
  /\ at[t] = "hung" /\ sim = "verilator"
  /\ Fail(t)
  /\ UNCHANGED <<tree, work, asked, said, main, seen, sim, run>>

\* process_rtl_log: without a file it raises.
ProcessLog(t) ==
  /\ at[t] = "process"
  /\ IF work[t].rtl.by = 0 THEN Fail(t) /\ UNCHANGED work
     ELSE /\ work' = [work EXCEPT ![t].rtl.log = Processed(@)]
          /\ Goto(t, "compare")
  /\ UNCHANGED <<tree, asked, said, main, seen, sim, run>>

Compare(t) ==
  /\ at[t] = "compare"
  /\ said' = [said EXCEPT ![t] = IF Agrees(work[t].iss.log, work[t].rtl.log)
                                 THEN "PASSED" ELSE "FAILED"]
  /\ Goto(t, "stats")
  /\ UNCHANGED <<tree, work, asked, main, seen, sim, run>>

\* What the logs held is forgotten here: only their age matters from now on.
Stats(t) ==
  /\ at[t] = "stats"
  /\ IF HasStats(work[t].rtl.log) THEN Goto(t, "done") ELSE Fail(t)
  /\ work' = [work EXCEPT ![t].rtl = Emptied(@),
                         ![t].iss = Emptied(@)]
  /\ UNCHANGED <<tree, asked, said, main, seen, sim, run>>

-----------------------------------------------------------------------------
(* The main thread, and its user.                                          *)

Running == main \in {"waiting", "leaving"}
Ended(t) == at[t] \in {"done", "failed"}

Edit(s) ==
  /\ ~Running /\ run < MaxRuns
  /\ tree # s /\ tree' = s
  /\ UNCHANGED <<work, asked, at, said, main, seen, sim, run>>

\* main: every test is submitted; a list that is empty is an error.
Invoke(list, s) ==
  /\ ~Running /\ run < MaxRuns
  /\ run' = run + 1 /\ sim' = s
  /\ asked' = Read(list)
  /\ main' = IF asked' = <<>> THEN "exit1" ELSE "waiting"
  /\ at' = [t \in Tests |-> IF t \in Named(asked') THEN "queued" ELSE "out"]
  /\ said' = [t \in Tests |-> "nothing"]
  /\ seen' = {}
  /\ UNCHANGED <<tree, work>>

CollectAnyway(t) ==
  /\ main = "waiting" /\ Ended(t) /\ t \notin seen
  /\ seen' = seen \cup {t}
  /\ UNCHANGED <<tree, work, asked, at, said, main, sim, run>>

\* future.result(): SystemExit is no Exception, so it leaves the loop.
Collect(t) ==
  /\ main = "waiting" /\ Ended(t) /\ t \notin seen
  /\ seen' = seen \cup {t}
  /\ main' = IF at[t] = "failed" THEN "leaving" ELSE main
  /\ UNCHANGED <<tree, work, asked, at, said, sim, run>>

Finish ==
  /\ main = "waiting" /\ seen = Named(asked) /\ main' = "exit0"
  /\ UNCHANGED <<tree, work, asked, at, said, seen, sim, run>>

\* The pool's context waits for every test, the queued ones too.
Leave ==
  /\ main = "leaving" /\ \A t \in Named(asked) : Ended(t)
  /\ main' = "exit1"
  /\ UNCHANGED <<tree, work, asked, at, said, seen, sim, run>>

-----------------------------------------------------------------------------
\* Bound: at most one test of a checkout does not build.
Trees == [ver : Versions, broken : {{}} \cup {{t} : t \in Tests}]

Init ==
  /\ tree \in Trees
  /\ work = [t \in Tests |-> [elf |-> 0, dram |-> 0, 
                              iss |-> NoFile, rtl |-> NoFile]]
  /\ asked = <<>> /\ at = [t \in Tests |-> "out"]
  /\ said = [t \in Tests |-> "nothing"]
  /\ main = "idle" /\ seen = {} /\ sim \in Simulators /\ run = 0

Thread(t) ==
  \/ Begin(t) \/ GenC(t) \/ GenPyVedas(t) \/ GenAsm(t) \/ RunIss(t) \/ PrepareImem(t)
  \/ StartSim(t) \/ EndSim(t) \/ Timeout(t)
  \/ ProcessLog(t) \/ Compare(t) \/ Stats(t)
Main == Finish \/ Leave \/ \E t \in Tests : Collect(t)
User ==
  \/ \E s \in Trees : Edit(s)
  \/ \E l \in Lists, s \in Simulators : Invoke(l, s)

Next == User \/ Main \/ \E t \in Tests : Thread(t)

\* The threads of the pool and the main thread are scheduled.
Spec ==
  Init /\ [][Next]_vars
  /\ WF_vars(Main) /\ \A t \in Tests : WF_vars(Thread(t))

-----------------------------------------------------------------------------
(* Properties.                                                             *)

TypeOK ==
  /\ tree \in Trees
  /\ \A t \in Tests :
       /\ \A f \in {"elf", "dram"} : work[t][f] \in Versions \cup {0}
       /\ work[t].iss.by \in 0..run /\ work[t].rtl.by \in 0..run
       /\ at[t] \in {"iss", "imem", "sim", "running", "hung", "process",
                     "compare", "stats"} => work[t].elf \in Versions
  /\ at \in [Tests -> {"out", "queued", "gen", "iss", "imem", "sim", "running", "hung",
                      "process", "compare", "stats", "done", "failed"}]
  /\ said \in [Tests -> {"nothing", "PASSED", "FAILED"}]
  /\ main \in {"idle", "waiting", "leaving", "exit0", "exit1"}
  /\ asked = <<>> \/ \E l \in Lists : asked = Read(l)
  /\ seen \subseteq Named(asked) /\ sim \in Simulators /\ run \in 0..MaxRuns

\* A verdict is about this source and this invocation: no log, image or ELF
\* of an earlier one is behind it (run_gen, _unlink_sim_logs).  Assembly
\* tests are left out: their failed build is not noticed.
FreshVerdict ==
  \A t \in Tests : Running /\ said[t] # "nothing" =>
    /\ work[t].iss.by = run /\ work[t].rtl.by = run
    /\ Kind(t) \in {"c", "pyvedas"} =>
         /\ work[t].elf = tree.ver
         /\ Kind(t) = "pyvedas" /\ tree.ver \in Dram => work[t].dram = tree.ver

\* The lines of a log that follow the events of the ISS, split or not.
Bare(lines) == [i \in DOMAIN lines |-> [lines[i] EXCEPT !.cyc = 0]]
Expected(iss) == LogsOf(iss, 0)[Len(iss)]
Follows(raw, iss) ==
  LET real == Bare(Executed(raw))
      want == Expected(iss)
  IN  Len(real) >= Len(want) /\ SubSeq(real, 1, Len(want)) = want

\* PASSED means that the RTL did, event by event and half by half, what the
\* ISS did (process_rtl_log, compare_results).
PassSound ==
  \A t \in Tests : at[t] = "stats" /\ said[t] = "PASSED" =>
    Follows(work[t].rtl.raw, work[t].iss.log)

\* The stores whose halves the merge can join.
Joins(e) ==
  IsStore(e) /\ e.touch[1].at % 4 # 0 =>
    LET d == e.touch[1].dig
        a == e.touch[1].at % 4
    IN  a # 3 /\ d[1] # 0 /\ d[2 * a + 1] # 0

\* A core without faults passes: consecutive stores of a loop are not taken
\* for one split store, lines after a NUL do not count.
CorrectPasses ==
  \A t \in Tests :
    /\ at[t] = "stats" /\ said[t] = "FAILED"
    /\ \A i \in DOMAIN work[t].iss.log : Joins(work[t].iss.log[i])
    => ValidLines(work[t].rtl.raw) # RtlLog(work[t].elf)

\* PASSED says that the core is right, FAILED that it is not.
VerdictRight == PassSound /\ CorrectPasses

\* One test that fails does not cut the others off: when the manager exits,
\* every test has run to its end.
AllRun == ~Running => \A t \in Named(asked) : Ended(t)

\* Exit code 0 means that every test has its verdict and its statistics.
ZeroMeansJudged ==
  main = "exit0" => \A t \in Named(asked) : at[t] = "done" /\ said[t] # "nothing"

\* No test is left behind, and exit code 0 keeps its word.
ExitHonest == AllRun /\ ZeroMeansJudged

\* An invocation with Verilator ends, whatever hangs.
Ends == (Running /\ sim = "verilator") ~> ~Running
=============================================================================
