--------------------------------- MODULE Card ---------------------------------
(***************************************************************************)
(* The host of the Alveo U280 card: the BAR2 driver (vedas_host.py), the   *)
(* test runner and the smoke test (fpga_runner.py, fpga_smoke.py), the     *)
(* programmer (program_fpga.py) and the detector (card.py), one tool after *)
(* the other on a card that keeps its state, and on a work directory that  *)
(* does, too.  A tool may be killed at every step.                         *)
(*                                                                         *)
(* A tool is a list of the driver's calls, `todo`, one step each.  A word  *)
(* of memory says which image it comes from, and a value: of an image 0,   *)
(* of an input or a result its number, of the op limit the limit.          *)
(***************************************************************************)
EXTENDS Integers, Sequences

CONSTANTS
  Words,      \* words of ICCM, and of DCCM: the window on DRAM
  Windows,    \* windows of DRAM
  Burst,      \* posted writes the card takes before a read drains them (4)
  UartDepth,  \* bytes of the UART FIFO (256)
  Images,     \* image -> [dram, eot, prints, big]: see ImageType
  Detects,    \* the images of card.py, each with the one for the backbone
  Ops,        \* ops of a streamed image
  Lists,      \* task lists of the runner
  Inputs,     \* pictures
  Tools,      \* tools in use
  MaxUses,    \* bound: tools started
  BuildBreaks \* TRUE: a build may be killed or fail between two files

ImageType == [dram : BOOLEAN, eot : BOOLEAN, prints : Nat, big : BOOLEAN]
Names == DOMAIN Images

ASSUME CardAssumption ==
  /\ Words \in Nat \ {0, 1} /\ Windows \in Nat \ {0, 1} /\ Burst \in Nat \ {0}
  /\ UartDepth \in Nat /\ Ops \in Nat \ {0} /\ MaxUses \in Nat
  /\ \A i \in Names : Images[i] \in ImageType
  /\ "smoke" \in Names /\ ~Images["smoke"].dram /\ Names \cap {"none", "junk"} = {}
  /\ \A k \in DOMAIN Detects : \A i \in {k, Detects[k]} : i \in Names /\ Images[i].dram
  /\ \A l \in Lists : l \in Seq(Names)
  /\ Inputs \subseteq Nat \ {0}
  /\ BuildBreaks \in BOOLEAN

VARIABLES
  board,      \* [bit, link, driver]: the bitstream, the PCIe link, qdma-pf
  dev,        \* the registers of the card
  mem,        \* ICCM, DCCM and DRAM
  files,      \* directory -> whose ELF, manifest, dram.hex and stamp it holds
  host,       \* the tool that runs
  todo,       \* what it has still to do
  uses        \* tools started

vars == <<board, dev, mem, files, host, todo, uses>>

-----------------------------------------------------------------------------
(* The card.                                                               *)

Word(of, v) == [of |-> of, v |-> v]
Blank == Word("zero", 0)
Size == [iccm |-> Words, dccm |-> Words, dram |-> Words * Windows]
Range0(m) == 0..(Size[m] - 1)

DataAt == 0                             \* a variable in .data or .bss
LimitAt == 1                            \* _pyvedas_op_limit in DCCM
InputAt == Words - 1                    \* the input buffer
ResultAt == (Words * Windows - 2)..(Words * Windows - 1)

Fresh == [run |-> FALSE, sel |-> FALSE, win |-> 0, eot |-> FALSE,
          uart |-> <<>>, posted |-> 0, prog |-> "none", limit |-> 0, input |-> 0,
          said |-> 0, own |-> FALSE]
Stopped(d) == [d EXCEPT !.run = FALSE, !.prog = "none", !.said = 0,
                        !.limit = 0, !.input = 0]

\* What the core runs: an image whose code and data are all there, or junk.
UsesData(i) == i # "smoke"
Code(i) == \A a \in Range0("iccm") : mem.iccm[a] = Word(i, 0)
Data(i) == \A a \in Range0("dccm") \ {LimitAt} : mem.dccm[a] = Word(i, 0)
Weights(i) ==
  \A a \in Range0("dram") \ (ResultAt \cup {InputAt}) : mem.dram[a] = Word(i, 0)
Loaded(i) ==
  /\ Code(i)
  /\ UsesData(i) => Data(i) /\ mem.dccm[LimitAt].of = i
  /\ Images[i].dram => Weights(i)

\* The core prints, and reaches EOT when it has.  The UART drops what does
\* not fit.  Its results are of the image and the input.
CorePrint ==
  /\ dev.run /\ dev.prog # "none"
  /\ dev.said < (IF dev.prog = "junk" THEN 1 ELSE Images[dev.prog].prints)
  /\ dev' = [dev EXCEPT !.said = @ + 1,
                        !.uart = IF Len(@) < UartDepth THEN Append(@, dev.prog) ELSE @]
  /\ UNCHANGED <<board, mem, files, host, todo, uses>>

\* A program that has data changes it, at any time of its run: what is in DCCM
\* is the image's no more.
CoreStore ==
  /\ dev.run /\ UsesData(dev.prog)
  /\ mem' = [mem EXCEPT !.dccm[DataAt] = Word("none", 0)]
  /\ UNCHANGED <<board, dev, files, host, todo, uses>>

CoreEot ==
  /\ dev.run /\ ~dev.eot
  /\ IF dev.prog = "junk" THEN TRUE
     ELSE Images[dev.prog].eot /\ dev.said = Images[dev.prog].prints
  /\ dev' = [dev EXCEPT !.eot = TRUE, !.own = TRUE]
  /\ mem' = IF dev.prog # "junk" /\ Images[dev.prog].dram /\ dev.limit = 0
            THEN [mem EXCEPT !.dram = [a \in DOMAIN @ |->
                   IF a \in ResultAt THEN Word(dev.prog, 10 + dev.input) ELSE @[a]]]
            ELSE mem
  /\ UNCHANGED <<board, files, host, todo, uses>>

-----------------------------------------------------------------------------
(* The calls of a tool.                                                    *)

Call(op) == [op |-> op, mem |-> "", word |-> Blank, at |-> 0, n |-> 0]
Put(m, w, at, n) == [op |-> "write", mem |-> m, word |-> w, at |-> at, n |-> n]
Window(off) == [Call("window") EXCEPT !.at = off, !.n = 1]
NoWindow == Call("window")

\* load_iccm, load_dccm; load_dram: a loop over the windows, see FillDram.
LoadMem(m, i) == <<Call("guard"), Put(m, Word(i, 0), 0, Words)>>
Zero(m) == <<Put(m, Blank, 0, Words)>>
LoadDram(i) == <<Call("guard"), [Call("fill") EXCEPT !.word = Word(i, 0)]>>
LoadInput(x) ==
  <<Call("guard"), Window(InputAt), Put("dccm", Word("input", x), 0, 1), NoWindow>>
ReadResult ==
  <<Call("guard"), Window(Words * Windows - 2), Call("read"), Call("read"), NoWindow>>
Load(i) ==
  LoadMem("iccm", i) \o LoadMem("dccm", i)
    \o (IF Images[i].dram THEN LoadDram(i) ELSE <<>>)

RunWait == <<Call("clear"), Call("run"), Call("wait")>>
Halt == <<Call("halt")>>

Top == todo[1]
Is(op) == todo # <<>> /\ Top.op = op
Then(calls) == todo' = calls \o Tail(todo)

\* The tool, the image it wants and the one it has, its picture, op limit,
\* directory, tests and their results, what it has read, its exit code; and
\* history: it started the core, found a window mapped, saw EOT of its own.
NoHost == [tool |-> "none", want |-> "none", image |-> "none", input |-> 0,
           limit |-> 0, dir |-> "main", tests |-> <<>>, results |-> <<>>,
           got |-> <<>>, uart |-> <<>>, code |-> 0,
           started |-> FALSE, mapped |-> FALSE, ours |-> TRUE]

Running == todo # <<>>
Exit(code) == host' = [host EXCEPT !.code = code] /\ todo' = <<>>

\* An exception ends a tool; fpga_smoke opens the card once more, to dump
\* the UART and to halt.
Raise ==
  /\ host' = [host EXCEPT !.code = 1]
  /\ todo' = IF host.tool = "smoke" /\ host.code = 0 /\ board.link = "live"
             THEN <<Call("pop"), Call("halt")>> ELSE <<>>

\* find_qdma_bdf, __init__: the endpoint is in sysfs.
OpenBar ==
  /\ Is("open")
  /\ IF board.link = "none" THEN Raise
     ELSE /\ host' = [host EXCEPT !.mapped = dev.sel]
          /\ Then(<<>>)
  /\ UNCHANGED <<board, dev, mem, files, uses>>

\* check_ctrl: the size of BAR2, VERSION, HEARTBEAT, SCRATCH, the MMCM.  The
\* smoke test returns a code of its own, but for the MMCM.
Answers == board.link = "live" /\ board.bit \in {"good", "old"}
CheckCtrl ==
  /\ Is("ctrl")
  /\ \/ Answers /\ Then(<<>>) /\ UNCHANGED host
     \/ Answers /\ Raise
     \/ IF host.tool = "smoke" THEN Exit(2) ELSE Raise
  /\ UNCHANGED <<board, dev, mem, files, uses>>

CheckVersion ==
  /\ Is("version")
  /\ IF Answers THEN Then(<<>>) /\ UNCHANGED host ELSE Raise
  /\ UNCHANGED <<board, dev, mem, files, uses>>

HasWindowKeeps ==
  /\ Is("window?")
  /\ dev' = [Stopped(dev) EXCEPT !.win = IF board.bit = "good" THEN 0 ELSE @]
  /\ IF board.bit = "good" THEN Then(<<>>) /\ UNCHANGED host ELSE Raise
  /\ UNCHANGED <<board, mem, files, uses>>

\* has_dram_window: the old bitstream has no such registers.
HasWindow ==
  /\ Is("window?")
  /\ dev' = IF board.bit = "good"
            THEN [Stopped(dev) EXCEPT !.win = 0, !.sel = FALSE]
            ELSE Stopped(dev)
  /\ IF board.bit = "good" THEN Then(<<>>) /\ UNCHANGED host ELSE Raise
  /\ UNCHANGED <<board, mem, files, uses>>

SetHalt ==
  /\ Is("halt")
  /\ dev' = Stopped(dev) /\ Then(<<>>)
  /\ UNCHANGED <<board, mem, files, host, uses>>

\* load_iccm, load_dccm, load_dram_range and read_dram raise while it runs.
Guard ==
  /\ Is("guard")
  /\ IF dev.run THEN Raise ELSE Then(<<>>) /\ UNCHANGED host
  /\ UNCHANGED <<board, dev, mem, files, uses>>

\* set_dram_window
SetWindow ==
  /\ Is("window")
  /\ IF dev.run THEN Raise /\ UNCHANGED dev
     ELSE /\ dev' = IF board.bit = "good"
                    THEN [dev EXCEPT !.win = Top.at, !.sel = Top.n = 1] ELSE dev
          /\ Then(<<>>) /\ UNCHANGED host
  /\ UNCHANGED <<board, mem, files, uses>>

\* load_dram_range: window after window, and none at the end.
FillDram ==
  /\ Is("fill")
  /\ Then(IF Top.at < Size.dram
          THEN <<Window(Top.at), Put("dccm", Top.word, 0, Words),
                 [Top EXCEPT !.at = @ + Words]>>
          ELSE <<NoWindow>>)
  /\ UNCHANGED <<board, dev, mem, files, host, uses>>

\* write_bytes drains after 16 bytes and after the last ones.
DrainedAtEnd(done, n) == done = n
Drained(done, n) == done % 4 = 0 \/ done = n

\* One word of write_bytes.  A posted write beyond what the card takes may be
\* dropped, and one to a running core is.  DCCM may be a window on DRAM.
WriteWord ==
  /\ Is("write")
  /\ LET m == IF Top.mem = "dccm" /\ dev.sel THEN "dram" ELSE Top.mem
         a == IF m = "dram" THEN dev.win + Top.at ELSE Top.at
         done == Top.at + 1
     IN  /\ \E lands \in IF dev.run \/ a \notin Range0(m) THEN {FALSE}
                         ELSE IF dev.posted < Burst THEN {TRUE} ELSE BOOLEAN :
              mem' = IF lands THEN [mem EXCEPT ![m][a] = Top.word] ELSE mem
         /\ dev' = [dev EXCEPT !.posted = IF Drained(done, Top.n) THEN 0 ELSE @ + 1]
         /\ Then(IF done < Top.n THEN <<[Top EXCEPT !.at = done]>> ELSE <<>>)
  /\ UNCHANGED <<board, files, host, uses>>

\* One word of read_dram.
ReadWord ==
  /\ Is("read")
  /\ LET a == dev.win + Len(host.got)
     IN  host' = [host EXCEPT !.got =
           Append(@, IF dev.sel THEN mem.dram[a] ELSE mem.dccm[Len(host.got)])]
  /\ Then(<<>>)
  /\ UNCHANGED <<board, dev, mem, files, uses>>

\* run_and_wait_eot: EOT and UART are cleared, the core is started, EOT or
\* the timeout ends it.  EOT may come just after the last look at it.
ClearUartOnly ==
  /\ Is("clear")
  /\ dev' = [dev EXCEPT !.uart = <<>>] /\ Then(<<>>)
  /\ UNCHANGED <<board, mem, files, host, uses>>
Clear ==
  /\ Is("clear")
  /\ dev' = [dev EXCEPT !.eot = FALSE, !.uart = <<>>] /\ Then(<<>>)
  /\ UNCHANGED <<board, mem, files, host, uses>>

RunCore ==
  /\ Is("run")
  /\ LET i == IF \E j \in Names : Loaded(j) THEN CHOOSE j \in Names : Loaded(j)
              ELSE "junk"
     IN  dev' = [dev EXCEPT !.run = TRUE, !.prog = i, !.own = FALSE,
                   !.limit = IF i = "junk" THEN 0 ELSE mem.dccm[LimitAt].v,
                   !.input = IF mem.dram[InputAt].of = "input"
                             THEN mem.dram[InputAt].v ELSE 0]
  /\ host' = [host EXCEPT !.started = TRUE] /\ Then(<<>>)
  /\ UNCHANGED <<board, mem, files, uses>>

SeeEot ==
  /\ Is("wait") /\ dev.eot
  /\ host' = [host EXCEPT !.ours = dev.own]
  /\ Then(<<>>)
  /\ UNCHANGED <<board, dev, mem, files, uses>>

Result(how) == [test |-> host.image, how |-> how]

\* The runner makes a result of it, and halts once more; the others end.
OnTimeout ==
  IF host.tool = "runner"
  THEN /\ host' = [host EXCEPT !.results = Append(@, Result("timeout"))]
       /\ todo' = <<Call("pop"), Call("halt"), Call("test")>>
  ELSE Raise

TimeOutRunning ==
  /\ Is("wait") /\ ~dev.eot
  /\ OnTimeout
  /\ UNCHANGED <<board, dev, mem, files, uses>>
TimeOutNever == Is("wait") /\ ~dev.eot /\ UNCHANGED vars
TimeOut ==
  /\ Is("wait") /\ ~dev.eot
  /\ \E late \in IF dev.prog = "junk" \/ Images[dev.prog].eot
                 THEN BOOLEAN ELSE {FALSE} :
       dev' = [Stopped(dev) EXCEPT !.eot = late]
  /\ OnTimeout
  /\ UNCHANGED <<board, mem, files, uses>>

\* pop_uart
PopUart ==
  /\ Is("pop")
  /\ host' = [host EXCEPT !.uart = dev.uart]
  /\ dev' = [dev EXCEPT !.uart = <<>>]
  /\ Then(<<>>)
  /\ UNCHANGED <<board, mem, files, uses>>

-----------------------------------------------------------------------------
(* fpga_runner.py: test after test, each from an empty memory.             *)

RunTest(t) ==
  Halt \o Zero("iccm") \o Zero("dccm") \o Load(t) \o RunWait
    \o <<Call("pop"), Call("halt"), Call("judge"), Call("test")>>

\* The loop over the tests, and prepare_test: a compiler that fails is
\* sys.exit(1), which is no Exception.
Judged == Len(host.results)
PrepareTest ==
  /\ Is("test") /\ Judged < Len(host.tests)
  /\ LET t == host.tests[Judged + 1]
         skip == host.limit = 1          \* --skip-oversized
         Note(how) == [host EXCEPT !.image = t,
                         !.results = Append(@, [test |-> t, how |-> how])]
     IN  \/ /\ ~Images[t].big
            /\ host' = [host EXCEPT !.image = t]
            /\ Then(RunTest(t))
         \/ /\ Images[t].big
            /\ host' = Note(IF skip THEN "skipped" ELSE "large")
            /\ UNCHANGED todo
         \/ /\ host' = Note("prepare")
            /\ UNCHANGED todo
         \/ Exit(1)
  /\ UNCHANGED <<board, dev, mem, files, uses>>

\* load_and_run: the tests with a golden output compare it.
Judge ==
  /\ Is("judge")
  /\ LET p == Images[host.image].prints
         same == host.uart = [k \in 1..p |-> host.image]
     IN  host' = [host EXCEPT !.results =
           Append(@, Result(IF p > 0 /\ ~same THEN "uart" ELSE "ok"))]
  /\ Then(<<>>)
  /\ UNCHANGED <<board, dev, mem, files, uses>>

Summary ==
  /\ Is("test") /\ Judged = Len(host.tests)
  /\ Exit(IF \A k \in DOMAIN host.results : host.results[k].how \in {"ok", "skipped"}
          THEN 0 ELSE 1)
  /\ UNCHANGED <<board, dev, mem, files, uses>>

-----------------------------------------------------------------------------
(* card.py: the ELF of a streamed model, built or reused.                  *)

Dir == files[host.dir]
Have(f, value) == files' = [files EXCEPT ![host.dir][f] = value]

Reuses == Dir.elf # "none" /\ Dir.man # "none" /\ Dir.stamp = host.want

\* ensure_card_elf
Ensure ==
  /\ Is("ensure")
  /\ Then(IF Reuses THEN <<>>
          ELSE <<Call("dramhex"), Call("manifest"), Call("link"), Call("stamp")>>)
  /\ UNCHANGED <<board, dev, mem, files, host, uses>>

\* compile_model writes dram.hex, then the manifest; _compile_riscv_elf the
\* ELF; the stamp comes last.
File(op) == CASE op = "dramhex" -> "dram" [] op = "manifest" -> "man"
              [] op = "link" -> "elf" [] op = "stamp" -> "stamp"
Build ==
  /\ todo # <<>> /\ Top.op \in {"dramhex", "manifest", "link", "stamp"}
  /\ \/ Have(File(Top.op), host.want) /\ Then(<<>>) /\ UNCHANGED host
     \/ BuildBreaks /\ Top.op # "stamp" /\ Raise /\ UNCHANGED files
  /\ UNCHANGED <<board, dev, mem, uses>>

LoadCard == LoadMem("iccm", Dir.elf) \o LoadMem("dccm", Dir.elf) \o LoadDram(Dir.dram)
DetectRun ==
  <<Call("open"), Call("version"), Call("window?"), Call("halt")>> \o LoadCard
    \o LoadInput(host.input) \o RunWait \o Halt \o ReadResult
ChunkRun ==
  <<Call("open"), Call("version"), Call("window?"), Call("halt")>> \o LoadCard
    \o <<Call("chunk")>>

\* Mutant: the data of the last run is left in DCCM.
RunChunkKeepsData ==
  /\ Is("chunk")
  /\ IF host.limit < Ops
     THEN LET n == host.limit + 1
          IN  /\ host' = [host EXCEPT !.limit = n]
              /\ Then(Halt \o <<Put("dccm", Word(host.want, n), LimitAt, LimitAt + 1)>>
                        \o RunWait \o <<Call("chunk")>>)
     ELSE Then(<<>>) /\ UNCHANGED host
  /\ UNCHANGED <<board, dev, mem, files, uses>>

\* run_card_chunks: the loop over the ops; each has its op limit patched into
\* DCCM.
RunChunk ==
  /\ Is("chunk")
  /\ IF host.limit < Ops
     THEN LET n == host.limit + 1
          IN  /\ host' = [host EXCEPT !.limit = n]
              /\ Then(Halt \o LoadMem("dccm", Dir.elf)
                        \o <<Put("dccm", Word(host.want, n), LimitAt, LimitAt + 1)>>
                        \o RunWait \o <<Call("chunk")>>)
     ELSE Then(<<>>) /\ UNCHANGED host
  /\ UNCHANGED <<board, dev, mem, files, uses>>

\* elf_to_fpga_image: what does not fit is built again, for the backbone only,
\* in a directory of its own.
UseImage ==
  /\ Is("image")
  /\ IF ~Images[Dir.elf].big
     THEN /\ host' = [host EXCEPT !.image = Dir.elf]
          /\ Then(IF host.tool = "detect" THEN DetectRun ELSE ChunkRun)
     ELSE IF host.dir = "main"
     THEN /\ host' = [host EXCEPT !.dir = "bb",
                         !.want = IF @ \in DOMAIN Detects THEN Detects[@] ELSE @]
          /\ Then(<<Call("ensure"), Call("image")>>)
     ELSE Raise
  /\ UNCHANGED <<board, dev, mem, files, uses>>

-----------------------------------------------------------------------------
(* program_fpga.py                                                         *)

UnloadDriver ==
  /\ Is("unload") /\ board' = [board EXCEPT !.driver = FALSE] /\ Then(<<>>)
  /\ UNCHANGED <<dev, mem, files, host, uses>>

\* Vivado: a new design; what the host saw of the old one is gone.
Vivado ==
  /\ Is("vivado")
  /\ \/ \E b \in {"good", "old", "other"} :
          /\ board' = [board EXCEPT !.bit = b, !.link = IF @ = "none" THEN @ ELSE "dead"]
          /\ dev' = Fresh
          /\ mem' = [m \in DOMAIN Size |-> [a \in Range0(m) |-> Blank]]
          /\ Then(<<>>) /\ UNCHANGED host
     \/ Raise /\ UNCHANGED <<board, dev, mem>>
  /\ UNCHANGED <<files, uses>>

\* pcie_remove_rescan
Rescan ==
  /\ Is("rescan")
  /\ \/ board' = [board EXCEPT !.link = "live"] /\ Then(<<>>) /\ UNCHANGED host
     \/ board' = [board EXCEPT !.link = "none"] /\ Raise
  /\ UNCHANGED <<dev, mem, files, uses>>

LoadDriver ==
  /\ Is("modprobe")
  /\ \/ board' = [board EXCEPT !.driver = TRUE] /\ Then(<<>>) /\ UNCHANGED host
     \/ Raise /\ UNCHANGED board
  /\ UNCHANGED <<dev, mem, files, uses>>

\* verify_version
Verify ==
  /\ Is("verify")
  /\ IF board.link = "none" THEN Raise
     ELSE Exit(IF Answers THEN 0 ELSE 2)
  /\ UNCHANGED <<board, dev, mem, files, uses>>

-----------------------------------------------------------------------------
(* The user.                                                               *)

ProgramRun(rescan) ==
  IF rescan THEN <<Call("unload"), Call("vivado"), Call("rescan"),
                   Call("modprobe"), Call("verify")>>
  ELSE <<Call("vivado")>>
SmokeRun ==
  <<Call("open"), Call("ctrl"), Call("halt")>> \o Zero("iccm")
    \o LoadMem("iccm", "smoke") \o RunWait \o <<Call("pop"), Call("halt")>>

Use(tool) == [NoHost EXCEPT !.tool = tool]
Start(h, calls) ==
  /\ ~Running /\ uses < MaxUses /\ h.tool \in Tools
  /\ uses' = uses + 1 /\ host' = h /\ todo' = calls
  /\ UNCHANGED <<board, dev, mem, files>>

Program ==
  \E rescan \in BOOLEAN :
    Start([Use("program") EXCEPT !.limit = IF rescan THEN 1 ELSE 0], ProgramRun(rescan))
Smoke == Start(Use("smoke"), SmokeRun)
Runner ==
  \E l \in Lists, skip \in {0, 1} :
    Start([Use("runner") EXCEPT !.tests = l, !.limit = skip],
          <<Call("open"), Call("ctrl"), Call("test")>>)
Detect ==
  \E k \in DOMAIN Detects, x \in Inputs :
    Start([Use("detect") EXCEPT !.want = k, !.input = x],
          <<Call("open"), Call("ensure"), Call("image")>>)
Chunks ==
  \E k \in DOMAIN Detects :
    Start([Use("chunks") EXCEPT !.want = Detects[k]],
          <<Call("open"), Call("ensure"), Call("image")>>)

\* SIGKILL, the host goes down: no `finally` runs.
Kill ==
  /\ Running
  /\ Top.op \in {"manifest", "link", "stamp"} => BuildBreaks
  /\ host' = NoHost /\ todo' = <<>> /\ dev' = [dev EXCEPT !.posted = 0]
  /\ UNCHANGED <<board, mem, files, uses>>

NoFiles == [elf |-> "none", man |-> "none", dram |-> "none", stamp |-> "none"]
Init ==
  /\ board = [bit |-> "good", link |-> "live", driver |-> TRUE]
  /\ dev = Fresh
  /\ mem = [m \in DOMAIN Size |-> [a \in Range0(m) |-> Blank]]
  /\ files = [d \in {"main", "bb"} |-> NoFiles]
  /\ host = NoHost /\ todo = <<>> /\ uses = 0

Driver ==
  \/ OpenBar \/ CheckCtrl \/ CheckVersion \/ HasWindow \/ SetHalt \/ Guard
  \/ SetWindow \/ FillDram \/ WriteWord \/ ReadWord \/ Clear \/ RunCore
  \/ SeeEot \/ TimeOut \/ PopUart
Tool ==
  \/ PrepareTest \/ Judge \/ Summary
  \/ Ensure \/ Build \/ UseImage \/ RunChunk
  \/ UnloadDriver \/ Vivado \/ Rescan \/ LoadDriver \/ Verify
Core == CorePrint \/ CoreStore \/ CoreEot
User == Program \/ Smoke \/ Runner \/ Detect \/ Chunks \/ Kill

Next == Driver \/ Tool \/ Core \/ User

\* A tool runs on: its waits have timeouts.  The core may hang.
Spec == Init /\ [][Next]_vars /\ WF_vars(Driver \/ Tool)

-----------------------------------------------------------------------------
(* Properties.                                                             *)

TypeOK ==
  /\ board \in [bit : {"good", "old", "other"}, link : {"none", "live", "dead"},
                driver : BOOLEAN]
  /\ dev.posted \in 0..Burst /\ dev.win \in Range0("dram")
  /\ Len(dev.uart) <= UartDepth
  /\ dev.prog \in Names \cup {"none", "junk"} /\ (dev.run <=> dev.prog # "none")
  /\ \A m \in DOMAIN Size : DOMAIN mem[m] = Range0(m)
  /\ \A d \in DOMAIN files : \A f \in DOMAIN NoFiles :
       files[d][f] \in Names \cup {"none"}
  /\ host.tool \in Tools \cup {"none"} /\ host.code \in 0..2
  /\ Len(host.got) <= 2 /\ uses \in 0..MaxUses

Ended(tools) == ~Running /\ host.tool \in tools

\* The core starts on the very image, weights, op limit and picture its tool
\* means, whatever earlier tools left behind: also one killed with the DRAM
\* window mapped (has_dram_window).  The runner does not look for the window:
\* for it, none may be mapped, and the bitstream must have one.
StartsLoaded ==
  Is("wait") /\ dev.run =>
    CASE host.tool = "detect" -> dev.prog = host.want /\ dev.input = host.input
                                   /\ dev.limit = 0
      [] host.tool = "chunks" -> dev.prog = host.want /\ dev.limit = host.limit
      [] host.tool = "smoke"  -> dev.prog = "smoke"
      [] host.tool = "runner" ->
           ~host.mapped /\ (Images[host.image].dram => board.bit = "good")
             => dev.prog = host.image

\* The EOT a tool sees is of the run it started: none is left of an earlier
\* run, of one that timed out, or of a killed tool (clear_eot).
EotOurs == host.ours

\* A test fails for its output only where the UART is too small for it: no
\* byte of an earlier program is in it (clear_uart).  Again the runner does not
\* look for the window.
UartOurs ==
  host.tool = "runner" /\ ~host.mapped =>
    \A k \in DOMAIN host.results :
      LET i == Images[host.results[k].test]
      IN  host.results[k].how = "uart" /\ (i.dram => board.bit = "good") =>
            i.prints > UartDepth

\* A detection is of the model and the picture it was asked for.
ResultsOurs ==
  Ended({"detect"}) /\ host.code = 0 =>
    /\ host.got = <<Word(host.want, 10 + host.input), Word(host.want, 10 + host.input)>>
    /\ Dir = [elf |-> host.want, man |-> host.want, dram |-> host.want,
              stamp |-> host.want]

\* What ensure_card_elf leaves or reuses is all of one key.
BuildMatches ==
  Is("image") => Dir.elf = host.want /\ Dir.man = host.want /\ Dir.dram = host.want

\* A tool that ends by itself leaves no core running that it started, and no
\* DRAM window mapped.  Chunks leave the last run at its EOT loop.
LeavesCardQuiet ==
  /\ Ended({"detect", "runner", "smoke"}) /\ host.started => ~dev.run
  /\ Ended({"detect", "chunks"}) /\ host.started => ~dev.sel

\* Exit code 0 of the runner: every test of the list ran and was good, or was
\* skipped for its size.
RunnerCounts ==
  Ended({"runner"}) /\ host.code = 0 =>
    /\ Len(host.results) = Len(host.tests)
    /\ \A k \in DOMAIN host.tests :
         host.results[k] \in [test : {host.tests[k]}, how : {"ok", "skipped"}]

\* Exit code 0 of the programmer, with a rescan: the card answers with the
\* expected version and the driver is back.
ProgramVerified ==
  Ended({"program"}) /\ host.code = 0 /\ host.limit = 1 => Answers /\ board.driver

\* What a tool answers with is of its own run.
AnswersOurs == EotOurs /\ UartOurs /\ ResultsOurs

\* What a tool says as it ends, and how it leaves the card, can be relied on.
ExitHonest == LeavesCardQuiet /\ RunnerCounts /\ ProgramVerified

\* Every tool ends, also when the core hangs.
Ends == Running ~> ~Running
=============================================================================
