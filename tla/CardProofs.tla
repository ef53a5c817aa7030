----------------------------- MODULE CardProofs -----------------------------
(***************************************************************************)
(* Theorems about Card, for every size of the memories, every set of       *)
(* images, models, tests and pictures, and any number of tools.            *)
(*                                                                         *)
(* The invariant is about the calls a tool has still to make.  It reads    *)
(* them as a program and says, in the manner of Hoare, which facts hold    *)
(* before each of them: Step is the rule of a single call, Triple that of  *)
(* a list, and Holds says what the facts mean in a state.                  *)
(***************************************************************************)
EXTENDS Card, SequenceTheorems, TLAPS

-----------------------------------------------------------------------------
(* Types.                                                                  *)

Values == [of : Names \cup {"zero", "input", "none"}, v : Nat]
OpNames ==
  {"open", "ctrl", "version", "window?", "halt", "guard", "window", "fill",
   "write", "read", "clear", "run", "wait", "pop", "test", "judge", "ensure",
   "dramhex", "manifest", "link", "stamp", "image", "chunk", "unload",
   "vivado", "rescan", "modprobe", "verify"}
Calls == [op : OpNames, mem : {"", "iccm", "dccm"}, word : Values, at : Nat, n : Nat]

Boards == [bit : {"good", "old", "other"}, link : {"none", "live", "dead"},
           driver : BOOLEAN]
Devices ==
  [run : BOOLEAN, sel : BOOLEAN, win : Range0("dram"), eot : BOOLEAN,
   uart : Seq(Names \cup {"junk"}), posted : Nat, prog : Names \cup {"none", "junk"},
   limit : Nat, input : Nat, said : Nat, own : BOOLEAN]
Verdicts ==
  Seq([test : Names, how : {"ok", "uart", "timeout", "skipped", "large", "prepare"}])
Hosts ==
  [tool : Tools \cup {"none"}, want : Names \cup {"none"}, image : Names \cup {"none"},
   input : Nat, limit : Nat, dir : {"main", "bb"}, tests : Seq(Names),
   results : Verdicts,
   got : Seq(Values), uart : Seq(Names \cup {"junk"}), code : 0..2,
   started : BOOLEAN, mapped : BOOLEAN, ours : BOOLEAN]
Dirs == [elf : Names \cup {"none"}, man : Names \cup {"none"},
         dram : Names \cup {"none"}, stamp : Names \cup {"none"}]

MemOK ==
  /\ mem = [m \in {"iccm", "dccm", "dram"} |-> mem[m]]
  /\ \A m \in {"iccm", "dccm", "dram"} : mem[m] \in [Range0(m) -> Values]

Typed ==
  /\ board \in Boards /\ dev \in Devices /\ MemOK
  /\ files \in [{"main", "bb"} -> Dirs] /\ host \in Hosts
  /\ todo \in Seq(Calls) /\ uses \in 0..MaxUses

-----------------------------------------------------------------------------
(* What a tool means to run, and when the code can promise it: the runner  *)
(* does not look for a mapped window or an old bitstream, and builds that  *)
(* break may leave a directory of two models.                              *)

Means(h) ==
  CASE h.tool = "runner" -> h.image [] h.tool = "smoke" -> "smoke" [] OTHER -> h.want

Open ==
  host.tool = "runner" =>
    /\ host.image # "none" /\ ~host.mapped
    /\ Images[host.image].dram => board.bit = "good"
Sane == Open /\ (host.tool \in {"detect", "chunks"} => ~BuildBreaks)

\* What memory must hold as the core starts: sets of <<memory, address, word>>.
Part(m, S, w) == {<<m, a, w>> : a \in S}
CodeOf(i) == Part("iccm", Range0("iccm"), Word(i, 0))
DataOf(i, n) ==
  Part("dccm", Range0("dccm") \ {LimitAt}, Word(i, 0)) \cup Part("dccm", {LimitAt}, Word(i, n))
WeightsOf(i) ==
  Part("dram", Range0("dram") \ (ResultAt \cup {InputAt}), Word(i, 0))
PictureOf(x) == Part("dram", {InputAt}, Word("input", x))

Need(h) ==
  CodeOf(Means(h))
    \cup (IF UsesData(Means(h)) THEN DataOf(Means(h), IF h.tool = "chunks" THEN h.limit ELSE 0)
          ELSE {})
    \cup (IF Images[Means(h)].dram THEN WeightsOf(Means(h)) ELSE {})
    \cup (IF h.tool = "detect" THEN PictureOf(h.input) ELSE {})
Needed == IF Sane THEN Need(host) ELSE {}

-----------------------------------------------------------------------------
(* The facts a proof keeps about a state.                                  *)

Answer == Word(host.want, 10 + host.input)
Least(a, b) == IF a < b THEN a ELSE b
Bytes(n) == [k \in 1..Least(n, UartDepth) |-> host.image]

\* The core runs what its tool means; what it has said and written is of it.
RunsRight ==
  /\ dev.run /\ dev.prog = Means(host)
  /\ host.tool = "detect" =>
       /\ dev.input = host.input /\ dev.limit = 0
       /\ dev.own => \A a \in ResultAt : mem.dram[a] = Answer
  /\ host.tool = "chunks" => dev.limit = host.limit
  /\ host.tool = "runner" =>
       /\ dev.uart = Bytes(dev.said)
       /\ dev.own => dev.said = Images[host.image].prints

OfCore(f) ==
  /\ f = "still" => ~dev.run
  /\ f = "flat" => ((host.tool = "runner" => ~host.mapped) => ~dev.sel)
  /\ f = "noeot" => ~dev.eot
  /\ f = "nouart" => dev.uart = <<>>
  /\ f = "own" => (dev.eot => dev.own)
  /\ f = "seen" => dev.own
  /\ f = "right" => (Sane => RunsRight)
  /\ f = "quiet" => (host.started => ~dev.run)
  /\ f = "shut" => (host.started => ~dev.sel)

OfRead(f) ==
  /\ f = "unread" => host.got = <<>>
  /\ f = "read1" => Len(host.got) = 1 /\ (Sane => host.got = <<Answer>>)
  /\ f = "read2" => Len(host.got) = 2 /\ (Sane => host.got = <<Answer, Answer>>)

OfTests(f) ==
  /\ f = "listed" =>
       /\ Judged <= Len(host.tests)
       /\ \A k \in 1..Judged : host.results[k].test = host.tests[k]
  /\ f = "unjudged" => host.results = <<>> /\ host.image = "none"
  /\ f = "current" => Judged < Len(host.tests) /\ host.image = host.tests[Judged + 1]
  /\ f = "popped" =>
       (Sane /\ host.tool = "runner" => host.uart = Bytes(Images[host.image].prints))
  /\ f = "counted" =>
       /\ Judged = Len(host.tests)
       /\ \A k \in DOMAIN host.tests :
            host.results[k] \in [test : {host.tests[k]}, how : {"ok", "skipped"}]

Whole(d) ==
  BuildBreaks \/ \E i : files[d] = [elf |-> i, man |-> i, dram |-> i, stamp |-> i]
OfFiles(f) ==
  /\ f = "whole" => Whole(host.dir)
  /\ f = "elf" => BuildBreaks \/ Dir.elf = host.want
  /\ f = "man" => BuildBreaks \/ Dir.man = host.want
  /\ f = "dram" => BuildBreaks \/ Dir.dram = host.want
  /\ f = "stamped" => BuildBreaks \/ Dir.stamp = host.want

OfBoard(f) ==
  /\ f = "good" => (Open => board.bit = "good")
  /\ f = "driver" => board.driver
  /\ f = "easy" => host.limit # 1
  /\ f = "verified" => (host.limit = 1 => Answers /\ board.driver)

Fact(f) == OfCore(f) /\ OfRead(f) /\ OfTests(f) /\ OfFiles(f) /\ OfBoard(f)

\* An assertion: facts, words of memory, the window, and whether the list
\* goes on here (after a call that is a loop it does not).
Assert(is, cells, win) == [is |-> is, mem |-> cells, win |-> win, live |-> TRUE]

\* A word of memory, and its value.
Cell(c) ==
  c[1] \in {"iccm", "dccm", "dram"} /\ c[2] \in Range0(c[1]) /\ mem[c[1]][c[2]] = c[3]

\* A word of memory that a core that runs leaves alone.
Untouched(c) ==
  (c[1] = "dram" => c[2] \notin ResultAt) /\ ~(c[1] = "dccm" /\ c[2] = DataAt)

\* While the core runs, nothing may be known of what it can change.
Holds(A) ==
  /\ \A f \in A.is : Fact(f)
  /\ Sane => \A c \in A.mem : Cell(c)
  /\ Open => \A w \in A.win : dev.sel /\ dev.win = w
  /\ dev.run => /\ A.is \cap {"noeot", "nouart"} = {}
                /\ \A c \in A.mem : Untouched(c)

-----------------------------------------------------------------------------
(* The rule of a call: what must hold before it, what holds after it.      *)

\* A tool that an exception may end here leaves the card as it should.
Safe(tool) ==
  CASE tool = "detect" -> {"quiet", "shut"} [] tool = "chunks" -> {"shut"}
    [] tool \in {"runner", "smoke"} -> {"quiet"} [] OTHER -> {}

Same(A, M, lost, gained) ==
  /\ M.is \subseteq (A.is \ lost) \cup gained
  /\ M.mem \subseteq A.mem /\ M.win \subseteq A.win /\ M.live

Wrote(S, m, from, to, w) ==
  {c \in S : ~(c[1] = m /\ c[2] \in from..to)} \cup Part(m, from..to, w)
WriteRule(A, x, M) ==
  /\ "still" \in A.is /\ M.is \subseteq A.is /\ M.win \subseteq A.win /\ M.live
  /\ x.at < x.n /\ x.mem \in {"iccm", "dccm"} /\ x.n <= Words
  /\ \/ /\ x.mem = "iccm" \/ "flat" \in A.is
        /\ M.mem \subseteq Wrote(A.mem, x.mem, x.at, x.n - 1, x.word)
     \/ /\ x.mem = "dccm"
        /\ \E off \in A.win :
             /\ off \in Nat /\ off + x.n <= Size.dram
             /\ M.mem \subseteq Wrote(A.mem, "dram", off + x.at, off + x.n - 1, x.word)

WindowRule(A, x, M) ==
  /\ "still" \in A.is /\ x.at \in Range0("dram")
  /\ M.mem \subseteq A.mem /\ M.live
  /\ x.n = 1 => /\ "good" \in A.is /\ M.is \subseteq A.is \ {"flat", "shut"}
                /\ M.win \subseteq {x.at}
  /\ x.n # 1 => M.is \subseteq A.is \cup {"flat", "shut"} /\ M.win = {}

FillRule(A, x, M) ==
  /\ {"still", "good"} \subseteq A.is /\ \E w \in 0..Windows : x.at = w * Words
  /\ M.is \subseteq A.is \cup {"flat", "shut"} /\ M.win = {} /\ M.live
  /\ M.mem \subseteq {c \in A.mem : c[1] = "dram" => c[2] \in 0..(x.at - 1)}
                       \cup Part("dram", {a \in Range0("dram") : a >= x.at}, x.word)

HaltRule(tool, answer, A, M) ==
  /\ M.is \subseteq (A.is \ {"right", "seen"}) \cup {"still", "quiet"}
  /\ M.win \subseteq A.win /\ M.live
  /\ M.mem \subseteq A.mem \cup (IF tool = "detect" /\ {"right", "seen"} \subseteq A.is
                                 THEN Part("dram", ResultAt, answer) ELSE {})

ReadRule(tool, answer, A, M) ==
  /\ tool = "detect" /\ M.mem \subseteq A.mem /\ M.win \subseteq A.win /\ M.live
  /\ \E off \in A.win :
       /\ off \in Nat /\ off + 1 \in Range0("dram")
       /\ \/ /\ "unread" \in A.is /\ <<"dram", off, answer>> \in A.mem
             /\ M.is \subseteq (A.is \ {"unread"}) \cup {"read1"}
          \/ /\ "read1" \in A.is /\ <<"dram", off + 1, answer>> \in A.mem
             /\ M.is \subseteq (A.is \ {"read1"}) \cup {"read2"}

RunRule(tool, need, A, M) ==
  /\ {"still", "noeot", "nouart"} \subseteq A.is /\ need \subseteq A.mem
  /\ tool \in {"detect", "chunks", "runner", "smoke"}
  /\ tool \in {"detect", "chunks"} => "flat" \in A.is
  /\ M.is \subseteq (A.is \ {"still", "quiet", "shut", "noeot", "nouart", "seen"})
                      \cup {"own", "right"}
                      \cup (IF tool \in {"detect", "chunks"} THEN {"shut"} ELSE {})
  /\ M.mem \subseteq {c \in A.mem : Untouched(c)}
  /\ M.win \subseteq A.win /\ M.live

\* aim: the tool, what it needs in memory and the answer it should read.
Step(aim, A, x, M) ==
  LET tool == aim.tool
      Is1(ops) == x.op \in ops
  IN
  /\ A.live /\ x \in Calls
  /\ ~Is1({"manifest", "link", "stamp"}) => "whole" \in A.is
  /\ Is1({"open", "ctrl", "version", "window?", "ensure", "dramhex", "manifest", "link",
          "stamp", "image", "wait", "test"}) =>
       Safe(tool) \ (IF x.op = "wait" THEN {"quiet"} ELSE {}) \subseteq A.is
  /\ Is1({"open"}) =>
       /\ tool = "runner" => "unjudged" \in A.is
       /\ Same(A, M, {"flat"}, IF tool = "runner" THEN {"flat"} ELSE {})
  /\ Is1({"ctrl", "version"}) => Same(A, M, {}, {})
  /\ Is1({"window?"}) =>
       /\ M.win = {}
       /\ Same(A, M, {"right", "seen"}, {"still", "quiet", "flat", "shut", "good"})
  /\ Is1({"halt"}) => HaltRule(tool, aim.answer, A, M)
  /\ Is1({"guard"}) => "still" \in A.is /\ Same(A, M, {}, {})
  /\ Is1({"window"}) => WindowRule(A, x, M)
  /\ Is1({"fill"}) => FillRule(A, x, M)
  /\ Is1({"write"}) => WriteRule(A, x, M)
  /\ Is1({"read"}) => ReadRule(tool, aim.answer, A, M)
  /\ Is1({"clear"}) => "still" \in A.is /\ Same(A, M, {}, {"noeot", "nouart"})
  /\ Is1({"run"}) => RunRule(tool, aim.need, A, M)
  /\ Is1({"wait"}) =>
       /\ {"own", "right"} \subseteq A.is /\ tool \in {"detect", "chunks", "runner", "smoke"}
       /\ tool = "runner" => {"listed", "current", "flat"} \subseteq A.is
       /\ Same(A, M, {}, {"seen"})
  /\ Is1({"pop"}) =>
       Same(A, M, {"right", "seen", "popped"},
            IF {"right", "seen"} \subseteq A.is THEN {"popped"} ELSE {})
  /\ Is1({"test"}) => tool = "runner" /\ {"listed", "flat"} \subseteq A.is /\ ~M.live
  /\ Is1({"judge"}) =>
       {"listed", "current", "popped"} \subseteq A.is /\ Same(A, M, {"current"}, {})
  /\ Is1({"ensure"}) => Same(A, M, {}, {"elf", "man", "dram", "stamped"})
  /\ Is1({"dramhex"}) => Same(A, M, {"whole"}, {"dram"})
  /\ Is1({"manifest"}) => Same(A, M, {"whole"}, {"man"})
  /\ Is1({"link"}) => Same(A, M, {"whole"}, {"elf"})
  /\ Is1({"stamp"}) =>
       Same(A, M, {"whole"},
            {"stamped"} \cup IF {"elf", "man", "dram"} \subseteq A.is THEN {"whole"} ELSE {})
  /\ Is1({"image"}) =>
       /\ {"elf", "man", "dram", "stamped", "unread"} \subseteq A.is
       /\ tool \in {"detect", "chunks"} /\ ~M.live
  /\ Is1({"chunk"}) =>
       /\ {"shut", "flat", "good", "elf"} \subseteq A.is /\ tool = "chunks" /\ ~M.live
       /\ {c \in aim.need : c[1] # "dccm"} \subseteq A.mem
  /\ Is1({"unload", "vivado", "rescan", "modprobe", "verify"}) => tool = "program"
  /\ Is1({"unload"}) => Same(A, M, {"driver", "verified"}, {})
  /\ Is1({"vivado"}) =>
       /\ M.is \subseteq (A.is \cap {"easy", "driver", "whole"})
                           \cup IF "easy" \in A.is THEN {"verified"} ELSE {}
       /\ M.mem = {} /\ M.win = {} /\ M.live
  /\ Is1({"rescan"}) => Same(A, M, {"verified"}, {})
  /\ Is1({"modprobe"}) => Same(A, M, {}, {"driver"})
  /\ Is1({"verify"}) => "driver" \in A.is /\ ~M.live

\* A list of calls, with the assertion N[k] before its call k.
Triple(aim, A, c, B) ==
  /\ c \in Seq(Calls)
  /\ \E N : /\ N[1] = A /\ N[Len(c) + 1] = B
            /\ \A k \in 1..Len(c) : Step(aim, N[k], c[k], N[k + 1])

-----------------------------------------------------------------------------
(* Lists of calls.                                                         *)

LEMMA CallsAre ==
  ASSUME NEW op \in OpNames
  PROVE  Call(op) \in Calls /\ Call(op).op = op
BY DEF Call, Calls, Blank, Word, Values

LEMMA TripleNil ==
  ASSUME NEW aim, NEW A
  PROVE  Triple(aim, A, <<>>, A)
<1>1. [k \in {1} |-> A][1] = A /\ [k \in {1} |-> A][Len(<<>>) + 1] = A
  OBVIOUS
<1>2. <<>> \in Seq(Calls) /\ \A k \in 1..Len(<<>>) : FALSE
  OBVIOUS
<1> QED BY <1>1, <1>2 DEF Triple

LEMMA TripleEnd ==
  ASSUME NEW aim, NEW A, NEW B, Triple(aim, A, <<>>, B)
  PROVE  A = B
BY DEF Triple

LEMMA TripleOne ==
  ASSUME NEW aim, NEW A, NEW x \in Calls, NEW B, Step(aim, A, x, B)
  PROVE  Triple(aim, A, <<x>>, B)
<1> DEFINE N == <<A, B>>
<1>1. N[1] = A /\ N[Len(<<x>>) + 1] = B /\ <<x>> \in Seq(Calls)
  OBVIOUS
<1>2. \A k \in 1..Len(<<x>>) : Step(aim, N[k], <<x>>[k], N[k + 1])
  <2>1. \A k \in 1..Len(<<x>>) : k = 1
    OBVIOUS
  <2> QED BY <2>1
<1> QED BY <1>1, <1>2 DEF Triple

\* The first call, and the rest.
LEMMA TripleFirst ==
  ASSUME NEW aim, NEW A, NEW B, NEW c, Triple(aim, A, c, B), c # <<>>
  PROVE  /\ c[1] \in Calls /\ Tail(c) \in Seq(Calls)
         /\ \E M : Step(aim, A, c[1], M) /\ Triple(aim, M, Tail(c), B)
<1>1. PICK N : /\ N[1] = A /\ N[Len(c) + 1] = B
               /\ \A k \in 1..Len(c) : Step(aim, N[k], c[k], N[k + 1])
  BY DEF Triple
<1>2. c \in Seq(Calls) /\ Len(c) \in Nat /\ Len(c) >= 1
  BY DEF Triple
<1>3. /\ Tail(c) \in Seq(Calls) /\ Len(Tail(c)) = Len(c) - 1
      /\ \A k \in 1..(Len(c) - 1) : Tail(c)[k] = c[k + 1]
  BY <1>2
<1> DEFINE R == [k \in 1..Len(c) |-> N[k + 1]]
<1>4. R[1] = N[2] /\ R[Len(Tail(c)) + 1] = B
  BY <1>1, <1>2, <1>3
<1>5. \A k \in 1..Len(Tail(c)) : Step(aim, R[k], Tail(c)[k], R[k + 1])
  <2> TAKE k \in 1..Len(Tail(c))
  <2>1. /\ k + 1 \in 1..Len(c) /\ R[k] = N[k + 1] /\ R[k + 1] = N[(k + 1) + 1]
        /\ Tail(c)[k] = c[k + 1]
    BY <1>2, <1>3
  <2> QED BY <1>1, <2>1
<1>6. Triple(aim, N[2], Tail(c), B)
  <2> HIDE DEF R
  <2> QED BY <1>3, <1>4, <1>5 DEF Triple
<1>7. Step(aim, A, c[1], N[2]) /\ c[1] \in Calls
  <2>1. 1 \in 1..Len(c) /\ 1 + 1 = 2
    BY <1>2
  <2> QED BY <1>1, <1>2, <2>1
<1> QED BY <1>3, <1>6, <1>7

LEMMA TripleThen ==
  ASSUME NEW aim, NEW A, NEW M, NEW B, NEW c, NEW d,
         Triple(aim, A, c, M), Triple(aim, M, d, B)
  PROVE  Triple(aim, A, c \o d, B)
<1>1. PICK N : /\ N[1] = A /\ N[Len(c) + 1] = M
               /\ \A k \in 1..Len(c) : Step(aim, N[k], c[k], N[k + 1])
  BY DEF Triple
<1>2. PICK P : /\ P[1] = M /\ P[Len(d) + 1] = B
               /\ \A k \in 1..Len(d) : Step(aim, P[k], d[k], P[k + 1])
  BY DEF Triple
<1>3. c \in Seq(Calls) /\ d \in Seq(Calls) /\ Len(c) \in Nat /\ Len(d) \in Nat
  BY DEF Triple
<1>4. /\ c \o d \in Seq(Calls) /\ Len(c \o d) = Len(c) + Len(d)
      /\ \A k \in 1..Len(c) : (c \o d)[k] = c[k]
      /\ \A k \in (Len(c) + 1)..(Len(c) + Len(d)) : (c \o d)[k] = d[k - Len(c)]
  BY <1>3
<1> DEFINE R == [k \in 1..(Len(c) + Len(d) + 1) |->
                  IF k <= Len(c) THEN N[k] ELSE P[k - Len(c)]]
<1>5. R[1] = A /\ R[Len(c \o d) + 1] = B
  BY <1>1, <1>2, <1>3, <1>4
<1>6. \A k \in 1..Len(c \o d) : Step(aim, R[k], (c \o d)[k], R[k + 1])
  <2> TAKE k \in 1..Len(c \o d)
  <2>1. CASE k <= Len(c)
    <3>1. R[k] = N[k] /\ R[k + 1] = N[k + 1] /\ (c \o d)[k] = c[k] /\ k \in 1..Len(c)
      <4>1. k \in 1..Len(c)
        BY <1>3, <1>4, <2>1
      <4>2. CASE k < Len(c)
        BY <1>3, <1>4, <4>1, <4>2
      <4>3. CASE k = Len(c)
        BY <1>1, <1>2, <1>3, <1>4, <4>1, <4>3
      <4> QED BY <1>3, <4>1, <4>2, <4>3
    <3> QED BY <1>1, <3>1
  <2>2. CASE ~(k <= Len(c))
    <3> DEFINE j == k - Len(c)
    <3>1. /\ j \in 1..Len(d) /\ R[k] = P[j] /\ R[k + 1] = P[j + 1]
          /\ (c \o d)[k] = d[j]
      BY <1>3, <1>4, <2>2
    <3> QED BY <1>2, <3>1
  <2> QED BY <2>1, <2>2
<1> HIDE DEF R
<1> QED BY <1>4, <1>5, <1>6 DEF Triple
-----------------------------------------------------------------------------
(* The invariant.                                                          *)

\* What holds when a tool's list is done: LeavesCardQuiet, RunnerCounts,
\* ProgramVerified and ResultsOurs, tool by tool.
Goal(tool, code) ==
  {"whole"} \cup Safe(tool) \cup
    (IF code # 0 THEN {}
     ELSE CASE tool = "detect" -> {"read2", "elf", "man", "dram", "stamped"}
            [] tool = "runner" -> {"counted"} [] tool = "program" -> {"verified"}
            [] OTHER -> {})

Aim == [tool |-> host.tool, need |-> Needed, answer |-> Answer]

Going ==
  \E A, B : /\ A.live /\ Triple(Aim, A, todo, B) /\ Holds(A)
            /\ B.live => Goal(host.tool, host.code) \subseteq B.is

\* The core's registers.
Registers ==
  /\ dev.sel => board.bit = "good"
  /\ dev.run <=> dev.prog # "none"
  /\ ~dev.run => dev.said = 0
  /\ Len(dev.uart) <= UartDepth

\* A write the card may drop is never made: a drain comes before.
Posting ==
  /\ Is("write") => dev.posted <= Top.at % 4
  /\ ~Is("write") => dev.posted = 0

Rest ==
  /\ \A d \in {"main", "bb"} \ {host.dir} : Whole(d)
  /\ host.ours /\ UartOurs /\ Len(host.got) <= 2
  /\ host.tool \in {"detect", "chunks"} => host.want \in Names /\ Images[host.want].dram

CardInv == Typed /\ Registers /\ Posting /\ Rest /\ Going

\* The call a tool is at, with the assertions around it.
Turn(A, M, B) ==
  /\ todo # <<>> /\ todo \in Seq(Calls) /\ Top \in Calls /\ Tail(todo) \in Seq(Calls)
  /\ A.live /\ Step(Aim, A, Top, M) /\ Triple(Aim, M, Tail(todo), B) /\ Holds(A)
  /\ B.live => Goal(host.tool, host.code) \subseteq B.is

LEMMA TurnOf ==
  ASSUME Going, todo # <<>>
  PROVE  \E A, M, B : Turn(A, M, B)
<1>1. PICK A, B : /\ A.live /\ Triple(Aim, A, todo, B) /\ Holds(A)
                  /\ B.live => Goal(host.tool, host.code) \subseteq B.is
  BY DEF Going
<1>2. /\ todo[1] \in Calls /\ Tail(todo) \in Seq(Calls)
      /\ \E M : Step(Aim, A, todo[1], M) /\ Triple(Aim, M, Tail(todo), B)
  BY <1>1, TripleFirst
<1>3. todo \in Seq(Calls)
  BY <1>1 DEF Triple
<1> QED BY <1>1, <1>2, <1>3 DEF Turn, Top

\* A call that makes others of itself.
LEMMA GoOn ==
  ASSUME NEW A, NEW M, NEW B, Turn(A, M, B), Aim' = Aim, host'.code = host.code,
         NEW c, NEW P, P.live, Triple(Aim, P, c, M), Holds(P)', Then(c)
  PROVE  Going'
<1>1. Triple(Aim, P, todo', B)
  BY TripleThen DEF Turn, Then
<1>2. host'.tool = host.tool
  BY DEF Aim
<1>3. /\ P.live /\ Triple(Aim', P, todo', B) /\ Holds(P)'
      /\ B.live => Goal(host'.tool, host'.code) \subseteq B.is
  BY <1>1, <1>2 DEF Turn
<1> QED BY <1>3 DEF Going

LEMMA GoNext ==
  ASSUME NEW A, NEW M, NEW B, Turn(A, M, B), Aim' = Aim, host'.code = host.code,
         M.live, Holds(M)', Then(<<>>)
  PROVE  Going'
BY TripleNil, GoOn

\* A list of its own, or none.
LEMMA GoAfresh ==
  ASSUME NEW A, NEW B, A.live, Triple(Aim', A, todo', B), Holds(A)',
         B.live => Goal(host'.tool, host'.code) \subseteq B.is
  PROVE  Going'
BY DEF Going

LEMMA GoStop ==
  ASSUME todo' = <<>>, \A f \in Goal(host'.tool, host'.code) : Fact(f)'
  PROVE  Going'
<1>0. PICK A : A = Assert(Goal(host'.tool, host'.code), {}, {})
  OBVIOUS
<1>1. A.live /\ A.is = Goal(host'.tool, host'.code) /\ A.mem = {} /\ A.win = {}
  BY <1>0 DEF Assert
<1>2. Holds(A)'
  <2>1. A.is \cap {"noeot", "nouart"} = {}
    BY <1>1 DEF Goal, Safe
  <2> QED BY <1>1, <2>1 DEF Holds
<1>3. Triple(Aim', A, todo', A)
  BY TripleNil
<1> QED BY <1>1, <1>2, <1>3, GoAfresh
-----------------------------------------------------------------------------
(* What a step leaves alone.                                               *)

LEMMA Framed ==
  ASSUME UNCHANGED <<board, files, host>>
  PROVE  /\ (Sane' <=> Sane) /\ (Open' <=> Open) /\ Aim' = Aim
         /\ \A f : /\ OfRead(f) => OfRead(f)'
                   /\ OfTests(f) => OfTests(f)'
                   /\ OfFiles(f) => OfFiles(f)'
                   /\ OfBoard(f) => OfBoard(f)'
         /\ Rest => Rest'
<1>1. (Sane' <=> Sane) /\ (Open' <=> Open)
  BY DEF Sane, Open
<1>2. Aim' = Aim
  BY <1>1 DEF Aim, Needed, Need, Means, Answer
<1>3. \A f : OfRead(f) => OfRead(f)'
  BY <1>1 DEF OfRead, Answer
<1>4. \A f : OfTests(f) => OfTests(f)'
  BY <1>1 DEF OfTests, Judged, Bytes
<1>5. \A f : OfFiles(f) => OfFiles(f)'
  BY DEF OfFiles, Whole, Dir
<1>6. \A f : OfBoard(f) => OfBoard(f)'
  BY <1>1 DEF OfBoard, Answers
<1>7. Rest => Rest'
  BY DEF Rest, Whole, UartOurs
<1> QED BY <1>1, <1>2, <1>3, <1>4, <1>5, <1>6, <1>7

LEMMA CoreFacts ==
  ASSUME UNCHANGED <<board, dev, mem, host>>
  PROVE  \A f : OfCore(f) => OfCore(f)'
<1>1. Sane' <=> Sane
  BY DEF Sane, Open
<1>2. RunsRight' <=> RunsRight
  BY DEF RunsRight, Means, Answer, Bytes
<1> QED BY <1>1, <1>2 DEF OfCore

\* Only the list changes.
LEMMA AllSame ==
  ASSUME UNCHANGED <<board, dev, mem, files, host>>
  PROVE  /\ Aim' = Aim /\ \A f : Fact(f) => Fact(f)'
         /\ \A A : Holds(A) => Holds(A)'
         /\ Rest => Rest'
         /\ Registers => Registers'
<1>0. /\ Aim' = Aim /\ (Sane' <=> Sane) /\ (Open' <=> Open) /\ (Rest => Rest')
      /\ \A f : /\ OfRead(f) => OfRead(f)'
                /\ OfTests(f) => OfTests(f)'
                /\ OfFiles(f) => OfFiles(f)'
                /\ OfBoard(f) => OfBoard(f)'
  BY Framed
<1>1. \A f : Fact(f) => Fact(f)'
  <2>1. \A f : OfCore(f) => OfCore(f)'
    BY CoreFacts
  <2> SUFFICES ASSUME NEW f, Fact(f) PROVE Fact(f)'
    OBVIOUS
  <2>2. OfCore(f)'
    BY <2>1 DEF Fact
  <2>3. OfRead(f)' /\ OfTests(f)' /\ OfFiles(f)' /\ OfBoard(f)'
    BY <1>0 DEF Fact
  <2> QED BY <2>2, <2>3 DEF Fact
<1>2. Registers => Registers'
  BY DEF Registers
<1>3. \A A : Holds(A) => Holds(A)'
  BY <1>0, <1>1 DEF Holds, Cell
<1> QED BY <1>0, <1>1, <1>2, <1>3

LEMMA Weaker ==
  ASSUME NEW A, NEW M, Holds(A), M.is \subseteq A.is, M.mem \subseteq A.mem,
         M.win \subseteq A.win
  PROVE  Holds(M)
BY DEF Holds

LEMMA NotPosting ==
  ASSUME Typed', dev'.posted = 0
  PROVE  Posting'
<1> SUFFICES ASSUME Is("write")' PROVE dev'.posted <= Top'.at % 4
  BY DEF Posting
<1>1. PICK x \in Calls : x = Top'
  BY DEF Typed, Is, Top
<1>2. x.at \in Nat
  BY DEF Calls
<1> QED BY <1>1, <1>2

LEMMA Pair ==
  ASSUME NEW a, NEW b
  PROVE  <<a>> \o <<b>> = <<a, b>>
<1>1. <<a>> \in Seq({a, b}) /\ <<b>> \in Seq({a, b}) /\ <<a, b>> \in Seq({a, b})
  OBVIOUS
<1>2. /\ <<a>> \o <<b>> \in Seq({a, b}) /\ Len(<<a>> \o <<b>>) = 2
      /\ (<<a>> \o <<b>>)[1] = a /\ (<<a>> \o <<b>>)[2] = b
  BY <1>1
<1>3. \A k \in 1..2 : (<<a>> \o <<b>>)[k] = <<a, b>>[k]
  BY <1>2
<1> QED BY <1>1, <1>2, <1>3, SeqEqual

LEMMA Threes ==
  ASSUME NEW a, NEW b, NEW c
  PROVE  <<a>> \o (<<b>> \o <<c>>) = <<a, b, c>>
<1>1. /\ <<a>> \in Seq({a, b, c}) /\ <<b, c>> \in Seq({a, b, c})
      /\ <<a, b, c>> \in Seq({a, b, c})
  OBVIOUS
<1>2. /\ <<a>> \o <<b, c>> \in Seq({a, b, c}) /\ Len(<<a>> \o <<b, c>>) = 3
      /\ (<<a>> \o <<b, c>>)[1] = a /\ (<<a>> \o <<b, c>>)[2] = b
      /\ (<<a>> \o <<b, c>>)[3] = c
  BY <1>1
<1>3. \A k \in 1..3 : (<<a>> \o <<b, c>>)[k] = <<a, b, c>>[k]
  BY <1>2
<1>4. <<a>> \o <<b, c>> = <<a, b, c>>
  BY <1>1, <1>2, <1>3, SeqEqual
<1> QED BY <1>4, Pair

\* An exception: the tool is over, but for the dump of the smoke test.
LEMMA RaiseGoes ==
  ASSUME Typed, Raise, \A f \in {"whole"} \cup Safe(host.tool) : Fact(f)'
  PROVE  Going'
<1>1. host'.code = 1 /\ host'.tool = host.tool
  BY DEF Typed, Hosts, Raise
<1>2. Goal(host'.tool, host'.code) = {"whole"} \cup Safe(host.tool)
  BY <1>1 DEF Goal
<1>3. CASE todo' = <<>>
  BY <1>2, <1>3, GoStop
<1>4. CASE host.tool = "smoke" /\ todo' = <<Call("pop"), Call("halt")>>
  <2>0. PICK A : A = Assert({"whole", "quiet"}, {}, {})
    OBVIOUS
  <2>1. A.live /\ A.is = {"whole", "quiet"} /\ A.mem = {} /\ A.win = {}
    BY <2>0 DEF Assert
  <2>2. Call("pop") \in Calls /\ Call("pop").op = "pop"
    BY CallsAre DEF OpNames
  <2>3. Call("halt") \in Calls /\ Call("halt").op = "halt"
    BY CallsAre DEF OpNames
  <2>4. Step(Aim', A, Call("pop"), A)
    BY <2>1, <2>2 DEF Step, Same
  <2>5. Step(Aim', A, Call("halt"), A)
    BY <2>1, <2>3 DEF Step, HaltRule
  <2>6. Triple(Aim', A, <<Call("pop")>> \o <<Call("halt")>>, A)
    BY <2>2, <2>3, <2>4, <2>5, TripleOne, TripleThen
  <2>7. <<Call("pop")>> \o <<Call("halt")>> = <<Call("pop"), Call("halt")>>
    BY Pair
  <2>8. Safe(host.tool) = {"quiet"}
    BY <1>4 DEF Safe
  <2>9. Holds(A)'
    BY <2>1, <2>8 DEF Holds
  <2> QED BY <1>2, <1>4, <2>1, <2>6, <2>7, <2>8, <2>9, GoAfresh
<1> QED BY <1>3, <1>4 DEF Raise

LEMMA HostCode ==
  ASSUME NEW h \in Hosts, NEW c \in 0..2
  PROVE  \A h2 : h2 = [h EXCEPT !.code = c] =>
              /\ h2 \in Hosts
              /\ h2.code = c /\ h2.tool = h.tool /\ h2.want = h.want /\ h2.image = h.image
              /\ h2.input = h.input /\ h2.limit = h.limit /\ h2.dir = h.dir
              /\ h2.tests = h.tests /\ h2.results = h.results /\ h2.got = h.got
              /\ h2.uart = h.uart /\ h2.started = h.started
              /\ h2.mapped = h.mapped /\ h2.ours = h.ours
BY DEF Hosts

\* What an exit leaves alone.
LEMMA CodeKeeps ==
  ASSUME CardInv, UNCHANGED <<board, files>>,
         NEW c \in 0..2, host' = [host EXCEPT !.code = c]
  PROVE  /\ host' \in Hosts /\ Rest'
         /\ host'.tool = host.tool /\ host'.started = host.started
         /\ (Sane' <=> Sane) /\ (Open' <=> Open)
         /\ \A f : /\ OfRead(f) => OfRead(f)'
                   /\ OfTests(f) => OfTests(f)'
                   /\ OfFiles(f) => OfFiles(f)'
                   /\ OfBoard(f) => OfBoard(f)'
<1>1. host' = [host EXCEPT !.code = c] /\ host \in Hosts
  BY DEF CardInv, Typed
<1>2. /\ host' \in Hosts
      /\ host'.tool = host.tool /\ host'.want = host.want /\ host'.image = host.image
      /\ host'.input = host.input /\ host'.limit = host.limit /\ host'.dir = host.dir
      /\ host'.tests = host.tests /\ host'.results = host.results /\ host'.got = host.got
      /\ host'.uart = host.uart /\ host'.started = host.started
      /\ host'.mapped = host.mapped /\ host'.ours = host.ours
  BY <1>1, HostCode
<1>3. Rest'
  BY <1>2 DEF CardInv, Rest, Whole, UartOurs
<1>4. (Sane' <=> Sane) /\ (Open' <=> Open)
  BY <1>2 DEF Sane, Open
<1>5. \A f : OfRead(f) => OfRead(f)'
  BY <1>2, <1>4 DEF OfRead, Answer
<1>6. \A f : OfTests(f) => OfTests(f)'
  BY <1>2, <1>4 DEF OfTests, Judged, Bytes
<1>7. \A f : OfFiles(f) => OfFiles(f)'
  BY <1>2 DEF OfFiles, Whole, Dir
<1>8. \A f : OfBoard(f) => OfBoard(f)'
  BY <1>2, <1>4 DEF OfBoard, Answers
<1> QED BY <1>2, <1>3, <1>4, <1>5, <1>6, <1>7, <1>8

\* An exit of a tool that leaves the card as it is.
LEMMA ExitKeeps ==
  ASSUME CardInv, UNCHANGED <<board, dev, mem, files, uses>>, ~Is("write"),
         NEW c \in 0..2, host' = [host EXCEPT !.code = c], todo' \in Seq(Calls)
  PROVE  /\ Typed' /\ Registers' /\ Posting' /\ Rest'
         /\ \A f : Fact(f) => Fact(f)'
<1>0. UNCHANGED <<board, files>>
  OBVIOUS
<1>1. /\ host' \in Hosts /\ Rest'
      /\ host'.tool = host.tool /\ host'.started = host.started
      /\ (Sane' <=> Sane) /\ (Open' <=> Open)
      /\ \A f : /\ OfRead(f) => OfRead(f)'
                /\ OfTests(f) => OfTests(f)'
                /\ OfFiles(f) => OfFiles(f)'
                /\ OfBoard(f) => OfBoard(f)'
  BY <1>0, CodeKeeps
<1>2. Typed'
  BY <1>1 DEF CardInv, Typed, MemOK
<1>3. Registers' /\ Posting'
  BY <1>2, NotPosting DEF CardInv, Registers, Posting
<1>4. /\ host'.tool = host.tool /\ host'.want = host.want /\ host'.image = host.image
      /\ host'.input = host.input /\ host'.limit = host.limit
      /\ host'.started = host.started /\ host'.mapped = host.mapped
  BY HostCode DEF CardInv, Typed
<1>5. RunsRight' <=> RunsRight
  BY <1>4 DEF RunsRight, Means, Answer, Bytes
<1>6. \A f : OfCore(f) => OfCore(f)'
  BY <1>1, <1>4, <1>5 DEF OfCore
<1> QED BY <1>1, <1>2, <1>3, <1>6 DEF Fact


LEMMA RaiseInv ==
  ASSUME CardInv, Raise, UNCHANGED <<board, dev, mem, files, uses>>, ~Is("write"),
         NEW A, NEW M, NEW B, Turn(A, M, B), {"whole"} \cup Safe(host.tool) \subseteq A.is
  PROVE  CardInv'
<1>1. host' = [host EXCEPT !.code = 1] /\ todo' \in Seq(Calls)
  BY CallsAre DEF Raise, OpNames
<1>2. /\ Typed' /\ Registers' /\ Posting' /\ Rest'
      /\ \A f : Fact(f) => Fact(f)'
  BY <1>1, ExitKeeps, 1 \in 0..2
<1>3. \A f \in A.is : Fact(f)
  BY DEF Turn, Holds
<1>4. Going'
  BY <1>2, <1>3, RaiseGoes DEF CardInv
<1> QED BY <1>2, <1>4 DEF CardInv

LEMMA ExitInv ==
  ASSUME CardInv, NEW c \in 1..2, Exit(c), UNCHANGED <<board, dev, mem, files, uses>>,
         ~Is("write"),
         NEW A, NEW M, NEW B, Turn(A, M, B), {"whole"} \cup Safe(host.tool) \subseteq A.is
  PROVE  CardInv'
<1>1. host' = [host EXCEPT !.code = c] /\ todo' = <<>> /\ todo' \in Seq(Calls)
  BY DEF Exit
<1>2. /\ Typed' /\ Registers' /\ Posting' /\ Rest'
      /\ \A f : Fact(f) => Fact(f)'
  BY <1>1, ExitKeeps, c \in 0..2
<1>3. \A f \in A.is : Fact(f)
  BY DEF Turn, Holds
<1>4. host'.code = c /\ host'.tool = host.tool
  BY <1>1, HostCode, c \in 0..2 DEF CardInv, Typed
<1>5. Goal(host'.tool, host'.code) = {"whole"} \cup Safe(host.tool)
  BY <1>4 DEF Goal
<1>6. Going'
  BY <1>1, <1>2, <1>3, <1>5, GoStop
<1> QED BY <1>2, <1>6 DEF CardInv

LEMMA ThenTyped ==
  ASSUME todo \in Seq(Calls), todo # <<>>, NEW c \in Seq(Calls), Then(c)
  PROVE  todo' \in Seq(Calls)
BY DEF Then

\* A call that only goes on, to the calls it makes of itself.
LEMMA PassInv ==
  ASSUME CardInv, UNCHANGED <<board, dev, mem, files, host, uses>>, ~Is("write"),
         NEW A, NEW M, NEW B, Turn(A, M, B),
         NEW c, NEW P, P.live, Triple(Aim, P, c, M), Holds(P), Then(c)
  PROVE  CardInv'
<1>0. UNCHANGED <<board, dev, mem, files, host>>
  OBVIOUS
<1>5. /\ Aim' = Aim
      /\ Rest => Rest'
      /\ Registers => Registers'
      /\ \A X : Holds(X) => Holds(X)'
  BY <1>0, AllSame
<1>1. Aim' = Aim /\ Holds(P)' /\ Rest' /\ Registers'
  BY <1>5 DEF CardInv
<1>2. Going'
  BY <1>1, GoOn
<1>3. Typed'
  <2>1. todo' \in Seq(Calls)
    BY ThenTyped DEF Turn, Triple
  <2> QED BY <2>1 DEF CardInv, Typed, MemOK
<1>4. Posting'
  BY <1>3, NotPosting DEF CardInv, Posting
<1> QED BY <1>1, <1>2, <1>3, <1>4 DEF CardInv

LEMMA StepOn ==
  ASSUME CardInv, UNCHANGED <<board, dev, mem, files, host, uses>>, ~Is("write"),
         NEW A, NEW M, NEW B, Turn(A, M, B), M.live, Holds(M), Then(<<>>)
  PROVE  CardInv'
BY TripleNil, PassInv

LEMMA CheckVersionInv == ASSUME CardInv, CheckVersion PROVE CardInv'
<1>1. /\ Is("version") /\ todo # <<>> /\ ~Is("write")
      /\ UNCHANGED <<board, dev, mem, files, uses>>
  BY DEF CheckVersion, Is
<1>2. PICK A, M, B : Turn(A, M, B)
  BY <1>1, TurnOf DEF CardInv
<1>3. Same(A, M, {}, {}) /\ {"whole"} \cup Safe(host.tool) \subseteq A.is
  BY <1>1, <1>2 DEF Turn, Step, Is, Aim
<1>4. CASE Answers
  <2>1. Then(<<>>) /\ UNCHANGED host
    BY <1>4 DEF CheckVersion
  <2>2. M.live /\ Holds(M)
    BY <1>2, <1>3, Weaker DEF Same, Turn
  <2> QED BY <1>1, <1>2, <2>1, <2>2, StepOn
<1>5. CASE Raise
  BY <1>1, <1>2, <1>3, <1>5, RaiseInv
<1> QED BY <1>4, <1>5 DEF CheckVersion

LEMMA CheckCtrlInv == ASSUME CardInv, CheckCtrl PROVE CardInv'
<1>1. /\ Is("ctrl") /\ todo # <<>> /\ ~Is("write")
      /\ UNCHANGED <<board, dev, mem, files, uses>>
  BY DEF CheckCtrl, Is
<1>2. PICK A, M, B : Turn(A, M, B)
  BY <1>1, TurnOf DEF CardInv
<1>3. Same(A, M, {}, {}) /\ {"whole"} \cup Safe(host.tool) \subseteq A.is
  BY <1>1, <1>2 DEF Turn, Step, Is, Aim
<1>4. CASE Then(<<>>) /\ UNCHANGED host
  <2>1. M.live /\ Holds(M)
    BY <1>2, <1>3, Weaker DEF Same, Turn
  <2> QED BY <1>1, <1>2, <1>4, <2>1, StepOn
<1>5. CASE Raise
  BY <1>1, <1>2, <1>3, <1>5, RaiseInv
<1>6. CASE Exit(2)
  BY <1>1, <1>2, <1>3, <1>6, ExitInv, 2 \in 1..2
<1> QED BY <1>4, <1>5, <1>6 DEF CheckCtrl

\* The core does not run where a load or a read looks.
LEMMA GuardInv == ASSUME CardInv, Guard PROVE CardInv'
<1>1. /\ Is("guard") /\ todo # <<>> /\ ~Is("write")
      /\ UNCHANGED <<board, dev, mem, files, uses>>
  BY DEF Guard, Is
<1>2. PICK A, M, B : Turn(A, M, B)
  BY <1>1, TurnOf DEF CardInv
<1>3. Same(A, M, {}, {}) /\ "still" \in A.is
  BY <1>1, <1>2 DEF Turn, Step, Is, Aim
<1>4. ~dev.run
  BY <1>2, <1>3 DEF Turn, Holds, Fact, OfCore
<1>5. Then(<<>>) /\ UNCHANGED host
  BY <1>4 DEF Guard
<1>6. M.live /\ Holds(M)
  BY <1>2, <1>3, Weaker DEF Same, Turn
<1> QED BY <1>1, <1>2, <1>5, <1>6, StepOn
-----------------------------------------------------------------------------
(* The calls that only touch the registers.                                *)

CoreNames ==
  {"still", "flat", "noeot", "nouart", "own", "seen", "right", "quiet", "shut"}

LEMMA CoreOnly ==
  ASSUME NEW f \in CoreNames
  PROVE  /\ OfRead(f) /\ OfTests(f) /\ OfFiles(f) /\ OfBoard(f)
         /\ OfRead(f)' /\ OfTests(f)' /\ OfFiles(f)' /\ OfBoard(f)'
BY DEF CoreNames, OfRead, OfTests, OfFiles, OfBoard

\* Of a step of the card, only the facts about the card are in question.
LEMMA FactsGo ==
  ASSUME UNCHANGED <<board, files, host>>, NEW A, Holds(A),
         NEW S, S \subseteq A.is \cup CoreNames, \A f \in S : OfCore(f)'
  PROVE  \A f \in S : Fact(f)'
<1> SUFFICES ASSUME NEW f \in S PROVE Fact(f)'
  OBVIOUS
<1>1. OfCore(f)'
  OBVIOUS
<1>2. CASE f \in CoreNames
  BY <1>1, <1>2, CoreOnly DEF Fact
<1>3. CASE f \in A.is
  <2>1. Fact(f)
    BY <1>3 DEF Holds
  <2>2. /\ OfRead(f) => OfRead(f)'
        /\ OfTests(f) => OfTests(f)'
        /\ OfFiles(f) => OfFiles(f)'
        /\ OfBoard(f) => OfBoard(f)'
    BY Framed
  <2> QED BY <1>1, <2>1, <2>2 DEF Fact
<1> QED BY <1>2, <1>3

LEMMA CardStep ==
  ASSUME CardInv, UNCHANGED <<board, files, host, uses>>,
         NEW A, NEW M, NEW B, Turn(A, M, B), M.live, Holds(M)', Then(<<>>),
         dev' \in Devices, MemOK', Registers', dev'.posted = 0
  PROVE  CardInv'
<1>0. UNCHANGED <<board, files, host>>
  OBVIOUS
<1>1. /\ Aim' = Aim
      /\ Rest => Rest'
  BY <1>0, Framed
<1>2. Going'
  BY <1>1, GoNext
<1>3. Typed'
  <2>1. todo' \in Seq(Calls)
    <3>1. <<>> \in Seq(Calls) /\ todo # <<>> /\ todo \in Seq(Calls)
      BY DEF Turn
    <3> QED BY <3>1, ThenTyped
  <2> QED BY <2>1 DEF CardInv, Typed
<1>4. Posting'
  BY <1>3, NotPosting
<1> QED BY <1>1, <1>2, <1>3, <1>4 DEF CardInv

\* The sizes.
LEMMA Sizes ==
  /\ Size["iccm"] = Words /\ Size["dccm"] = Words /\ Size["dram"] = Words * Windows
  /\ Words \in Nat /\ Windows \in Nat /\ Words >= 2 /\ Windows >= 2
  /\ Words * Windows \in Nat /\ Words * Windows >= Words + 2
<1>1. /\ Size["iccm"] = Words /\ Size["dccm"] = Words /\ Size["dram"] = Words * Windows
  BY DEF Size
<1>2. Words \in Nat /\ Windows \in Nat /\ Words >= 2 /\ Windows >= 2
  BY CardAssumption
<1>3. PICK v \in Nat : Windows = v + 2
  <2>1. Windows - 2 \in Nat /\ Windows = (Windows - 2) + 2
    BY <1>2
  <2> QED BY <2>1
<1>4. Words * (v + 2) = Words * v + Words + Words /\ Words * v \in Nat
  BY <1>2
<1> QED BY <1>1, <1>2, <1>3, <1>4

LEMMA ResultInDram ==
  /\ ResultAt \subseteq Range0("dram") /\ InputAt \in Range0("dram")
  /\ InputAt \notin ResultAt
  /\ LimitAt \in Range0("dccm")
BY Sizes DEF ResultAt, InputAt, LimitAt, Range0

LEMMA StoppedIs ==
  ASSUME NEW d \in Devices
  PROVE  \A e : e = Stopped(d) =>
           /\ e \in Devices /\ ~e.run /\ e.prog = "none" /\ e.said = 0
           /\ e.sel = d.sel /\ e.win = d.win /\ e.eot = d.eot /\ e.uart = d.uart
           /\ e.posted = d.posted /\ e.own = d.own
<1> SUFFICES ASSUME NEW e, e = Stopped(d)
    PROVE  /\ e \in Devices /\ ~e.run /\ e.prog = "none" /\ e.said = 0
           /\ e.sel = d.sel /\ e.win = d.win /\ e.eot = d.eot /\ e.uart = d.uart
           /\ e.posted = d.posted /\ e.own = d.own
  OBVIOUS
<1>1. PICK g : g = [d EXCEPT !.run = FALSE, !.prog = "none", !.said = 0]
  OBVIOUS
<1>2. /\ g \in Devices /\ ~g.run /\ g.prog = "none" /\ g.said = 0
      /\ g.sel = d.sel /\ g.win = d.win /\ g.eot = d.eot /\ g.uart = d.uart
      /\ g.posted = d.posted /\ g.own = d.own
  BY <1>1 DEF Devices
<1>3. e = [g EXCEPT !.limit = 0, !.input = 0]
  BY <1>1 DEF Stopped
<1> QED BY <1>2, <1>3 DEF Devices

\* An exception once the core is halted.
LEMMA RaiseStopped ==
  ASSUME CardInv, Raise, UNCHANGED <<board, mem, files, uses>>,
         dev' \in Devices, Registers', dev'.posted = 0, dev'.sel = dev.sel, ~dev'.run,
         NEW A, Holds(A), {"whole"} \cup (Safe(host.tool) \ {"quiet"}) \subseteq A.is
  PROVE  CardInv'
<1>1. host' = [host EXCEPT !.code = 1] /\ todo' \in Seq(Calls) /\ 1 \in 0..2
  BY CallsAre DEF Raise, OpNames
<1>2. /\ host' \in Hosts /\ Rest'
      /\ \A f : OfFiles(f) => OfFiles(f)'
  BY <1>1, CodeKeeps
<1>6. host'.started = host.started
  BY <1>1, CodeKeeps
<1>3. Typed' /\ Posting'
  <2>1. Typed'
    BY <1>1, <1>2 DEF CardInv, Typed, MemOK
  <2> QED BY <2>1, NotPosting
<1>4. ASSUME NEW f \in {"whole"} \cup Safe(host.tool) PROVE Fact(f)'
  <2>1. CASE f = "quiet"
    BY <2>1, CoreOnly DEF CoreNames, Fact, OfCore
  <2>2. CASE f = "shut"
    <3>1. OfCore(f)
      BY <1>4, <2>2 DEF Holds, Fact
    <3> QED BY <1>6, <2>2, <3>1, CoreOnly DEF CoreNames, Fact, OfCore
  <2>3. CASE f = "whole"
    <3>1. OfFiles(f)'
      BY <1>2, <2>3 DEF Holds, Fact
    <3> QED BY <2>3, <3>1 DEF Fact, OfCore, OfRead, OfTests, OfBoard
  <2> QED BY <1>4, <2>1, <2>2, <2>3 DEF Safe
<1>5. Going'
  BY <1>4, RaiseGoes DEF CardInv
<1> QED BY <1>2, <1>3, <1>5 DEF CardInv

LEMMA SetHaltInv == ASSUME CardInv, SetHalt PROVE CardInv'
<1>1. /\ Is("halt") /\ todo # <<>> /\ ~Is("write") /\ dev' = Stopped(dev) /\ Then(<<>>)
      /\ UNCHANGED <<board, mem, files, host, uses>>
  BY DEF SetHalt, Is
<1>2. PICK A, M, B : Turn(A, M, B)
  BY <1>1, TurnOf DEF CardInv
<1>3. HaltRule(host.tool, Answer, A, M) /\ Holds(A)
  BY <1>1, <1>2 DEF Turn, Step, Is, Aim
<1>4. /\ dev' \in Devices /\ ~dev'.run /\ dev'.prog = "none" /\ dev'.said = 0
      /\ dev'.sel = dev.sel /\ dev'.win = dev.win /\ dev'.eot = dev.eot
      /\ dev'.uart = dev.uart /\ dev'.posted = dev.posted /\ dev'.own = dev.own
  BY <1>1, StoppedIs DEF CardInv, Typed
<1>5. Registers' /\ MemOK' /\ dev'.posted = 0
  BY <1>1, <1>4 DEF CardInv, Registers, Posting, Typed, MemOK
<1>6. \A f \in M.is : OfCore(f)'
  <2> SUFFICES ASSUME NEW f \in M.is PROVE OfCore(f)'
    OBVIOUS
  <2>1. CASE f \in {"still", "quiet"}
    BY <1>4, <2>1 DEF OfCore
  <2>2. CASE f \in A.is /\ f \notin {"right", "seen"}
    <3>1. OfCore(f)
      BY <1>3, <2>2 DEF Holds, Fact
    <3> QED BY <1>1, <1>4, <2>2, <3>1 DEF OfCore
  <2> QED BY <1>3, <2>1, <2>2 DEF HaltRule
<1>7. \A f \in M.is : Fact(f)'
  BY <1>1, <1>3, <1>6, FactsGo DEF HaltRule, CoreNames
<1>8. (Sane' <=> Sane) /\ (Open' <=> Open)
  BY <1>1, Framed
<1>9. ASSUME Sane, NEW c \in M.mem PROVE Cell(c)
  <2>1. CASE c \in A.mem
    BY <1>3, <1>9, <2>1 DEF Holds
  <2>2. CASE c \notin A.mem
    <3>1. /\ host.tool = "detect" /\ "right" \in A.is /\ "seen" \in A.is
          /\ c \in Part("dram", ResultAt, Answer)
      BY <1>3, <1>9, <2>2 DEF HaltRule
    <3>2. RunsRight /\ dev.own
      BY <1>3, <1>9, <3>1 DEF Holds, Fact, OfCore
    <3>3. PICK a \in ResultAt : c = <<"dram", a, Answer>>
      BY <3>1 DEF Part
    <3>4. a \in Range0("dram")
      BY ResultInDram
    <3> QED BY <3>1, <3>2, <3>3, <3>4 DEF RunsRight, Cell
  <2> QED BY <2>1, <2>2
<1>10. Holds(M)'
  <2>1. Sane' => \A c \in M.mem : Cell(c)'
    BY <1>1, <1>8, <1>9 DEF Cell
  <2>2. Open' => \A w \in M.win : dev'.sel /\ dev'.win = w
    BY <1>3, <1>4, <1>8 DEF Holds, HaltRule
  <2> QED BY <1>4, <1>7, <2>1, <2>2 DEF Holds
<1> QED BY <1>1, <1>2, <1>3, <1>5, <1>4, <1>10, CardStep DEF HaltRule

LEMMA HasWindowInv == ASSUME CardInv, HasWindow PROVE CardInv'
<1>1. /\ Is("window?") /\ todo # <<>> /\ ~Is("write")
      /\ UNCHANGED <<board, mem, files, uses>>
  BY DEF HasWindow, Is
<1>2. PICK A, M, B : Turn(A, M, B)
  BY <1>1, TurnOf DEF CardInv
<1>3. /\ M.win = {}
      /\ Same(A, M, {"right", "seen"}, {"still", "quiet", "flat", "shut", "good"})
      /\ {"whole"} \cup Safe(host.tool) \subseteq A.is
      /\ Holds(A)
  BY <1>1, <1>2 DEF Turn, Step, Is, Aim
<1>4. PICK e : e = Stopped(dev)
  OBVIOUS
<1>5. /\ e \in Devices /\ ~e.run /\ e.prog = "none" /\ e.said = 0
      /\ e.sel = dev.sel /\ e.win = dev.win /\ e.eot = dev.eot
      /\ e.uart = dev.uart /\ e.posted = dev.posted /\ e.own = dev.own
  BY <1>4, StoppedIs DEF CardInv, Typed
<1>6. CASE board.bit = "good"
  <2>1. Then(<<>>) /\ UNCHANGED host /\ dev' = [e EXCEPT !.win = 0, !.sel = FALSE]
    BY <1>4, <1>6 DEF HasWindow
  <2>2. 0 \in Range0("dram")
    BY <1>5, CardAssumption DEF Range0, Size
  <2>3. /\ dev' \in Devices /\ ~dev'.run /\ dev'.prog = "none" /\ dev'.said = 0
        /\ ~dev'.sel /\ dev'.eot = dev.eot
        /\ dev'.uart = dev.uart /\ dev'.posted = dev.posted /\ dev'.own = dev.own
    BY <1>5, <2>1, <2>2 DEF Devices
  <2>4. Registers' /\ MemOK' /\ dev'.posted = 0
    BY <1>1, <2>3 DEF CardInv, Registers, Posting, Typed, MemOK
  <2>5. \A f \in M.is : OfCore(f)'
    <3> SUFFICES ASSUME NEW f \in M.is PROVE OfCore(f)'
      OBVIOUS
    <3>1. CASE f \in {"still", "quiet", "flat", "shut", "good"}
      BY <2>3, <3>1 DEF OfCore
    <3>2. CASE f \in A.is /\ f \notin {"right", "seen", "flat", "shut", "still", "quiet"}
      <4>1. OfCore(f)
        BY <1>3, <3>2 DEF Holds, Fact
      <4> QED BY <2>1, <2>3, <3>2, <4>1 DEF OfCore
    <3> QED BY <1>3, <3>1, <3>2 DEF Same
  <2>6. \A f \in M.is : Fact(f)'
    <3> SUFFICES ASSUME NEW f \in M.is PROVE Fact(f)'
      OBVIOUS
    <3>1. CASE f = "good"
      <4>1. OfBoard("good")'
        BY <1>1, <1>6 DEF OfBoard
      <4> QED BY <2>5, <3>1, <4>1 DEF Fact, OfRead, OfTests, OfFiles
    <3>2. CASE f # "good"
      <4>1. /\ UNCHANGED <<board, files, host>>
            /\ M.is \ {"good"} \subseteq A.is \cup CoreNames
        BY <1>1, <1>3, <2>1 DEF Same, CoreNames
      <4> QED BY <1>3, <2>5, <3>2, <4>1, FactsGo
    <3> QED BY <3>1, <3>2
  <2>7. Holds(M)'
    <3>1. (Sane' <=> Sane) /\ (Open' <=> Open)
      BY <1>1, <2>1, Framed
    <3>2. Sane' => \A c \in M.mem : Cell(c)'
      BY <1>1, <1>3, <3>1 DEF Holds, Same, Cell
    <3> QED BY <1>3, <2>3, <2>6, <3>1, <3>2 DEF Holds
  <2> QED BY <1>1, <1>2, <1>3, <2>1, <2>3, <2>4, <2>7, CardStep DEF Same
<1>7. CASE board.bit # "good"
  <2>1. Raise /\ dev' = e
    BY <1>4, <1>7 DEF HasWindow
  <2>2. Registers' /\ dev'.posted = 0
    BY <1>1, <1>5, <2>1 DEF CardInv, Registers, Posting
  <2> QED BY <1>1, <1>3, <1>5, <2>1, <2>2, RaiseStopped
<1> QED BY <1>6, <1>7

LEMMA ClearInv == ASSUME CardInv, Clear PROVE CardInv'
<1>1. /\ Is("clear") /\ todo # <<>> /\ ~Is("write") /\ Then(<<>>)
      /\ dev' = [dev EXCEPT !.eot = FALSE, !.uart = <<>>]
      /\ UNCHANGED <<board, mem, files, host, uses>>
  BY DEF Clear, Is
<1>2. PICK A, M, B : Turn(A, M, B)
  BY <1>1, TurnOf DEF CardInv
<1>3. "still" \in A.is /\ Same(A, M, {}, {"noeot", "nouart"}) /\ Holds(A)
  BY <1>1, <1>2 DEF Turn, Step, Is, Aim
<1>4. ~dev.run
  BY <1>3 DEF Holds, Fact, OfCore
<1>5. /\ dev' \in Devices /\ ~dev'.run /\ dev'.prog = dev.prog /\ dev'.said = dev.said
      /\ dev'.sel = dev.sel /\ dev'.win = dev.win /\ ~dev'.eot
      /\ dev'.uart = <<>> /\ dev'.posted = dev.posted /\ dev'.own = dev.own
  <2>1. dev \in Devices
    BY DEF CardInv, Typed
  <2>2. <<>> \in Seq(Names \cup {"junk"})
    OBVIOUS
  <2> QED BY <1>1, <1>4, <2>1, <2>2 DEF Devices
<1>6. Registers' /\ MemOK' /\ dev'.posted = 0
  BY <1>1, <1>4, <1>5, CardAssumption DEF CardInv, Registers, Posting, Typed, MemOK
<1>7. (Sane' <=> Sane) /\ (Open' <=> Open)
  BY <1>1, Framed
<1>8. \A f \in M.is : OfCore(f)'
  <2> SUFFICES ASSUME NEW f \in M.is PROVE OfCore(f)'
    OBVIOUS
  <2>1. CASE f \in {"noeot", "nouart", "own", "quiet"}
    BY <1>5, <2>1 DEF OfCore
  <2>2. CASE f \in A.is /\ f \notin {"noeot", "nouart", "own", "quiet"}
    <3>1. OfCore(f)
      BY <1>3, <2>2 DEF Holds, Fact
    <3>2. f = "right" => ~Sane
      BY <1>4, <3>1 DEF OfCore, RunsRight
    <3> QED BY <1>1, <1>5, <1>7, <2>2, <3>1, <3>2 DEF OfCore
  <2> QED BY <1>3, <2>1, <2>2 DEF Same
<1>9. Holds(M)'
  <2>1. \A f \in M.is : Fact(f)'
    BY <1>1, <1>3, <1>8, FactsGo DEF Same, CoreNames
  <2>2. Sane' => \A c \in M.mem : Cell(c)'
    BY <1>1, <1>3, <1>7 DEF Holds, Same, Cell
  <2>3. Open' => \A w \in M.win : dev'.sel /\ dev'.win = w
    BY <1>3, <1>5, <1>7 DEF Holds, Same
  <2> QED BY <1>5, <2>1, <2>2, <2>3 DEF Holds
<1> QED BY <1>1, <1>2, <1>3, <1>5, <1>6, <1>9, CardStep DEF Same
-----------------------------------------------------------------------------
(* The window, and the words written and read through it.                  *)

LEMMA SetWindowInv == ASSUME CardInv, SetWindow PROVE CardInv'
<1>1. /\ Is("window") /\ todo # <<>> /\ ~Is("write")
      /\ UNCHANGED <<board, mem, files, uses>>
  BY DEF SetWindow, Is
<1>2. PICK A, M, B : Turn(A, M, B)
  BY <1>1, TurnOf DEF CardInv
<1>3. WindowRule(A, Top, M) /\ Holds(A) /\ Top \in Calls
  BY <1>1, <1>2 DEF Turn, Step, Is, Aim
<1>4. ~dev.run
  BY <1>3 DEF Holds, Fact, OfCore, WindowRule
<1>5. /\ Then(<<>>) /\ UNCHANGED host
      /\ dev' = IF board.bit = "good"
                THEN [dev EXCEPT !.win = Top.at, !.sel = Top.n = 1] ELSE dev
  BY <1>4 DEF SetWindow
<1>6. /\ dev' \in Devices /\ ~dev'.run /\ dev'.prog = dev.prog /\ dev'.said = dev.said
      /\ dev'.eot = dev.eot
      /\ dev'.uart = dev.uart /\ dev'.posted = dev.posted /\ dev'.own = dev.own
      /\ board.bit = "good" => dev'.win = Top.at /\ (dev'.sel <=> Top.n = 1)
      /\ board.bit # "good" => ~dev'.sel
  <2>1. dev \in Devices /\ Top.at \in Range0("dram") /\ (Top.n = 1) \in BOOLEAN
    BY <1>3 DEF CardInv, Typed, WindowRule
  <2> QED BY <1>4, <1>5, <2>1 DEF Devices, CardInv, Registers
<1>7. Registers' /\ MemOK' /\ dev'.posted = 0
  BY <1>1, <1>4, <1>6 DEF CardInv, Registers, Posting, Typed, MemOK
<1>8. (Sane' <=> Sane) /\ (Open' <=> Open)
  BY <1>1, <1>5, Framed
<1>9. \A f \in M.is : OfCore(f)'
  <2> SUFFICES ASSUME NEW f \in M.is PROVE OfCore(f)'
    OBVIOUS
  <2>1. CASE f \in {"flat", "shut"}
    BY <1>3, <1>6, <2>1 DEF OfCore, WindowRule
  <2>2. CASE f \in A.is /\ f \notin {"flat", "shut"}
    <3>1. OfCore(f)
      BY <1>3, <2>2 DEF Holds, Fact
    <3>2. f = "right" => ~Sane
      BY <1>4, <3>1 DEF OfCore, RunsRight
    <3> QED BY <1>5, <1>6, <1>8, <2>2, <3>1, <3>2 DEF OfCore
  <2> QED BY <1>3, <2>1, <2>2 DEF WindowRule
<1>10. Holds(M)'
  <2>1. \A f \in M.is : Fact(f)'
    <3>1. M.is \subseteq A.is \cup CoreNames
      BY <1>3 DEF WindowRule, CoreNames
    <3> QED BY <1>1, <1>3, <1>5, <1>9, <3>1, FactsGo
  <2>2. Sane' => \A c \in M.mem : Cell(c)'
    BY <1>1, <1>3, <1>8 DEF Holds, WindowRule, Cell
  <2>3. Open' => \A w \in M.win : dev'.sel /\ dev'.win = w
    <3> SUFFICES ASSUME Open, NEW w \in M.win PROVE dev'.sel /\ dev'.win = w
      BY <1>8
    <3>1. Top.n = 1 /\ w = Top.at /\ "good" \in A.is
      BY <1>3 DEF WindowRule
    <3>2. board.bit = "good"
      BY <1>3, <3>1 DEF Holds, Fact, OfBoard
    <3> QED BY <1>6, <3>1, <3>2
  <2> QED BY <1>6, <2>1, <2>2, <2>3 DEF Holds
<1> QED BY <1>1, <1>2, <1>3, <1>5, <1>6, <1>7, <1>10, CardStep DEF WindowRule

LEMMA CallAt ==
  ASSUME NEW x \in Calls, NEW a \in Nat
  PROVE  \A y : y = [x EXCEPT !.at = a] =>
           /\ y \in Calls /\ y.op = x.op /\ y.at = a /\ y.n = x.n
           /\ y.mem = x.mem /\ y.word = x.word
BY DEF Calls

\* write_bytes drains before the card can be full.
DrainCovers == Burst >= 4

LEMMA WriteWordInv == ASSUME DrainCovers, CardInv, WriteWord PROVE CardInv'
<1>1. /\ Is("write") /\ todo # <<>> /\ UNCHANGED <<board, files, host, uses>>
  BY DEF WriteWord, Is
<1>2. PICK A, M, B : Turn(A, M, B)
  BY <1>1, TurnOf DEF CardInv
<1>3. WriteRule(A, Top, M) /\ Holds(A) /\ Top \in Calls /\ Top.op = "write"
      /\ "whole" \in A.is /\ A.live
  BY <1>1, <1>2 DEF Turn, Step, Is, Aim
<1>4. PICK x \in Calls : x = Top
  BY <1>3
<1>5. /\ x.at \in Nat /\ x.n \in Nat /\ x.at < x.n /\ x.n <= Words /\ x.word \in Values
      /\ x.mem \in {"iccm", "dccm"} /\ x.op = "write"
  BY <1>3, <1>4 DEF WriteRule, Calls
<1>6. ~dev.run
  BY <1>3 DEF Holds, Fact, OfCore, WriteRule
<1>7. dev \in Devices /\ dev.posted \in Nat /\ dev.posted <= x.at % 4 /\ dev.posted < Burst
      /\ Burst \in Nat
  BY <1>1, <1>4, <1>5, CardAssumption DEF CardInv, Typed, Posting, Devices, DrainCovers
<1>8. PICK m, a : /\ m = IF x.mem = "dccm" /\ dev.sel THEN "dram" ELSE x.mem
                  /\ a = IF m = "dram" THEN dev.win + x.at ELSE x.at
  OBVIOUS
<1>9. m \in {"iccm", "dccm", "dram"} /\ a \in Nat
  BY <1>5, <1>7, <1>8, Sizes DEF Devices, Range0
<1>10. mem' = IF a \in Range0(m) THEN [mem EXCEPT ![m][a] = x.word] ELSE mem
  BY <1>4, <1>6, <1>7, <1>8 DEF WriteWord
<1>11. \A k \in {"iccm", "dccm", "dram"} :
         /\ mem'[k] \in [Range0(k) -> Values]
         /\ \A b \in Range0(k) :
              mem'[k][b] = IF k = m /\ b = a THEN x.word ELSE mem[k][b]
  BY <1>5, <1>9, <1>10 DEF CardInv, Typed, MemOK
<1>12. MemOK'
  <2>1. mem' = [k \in {"iccm", "dccm", "dram"} |-> mem'[k]]
    BY <1>9, <1>10 DEF CardInv, Typed, MemOK
  <2> QED BY <1>11, <2>1 DEF MemOK
<1>13. Then(IF x.at + 1 < x.n THEN <<[x EXCEPT !.at = x.at + 1]>> ELSE <<>>)
  BY <1>4 DEF WriteWord
<1>14. dev' = [dev EXCEPT !.posted = IF Drained(x.at + 1, x.n) THEN 0 ELSE @ + 1]
  BY <1>4 DEF WriteWord
<1>15. /\ dev' \in Devices /\ ~dev'.run /\ dev'.prog = dev.prog /\ dev'.said = dev.said
       /\ dev'.sel = dev.sel /\ dev'.win = dev.win /\ dev'.eot = dev.eot
       /\ dev'.uart = dev.uart /\ dev'.own = dev.own
       /\ dev'.posted = IF Drained(x.at + 1, x.n) THEN 0 ELSE dev.posted + 1
  <2>1. PICK v \in Nat : v = IF Drained(x.at + 1, x.n) THEN 0 ELSE dev.posted + 1
    BY <1>7
  <2>2. dev' = [dev EXCEPT !.posted = v]
    BY <1>14, <2>1
  <2> QED BY <1>6, <1>7, <2>1, <2>2 DEF Devices
<1>16. Registers'
  BY <1>1, <1>6, <1>15 DEF CardInv, Registers
<1>17. (Sane' <=> Sane) /\ (Open' <=> Open) /\ Aim' = Aim
  BY <1>1, Framed
<1>18. Rest'
  <2>1. UNCHANGED <<board, files, host>>
    BY <1>1
  <2>2. Rest => Rest'
    BY <2>1, Framed
  <2> QED BY <2>2 DEF CardInv
\* Where the word belongs, and the assertion after it.
<1>19. PICK k, off : /\ k \in {"iccm", "dccm", "dram"} /\ off \in Nat
                     /\ off + x.n <= Size[k]
                     /\ Sane => m = k /\ a = off + x.at
                     /\ M.mem \subseteq Wrote(A.mem, k, off + x.at, off + x.n - 1, x.word)
                     /\ \/ k = x.mem /\ off = 0 /\ (x.mem = "iccm" \/ "flat" \in A.is)
                        \/ k = "dram" /\ x.mem = "dccm" /\ off \in A.win
  <2>1. CASE /\ x.mem = "iccm" \/ "flat" \in A.is
             /\ M.mem \subseteq Wrote(A.mem, x.mem, x.at, x.n - 1, x.word)
    <3>1. Sane => m = x.mem /\ a = x.at
      <4> HAVE Sane
      <4>1. host.tool = "runner" => ~host.mapped
        BY DEF Sane, Open
      <4>2. x.mem = "dccm" => ~dev.sel
        BY <1>3, <2>1, <4>1 DEF Holds, Fact, OfCore
      <4> QED BY <1>5, <1>8, <4>2
    <3>2. 0 + x.n <= Size[x.mem] /\ 0 + x.at = x.at /\ 0 + x.n - 1 = x.n - 1
      BY <1>5, Sizes
    <3>3. x.mem \in {"iccm", "dccm", "dram"} /\ 0 \in Nat
      BY <1>5
    <3> QED BY <2>1, <3>1, <3>2, <3>3
  <2>2. ASSUME NEW w \in A.win, x.mem = "dccm", w \in Nat, w + x.n <= Size.dram,
               M.mem \subseteq Wrote(A.mem, "dram", w + x.at, w + x.n - 1, x.word)
        PROVE  /\ w \in Nat /\ w + x.n <= Size["dram"]
               /\ Sane => m = "dram" /\ a = w + x.at
    <3>1. Sane => dev.sel /\ dev.win = w
      BY <1>3, <2>2 DEF Holds, Sane
    <3> QED BY <1>8, <2>2, <3>1
  <2> QED BY <1>3, <1>4, <2>1, <2>2 DEF WriteRule
<1>20. PICK P : P = Assert(A.is, Wrote(A.mem, k, off + x.at, off + x.at, x.word), A.win)
  OBVIOUS
<1>21. /\ P.live /\ P.is = A.is /\ P.win = A.win
       /\ P.mem = Wrote(A.mem, k, off + x.at, off + x.at, x.word)
  BY <1>20 DEF Assert
<1>22. Holds(P)'
  <2>1. \A f \in A.is : OfCore(f)'
    <3> SUFFICES ASSUME NEW f \in A.is PROVE OfCore(f)'
      OBVIOUS
    <3>1. OfCore(f)
      BY <1>3 DEF Holds, Fact
    <3>2. f = "right" => ~Sane
      BY <1>6, <3>1 DEF OfCore, RunsRight
    <3> QED BY <1>1, <1>6, <1>15, <1>17, <3>1, <3>2 DEF OfCore
  <2>2. \A f \in P.is : Fact(f)'
    BY <1>1, <1>3, <1>21, <2>1, FactsGo
  <2>3. ASSUME Sane, NEW c \in P.mem PROVE Cell(c)'
    <3>1. CASE c \in A.mem /\ ~(c[1] = k /\ c[2] \in (off + x.at)..(off + x.at))
      <4>1. Cell(c)
        BY <1>3, <2>3, <3>1 DEF Holds
      <4>2. ~(c[1] = m /\ c[2] = a)
        BY <1>5, <1>19, <2>3, <3>1
      <4> QED BY <1>11, <4>1, <4>2 DEF Cell
    <3>2. CASE c \in Part(k, (off + x.at)..(off + x.at), x.word)
      <4>1. c = <<k, off + x.at, x.word>>
        BY <1>5, <1>19, <3>2 DEF Part
      <4>2. off + x.at \in Range0(k)
        BY <1>5, <1>19, Sizes DEF Range0
      <4>3. c = <<m, a, x.word>> /\ a \in Range0(m)
        BY <1>19, <2>3, <4>1, <4>2
      <4> QED BY <1>9, <1>11, <4>3 DEF Cell
    <3> QED BY <1>21, <2>3, <3>1, <3>2 DEF Wrote
  <2>4. Open' => \A w \in P.win : dev'.sel /\ dev'.win = w
    BY <1>3, <1>15, <1>17, <1>21 DEF Holds
  <2> QED BY <1>15, <1>17, <1>21, <2>2, <2>3, <2>4 DEF Holds
<1>23. CASE x.at + 1 < x.n
  <2>1. PICK y : y = [x EXCEPT !.at = x.at + 1]
    OBVIOUS
  <2>2. /\ y \in Calls /\ y.op = "write" /\ y.at = x.at + 1 /\ y.n = x.n
        /\ y.mem = x.mem /\ y.word = x.word
    BY <1>5, <2>1, CallAt
  <2>3. Then(<<y>>)
    BY <1>13, <1>23, <2>1
  <2>4. M.mem \subseteq Wrote(P.mem, k, off + y.at, off + y.n - 1, y.word)
    <3> SUFFICES ASSUME NEW c \in M.mem
        PROVE  c \in Wrote(P.mem, k, off + y.at, off + y.n - 1, y.word)
      OBVIOUS
    <3>1. CASE c \in A.mem /\ ~(c[1] = k /\ c[2] \in (off + x.at)..(off + x.n - 1))
      <4>1. c \in P.mem
        BY <1>5, <1>19, <1>21, <3>1 DEF Wrote
      <4>2. ~(c[1] = k /\ c[2] \in (off + y.at)..(off + y.n - 1))
        BY <1>5, <1>19, <2>2, <3>1
      <4> QED BY <4>1, <4>2 DEF Wrote
    <3>2. CASE c \in Part(k, (off + x.at)..(off + x.n - 1), x.word)
      <4>1. PICK b \in (off + x.at)..(off + x.n - 1) : c = <<k, b, x.word>>
        BY <3>2 DEF Part
      <4>2. CASE b = off + x.at
        <5>1. c \in P.mem
          BY <1>5, <1>19, <1>21, <4>1, <4>2 DEF Wrote, Part
        <5>2. ~(c[2] \in (off + y.at)..(off + y.n - 1))
          BY <1>5, <1>19, <2>2, <4>1, <4>2
        <5> QED BY <5>1, <5>2 DEF Wrote
      <4>3. CASE b # off + x.at
        <5>1. b \in (off + y.at)..(off + y.n - 1)
          BY <1>5, <1>19, <2>2, <4>1, <4>3
        <5> QED BY <2>2, <4>1, <5>1 DEF Wrote, Part
      <4> QED BY <4>2, <4>3
    <3> QED BY <1>19, <3>1, <3>2 DEF Wrote
  <2>5. WriteRule(P, y, M)
    <3>1. /\ "still" \in P.is /\ M.is \subseteq P.is /\ M.win \subseteq P.win /\ M.live
          /\ y.at < y.n /\ y.mem \in {"iccm", "dccm"} /\ y.n <= Words
      BY <1>3, <1>5, <1>21, <1>23, <2>2 DEF WriteRule
    <3>2. CASE k = x.mem /\ off = 0 /\ (x.mem = "iccm" \/ "flat" \in A.is)
      <4>1. 0 + y.at = y.at /\ 0 + y.n - 1 = y.n - 1
        BY <1>5, <2>2
      <4> QED BY <1>21, <2>2, <2>4, <3>1, <3>2, <4>1 DEF WriteRule
    <3>3. CASE k = "dram" /\ x.mem = "dccm" /\ off \in A.win
      <4>1. off \in P.win /\ off \in Nat /\ off + y.n <= Size.dram /\ y.mem = "dccm"
        BY <1>19, <1>21, <2>2, <3>3
      <4> QED BY <2>4, <3>1, <3>3, <4>1 DEF WriteRule
    <3> QED BY <1>19, <3>2, <3>3
  <2>6. Step(Aim, P, y, M)
    BY <1>3, <1>21, <2>2, <2>5 DEF Step
  <2>7. Triple(Aim, P, <<y>>, M)
    BY <2>2, <2>6, TripleOne
  <2>8. Going'
    BY <1>1, <1>2, <1>17, <1>21, <1>22, <2>3, <2>7, GoOn
  <2>9. Typed'
    <3>1. <<y>> \in Seq(Calls) /\ todo \in Seq(Calls)
      BY <2>2 DEF CardInv, Typed
    <3>2. todo' \in Seq(Calls)
      BY <1>1, <2>3, <3>1, ThenTyped
    <3> QED BY <1>1, <1>12, <1>15, <3>2 DEF CardInv, Typed
  <2>10. Posting'
    <3>1. todo' = <<y>> \o Tail(todo) /\ Tail(todo) \in Seq(Calls)
      BY <1>2, <2>3 DEF Then, Turn
    <3>2. todo'[1] = y /\ todo' # <<>>
      BY <2>2, <3>1
    <3>3. dev'.posted <= y.at % 4
      <4>1. CASE Drained(x.at + 1, x.n)
        BY <1>5, <1>15, <2>2, <4>1
      <4>2. CASE ~Drained(x.at + 1, x.n)
        <5>1. (x.at + 1) % 4 # 0
          BY <4>2 DEF Drained
        <5>2. (x.at + 1) % 4 = (x.at % 4) + 1
          BY <1>5, <5>1
        <5>3. dev'.posted = dev.posted + 1 /\ y.at % 4 = (x.at % 4) + 1
          BY <1>15, <2>2, <4>2, <5>2
        <5>4. x.at % 4 \in Int /\ dev.posted <= x.at % 4 /\ dev.posted \in Nat
          BY <1>5, <1>7
        <5> HIDE DEF Drained
        <5> QED BY <5>3, <5>4
      <4> QED BY <4>1, <4>2
    <3> QED BY <2>2, <3>2, <3>3 DEF Posting, Is, Top
  <2> QED BY <1>16, <1>18, <2>8, <2>9, <2>10 DEF CardInv
<1>24. CASE ~(x.at + 1 < x.n)
  <2>1. x.at + 1 = x.n
    BY <1>5, <1>24
  <2>2. Then(<<>>) /\ dev'.posted = 0
    BY <1>13, <1>15, <1>24, <2>1 DEF Drained
  <2>3. M.mem \subseteq P.mem
    <3>1. off + x.n - 1 = off + x.at
      BY <1>5, <1>19, <2>1
    <3> QED BY <1>19, <1>21, <3>1
  <2>4. \A X : Holds(P)' /\ M.is \subseteq P.is /\ M.mem \subseteq P.mem
           /\ M.win \subseteq P.win => Holds(M)'
    BY DEF Holds
  <2>5. Holds(M)' /\ M.live
    BY <1>3, <1>21, <1>22, <2>3, <2>4 DEF WriteRule
  <2> QED BY <1>1, <1>2, <1>12, <1>15, <1>16, <2>2, <2>5, CardStep
<1> QED BY <1>23, <1>24
-----------------------------------------------------------------------------
(* The calls that tell the tool something.                                 *)

\* What does not depend on what the tool has seen so far.
LEMMA HostFrame ==
  ASSUME UNCHANGED <<board, files>>,
         host'.tool = host.tool, host'.want = host.want, host'.image = host.image,
         host'.input = host.input, host'.limit = host.limit, host'.dir = host.dir,
         host'.mapped = host.mapped
  PROVE  /\ (Sane' <=> Sane) /\ (Open' <=> Open) /\ Aim' = Aim /\ Answer' = Answer
         /\ \A f : /\ OfFiles(f) => OfFiles(f)'
                   /\ OfBoard(f) => OfBoard(f)'
         /\ UNCHANGED <<dev, mem>> => (RunsRight' <=> RunsRight)
<1>1. (Sane' <=> Sane) /\ (Open' <=> Open)
  BY DEF Sane, Open
<1>2. Aim' = Aim /\ Answer' = Answer
  BY <1>1 DEF Aim, Needed, Need, Means, Answer
<1>3. \A f : OfFiles(f) => OfFiles(f)'
  BY DEF OfFiles, Whole, Dir
<1>4. \A f : OfBoard(f) => OfBoard(f)'
  BY <1>1 DEF OfBoard, Answers
<1>5. UNCHANGED <<dev, mem>> => (RunsRight' <=> RunsRight)
  BY DEF RunsRight, Means, Answer, Bytes
<1> QED BY <1>1, <1>2, <1>3, <1>4, <1>5

LEMMA TestsFrame ==
  ASSUME Sane' <=> Sane, host'.tool = host.tool, host'.image = host.image,
         host'.tests = host.tests, host'.results = host.results, host'.uart = host.uart
  PROVE  \A f : OfTests(f) => OfTests(f)'
BY DEF OfTests, Judged, Bytes

LEMMA ToolStep ==
  ASSUME CardInv, UNCHANGED <<files, uses>>, Aim' = Aim, board' \in Boards,
         NEW A, NEW M, NEW B, Turn(A, M, B), M.live, Holds(M)', Then(<<>>),
         host' \in Hosts, host'.code = host.code, Rest',
         dev' \in Devices, MemOK', Registers', dev'.posted = 0
  PROVE  CardInv'
<1>1. Going'
  BY GoNext
<1>2. Typed'
  <2>1. todo' \in Seq(Calls)
    <3>1. <<>> \in Seq(Calls) /\ todo # <<>> /\ todo \in Seq(Calls)
      BY DEF Turn
    <3> QED BY <3>1, ThenTyped
  <2> QED BY <2>1 DEF CardInv, Typed
<1>3. Posting'
  BY <1>2, NotPosting
<1> QED BY <1>1, <1>2, <1>3 DEF CardInv

\* A tool as it was, but for some fields.
But(h, h2, S) ==
  /\ h2 \in Hosts
  /\ ("code" \notin S => h2.code = h.code) /\ ("tool" \notin S => h2.tool = h.tool)
  /\ ("want" \notin S => h2.want = h.want) /\ ("image" \notin S => h2.image = h.image)
  /\ ("input" \notin S => h2.input = h.input) /\ ("limit" \notin S => h2.limit = h.limit)
  /\ ("dir" \notin S => h2.dir = h.dir) /\ ("tests" \notin S => h2.tests = h.tests)
  /\ ("results" \notin S => h2.results = h.results) /\ ("got" \notin S => h2.got = h.got)
  /\ ("uart" \notin S => h2.uart = h.uart) /\ ("started" \notin S => h2.started = h.started)
  /\ ("mapped" \notin S => h2.mapped = h.mapped) /\ ("ours" \notin S => h2.ours = h.ours)

LEMMA HostBut ==
  ASSUME NEW h \in Hosts
  PROVE  /\ \A g \in Seq(Values) : \A h2 : h2 = [h EXCEPT !.got = g] =>
                But(h, h2, {"got"}) /\ h2.got = g
         /\ \A o \in BOOLEAN : \A h2 : h2 = [h EXCEPT !.ours = o] =>
                But(h, h2, {"ours"}) /\ h2.ours = o
         /\ \A u \in Seq(Names \cup {"junk"}) : \A h2 : h2 = [h EXCEPT !.uart = u] =>
                But(h, h2, {"uart"}) /\ h2.uart = u
         /\ \A b \in BOOLEAN : \A h2 : h2 = [h EXCEPT !.mapped = b] =>
                But(h, h2, {"mapped"}) /\ h2.mapped = b
         /\ \A r \in Verdicts : \A h2 : h2 = [h EXCEPT !.results = r] =>
                But(h, h2, {"results"}) /\ h2.results = r
         /\ \A i \in Names \cup {"none"} : \A h2 : h2 = [h EXCEPT !.image = i] =>
                But(h, h2, {"image"}) /\ h2.image = i
         /\ \A n \in Nat : \A h2 : h2 = [h EXCEPT !.limit = n] =>
                But(h, h2, {"limit"}) /\ h2.limit = n
         /\ \A c \in 0..2 : \A h2 : h2 = [h EXCEPT !.code = c] =>
                But(h, h2, {"code"}) /\ h2.code = c
         /\ \A b \in BOOLEAN : \A h2 : h2 = [h EXCEPT !.started = b] =>
                But(h, h2, {"started"}) /\ h2.started = b
<1>1. \A g \in Seq(Values) : \A h2 : h2 = [h EXCEPT !.got = g] =>
           But(h, h2, {"got"}) /\ h2.got = g
  BY DEF But, Hosts
<1>2. \A o \in BOOLEAN : \A h2 : h2 = [h EXCEPT !.ours = o] =>
           But(h, h2, {"ours"}) /\ h2.ours = o
  BY DEF But, Hosts
<1>3. \A u \in Seq(Names \cup {"junk"}) : \A h2 : h2 = [h EXCEPT !.uart = u] =>
           But(h, h2, {"uart"}) /\ h2.uart = u
  BY DEF But, Hosts
<1>4. \A b \in BOOLEAN : \A h2 : h2 = [h EXCEPT !.mapped = b] =>
           But(h, h2, {"mapped"}) /\ h2.mapped = b
  BY DEF But, Hosts
<1>5. \A r \in Verdicts : \A h2 : h2 = [h EXCEPT !.results = r] =>
           But(h, h2, {"results"}) /\ h2.results = r
  BY DEF But, Hosts
<1>6. \A i \in Names \cup {"none"} : \A h2 : h2 = [h EXCEPT !.image = i] =>
           But(h, h2, {"image"}) /\ h2.image = i
  BY DEF But, Hosts
<1>7. \A n \in Nat : \A h2 : h2 = [h EXCEPT !.limit = n] =>
           But(h, h2, {"limit"}) /\ h2.limit = n
  BY DEF But, Hosts
<1>8. \A c \in 0..2 : \A h2 : h2 = [h EXCEPT !.code = c] =>
           But(h, h2, {"code"}) /\ h2.code = c
  BY DEF But, Hosts
<1>9. \A b \in BOOLEAN : \A h2 : h2 = [h EXCEPT !.started = b] =>
           But(h, h2, {"started"}) /\ h2.started = b
  BY DEF But, Hosts
<1> QED BY <1>1, <1>2, <1>3, <1>4, <1>5, <1>6, <1>7, <1>8, <1>9

LEMMA HostDir ==
  ASSUME NEW h \in Hosts, NEW d \in {"main", "bb"}, NEW w \in Names \cup {"none"}
  PROVE  \A h2 : h2 = [h EXCEPT !.dir = d, !.want = w] =>
           But(h, h2, {"dir", "want"}) /\ h2.dir = d /\ h2.want = w
BY DEF But, Hosts

LEMMA AppendPair ==
  ASSUME NEW a, NEW b
  PROVE  Append(<<a>>, b) = <<a, b>>
<1>1. <<a>> \in Seq({a, b}) /\ <<a, b>> \in Seq({a, b})
  OBVIOUS
<1>2. /\ Append(<<a>>, b) \in Seq({a, b}) /\ Len(Append(<<a>>, b)) = 2
      /\ Append(<<a>>, b)[1] = a /\ Append(<<a>>, b)[2] = b
  BY <1>1, AppendProperties
<1>3. \A k \in 1..2 : Append(<<a>>, b)[k] = <<a, b>>[k]
  BY <1>2
<1> QED BY <1>1, <1>2, <1>3, SeqEqual

LEMMA ReadWordInv == ASSUME CardInv, ReadWord PROVE CardInv'
<1>1. /\ Is("read") /\ todo # <<>> /\ ~Is("write") /\ Then(<<>>)
      /\ UNCHANGED <<board, dev, mem, files, uses>>
  BY DEF ReadWord, Is
<1>2. PICK A, M, B : Turn(A, M, B)
  BY <1>1, TurnOf DEF CardInv
<1>3. ReadRule(host.tool, Answer, A, M) /\ Holds(A)
  BY <1>1, <1>2 DEF Turn, Step, Is, Aim
<1>4. PICK off \in A.win :
        /\ off \in Nat /\ off + 1 \in Range0("dram")
        /\ \/ /\ "unread" \in A.is /\ <<"dram", off, Answer>> \in A.mem
              /\ M.is \subseteq (A.is \ {"unread"}) \cup {"read1"}
           \/ /\ "read1" \in A.is /\ <<"dram", off + 1, Answer>> \in A.mem
              /\ M.is \subseteq (A.is \ {"read1"}) \cup {"read2"}
  BY <1>3 DEF ReadRule
<1>5. host.tool = "detect" /\ Open /\ dev.sel /\ dev.win = off
  BY <1>3, <1>4 DEF ReadRule, Holds, Open
<1>6. host \in Hosts /\ host.got \in Seq(Values)
  BY DEF CardInv, Typed, Hosts
<1>7. Len(host.got) \in 0..1
  BY <1>3, <1>4 DEF Holds, Fact, OfRead
<1>8. PICK v : v = mem.dram[off + Len(host.got)]
  OBVIOUS
<1>9. v \in Values
  <2>1. off + Len(host.got) \in Range0("dram")
    <3>1. off \in Nat /\ off + 1 \in Range0("dram") /\ Size["dram"] \in Nat
      BY <1>4, Sizes
    <3>2. PICK n \in 0..1 : n = Len(host.got)
      BY <1>7
    <3>3. off + n \in Range0("dram")
      BY <3>1 DEF Range0
    <3> QED BY <3>2, <3>3
  <2> QED BY <1>8, <2>1 DEF CardInv, Typed, MemOK
<1>10. PICK g \in Seq(Values) : g = Append(host.got, v) /\ Len(g) = Len(host.got) + 1
  <2>1. Append(host.got, v) \in Seq(Values) /\ Len(Append(host.got, v)) = Len(host.got) + 1
    BY <1>6, <1>9, AppendProperties
  <2> QED BY <2>1
<1>11. host' = [host EXCEPT !.got = g]
  BY <1>5, <1>8, <1>10 DEF ReadWord
<1>12. But(host, host', {"got"}) /\ host'.got = g
  BY <1>6, <1>11, HostBut
<1>13. /\ (Sane' <=> Sane) /\ (Open' <=> Open) /\ Aim' = Aim /\ Answer' = Answer
       /\ \A f : /\ OfFiles(f) => OfFiles(f)'
                 /\ OfBoard(f) => OfBoard(f)'
       /\ (RunsRight' <=> RunsRight)
  <2>1. UNCHANGED <<board, files>> /\ UNCHANGED <<dev, mem>>
    BY <1>1
  <2> QED BY <1>12, <2>1, HostFrame DEF But
<1>14. \A f \in M.is : Fact(f)'
  <2> SUFFICES ASSUME NEW f \in M.is PROVE Fact(f)'
    OBVIOUS
  <2>1. CASE f \in A.is /\ f \notin {"unread", "read1", "read2"}
    <3>1. Fact(f)
      BY <1>3, <2>1 DEF Holds
    <3>2. OfCore(f)'
      BY <1>1, <1>12, <1>13, <3>1 DEF Fact, OfCore, But
    <3>3. OfTests(f)'
      BY <1>12, <1>13, <3>1 DEF Fact, OfTests, But, Judged, Bytes
    <3>4. OfRead(f)'
      BY <2>1 DEF OfRead
    <3> QED BY <1>13, <3>1, <3>2, <3>3, <3>4 DEF Fact
  <2>2. CASE f \in {"unread", "read1", "read2"}
    <3>1. OfRead(f)'
      <4>1. CASE /\ "unread" \in A.is /\ <<"dram", off, Answer>> \in A.mem
                 /\ M.is \subseteq (A.is \ {"unread"}) \cup {"read1"}
        <5>1. host.got = <<>>
          BY <1>3, <4>1 DEF Holds, Fact, OfRead
        <5>2. f = "read1"
          <6>1. ~Fact("read1") /\ ~Fact("read2")
            BY <5>1 DEF Fact, OfRead
          <6> QED BY <1>3, <2>2, <4>1, <6>1 DEF Holds
        <5>3. Sane => v = Answer
          <6>1. Sane => Cell(<<"dram", off, Answer>>)
            BY <1>3, <4>1 DEF Holds
          <6> QED BY <1>4, <1>8, <5>1, <6>1 DEF Cell
        <5>4. g = <<v>>
          BY <1>10, <5>1
        <5> QED BY <1>12, <1>13, <5>2, <5>3, <5>4 DEF OfRead
      <4>2. CASE /\ "read1" \in A.is /\ <<"dram", off + 1, Answer>> \in A.mem
                 /\ M.is \subseteq (A.is \ {"read1"}) \cup {"read2"}
        <5>1. Len(host.got) = 1 /\ (Sane => host.got = <<Answer>>)
          BY <1>3, <4>2 DEF Holds, Fact, OfRead
        <5>2. f = "read2"
          <6>1. ~Fact("unread")
            <7>1. host.got # <<>>
              <8>1. Len(host.got) = 1
                BY <5>1
              <8> QED BY <8>1
            <7> QED BY <7>1 DEF Fact, OfRead
          <6> QED BY <1>3, <2>2, <4>2, <6>1 DEF Holds
        <5>3. Sane => v = Answer
          <6>1. Sane => Cell(<<"dram", off + 1, Answer>>)
            BY <1>3, <4>2 DEF Holds
          <6> QED BY <1>4, <1>8, <5>1, <6>1 DEF Cell
        <5>4. Sane => g = <<Answer, Answer>>
          <6>1. Append(<<Answer>>, Answer) = <<Answer, Answer>>
            BY AppendPair
          <6> QED BY <1>10, <5>1, <5>3, <6>1
        <5> QED BY <1>10, <1>12, <1>13, <5>1, <5>2, <5>4 DEF OfRead
      <4> QED BY <1>4, <4>1, <4>2
    <3> QED BY <2>2, <3>1 DEF Fact, OfCore, OfTests, OfFiles, OfBoard
  <2> QED BY <1>4, <2>1, <2>2
<1>15. Holds(M)'
  <2>1. Sane' => \A c \in M.mem : Cell(c)'
    BY <1>1, <1>3, <1>13 DEF Holds, ReadRule, Cell
  <2>2. M.is \cap {"noeot", "nouart"} \subseteq A.is \cap {"noeot", "nouart"}
    BY <1>4
  <2> QED BY <1>1, <1>3, <1>13, <1>14, <2>1, <2>2 DEF Holds, ReadRule
<1>16. Rest'
  <2>1. /\ host'.tool = "detect" /\ host'.want = host.want /\ host'.dir = host.dir
        /\ host'.ours = host.ours /\ Len(host'.got) <= 2
    BY <1>5, <1>7, <1>10, <1>12 DEF But
  <2>2. \A d : Whole(d) => Whole(d)'
    BY <1>1 DEF Whole
  <2> QED BY <1>1, <1>5, <2>1, <2>2 DEF CardInv, Rest, UartOurs
<1>17. Registers' /\ dev' \in Devices /\ MemOK' /\ dev'.posted = 0 /\ board' \in Boards
  BY <1>1 DEF CardInv, Registers, Posting, Typed, MemOK
<1>18. host' \in Hosts /\ host'.code = host.code /\ M.live
  BY <1>3, <1>12 DEF But, ReadRule
<1> QED BY <1>1, <1>2, <1>13, <1>15, <1>16, <1>17, <1>18, ToolStep
-----------------------------------------------------------------------------
(* The run.                                                                *)

LEMMA SomeWord == \A i, n : Word(i, n).of = i /\ Word(i, n).v = n
BY DEF Word

\* With all that the tool needs in memory, the core runs what the tool means.
LEMMA RightImage ==
  ASSUME CardInv, Sane, \A c \in Need(host) : Cell(c),
         host.tool \in {"detect", "chunks", "runner", "smoke"}
  PROVE  /\ Means(host) \in Names /\ Loaded(Means(host))
         /\ \A j \in Names : Loaded(j) => j = Means(host)
         /\ host.tool = "detect" =>
              /\ mem.dram[InputAt] = Word("input", host.input)
              /\ mem.dccm[LimitAt].v = 0
         /\ host.tool = "chunks" => mem.dccm[LimitAt].v = host.limit
<1> DEFINE i == Means(host)
           n == IF host.tool = "chunks" THEN host.limit ELSE 0
<1>1. i \in Names /\ (host.tool \in {"detect", "chunks"} => UsesData(i))
  BY CardAssumption DEF CardInv, Typed, Hosts, Rest, Means, Sane, Open, UsesData
<1>2. \A c \in CodeOf(i) : Cell(c)
  BY DEF Need
<1>3. UsesData(i) => \A c \in DataOf(i, n) : Cell(c)
  BY DEF Need
<1>4. Images[i].dram => \A c \in WeightsOf(i) : Cell(c)
  BY DEF Need
<1>5. host.tool = "detect" => \A c \in PictureOf(host.input) : Cell(c)
  BY DEF Need
<1> HIDE DEF i, n
<1>6. Code(i)
  <2> SUFFICES ASSUME NEW a \in Range0("iccm") PROVE mem.iccm[a] = Word(i, 0)
    BY DEF Code
  <2>1. <<"iccm", a, Word(i, 0)>> \in CodeOf(i)
    BY DEF CodeOf, Part
  <2> QED BY <1>2, <2>1 DEF Cell
<1>7. UsesData(i) => Data(i) /\ mem.dccm[LimitAt] = Word(i, n)
  <2> HAVE UsesData(i)
  <2>1. ASSUME NEW a \in Range0("dccm") \ {LimitAt} PROVE mem.dccm[a] = Word(i, 0)
    <3>1. <<"dccm", a, Word(i, 0)>> \in DataOf(i, n)
      BY DEF DataOf, Part
    <3> QED BY <1>3, <3>1 DEF Cell
  <2>2. <<"dccm", LimitAt, Word(i, n)>> \in DataOf(i, n)
    BY DEF DataOf, Part
  <2>3. mem.dccm[LimitAt] = Word(i, n)
    BY <1>3, <2>2 DEF Cell
  <2> QED BY <2>1, <2>3 DEF Data
<1>8. Images[i].dram => Weights(i)
  <2> HAVE Images[i].dram
  <2> SUFFICES ASSUME NEW a \in Range0("dram") \ (ResultAt \cup {InputAt})
      PROVE  mem.dram[a] = Word(i, 0)
    BY DEF Weights
  <2>1. <<"dram", a, Word(i, 0)>> \in WeightsOf(i)
    BY DEF WeightsOf, Part
  <2> QED BY <1>4, <2>1 DEF Cell
<1>9. Loaded(i)
  BY <1>6, <1>7, <1>8, SomeWord DEF Loaded
<1>10. ASSUME NEW j \in Names, Loaded(j) PROVE j = i
  <2>1. 0 \in Range0("iccm")
    BY Sizes DEF Range0
  <2>2. mem.iccm[0] = Word(i, 0) /\ mem.iccm[0] = Word(j, 0)
    BY <1>6, <1>10, <2>1 DEF Code, Loaded
  <2> QED BY <2>2, SomeWord
<1>11. host.tool = "detect" => mem.dram[InputAt] = Word("input", host.input)
  <2>1. <<"dram", InputAt, Word("input", host.input)>> \in PictureOf(host.input)
    BY DEF PictureOf, Part
  <2> QED BY <1>5, <2>1 DEF Cell
<1>12. host.tool \in {"detect", "chunks"} => mem.dccm[LimitAt].v = n
  BY <1>1, <1>7, SomeWord
<1> QED BY <1>1, <1>9, <1>10, <1>11, <1>12 DEF i, n

LEMMA RunCoreInv == ASSUME CardInv, RunCore PROVE CardInv'
<1>1. /\ Is("run") /\ todo # <<>> /\ ~Is("write") /\ Then(<<>>)
      /\ host' = [host EXCEPT !.started = TRUE]
      /\ UNCHANGED <<board, mem, files, uses>>
  BY DEF RunCore, Is
<1>2. PICK A, M, B : Turn(A, M, B)
  BY <1>1, TurnOf DEF CardInv
<1>3. RunRule(host.tool, Needed, A, M) /\ Holds(A)
  BY <1>1, <1>2 DEF Turn, Step, Is, Aim
<1>4. ~dev.run /\ ~dev.eot /\ dev.uart = <<>> /\ dev.said = 0 /\ dev.posted = 0
  <2>1. Fact("still") /\ Fact("noeot") /\ Fact("nouart")
    BY <1>3 DEF RunRule, Holds
  <2> QED BY <1>1, <2>1 DEF Fact, OfCore, CardInv, Registers, Posting
<1>5. PICK i : i = IF \E j \in Names : Loaded(j) THEN CHOOSE j \in Names : Loaded(j)
                   ELSE "junk"
  OBVIOUS
<1>6. PICK l, p : /\ l = IF i = "junk" THEN 0 ELSE mem.dccm[LimitAt].v
                  /\ p = IF mem.dram[InputAt].of = "input" THEN mem.dram[InputAt].v ELSE 0
  OBVIOUS
<1>7. i \in Names \cup {"junk"} /\ l \in Nat /\ p \in Nat
  <2>1. mem.dccm[LimitAt] \in Values /\ mem.dram[InputAt] \in Values
    BY ResultInDram DEF CardInv, Typed, MemOK
  <2> QED BY <1>5, <1>6, <2>1 DEF Values
<1>8. /\ dev' \in Devices /\ dev'.run /\ dev'.prog = i /\ ~dev'.own /\ dev'.limit = l
      /\ dev'.input = p /\ dev'.sel = dev.sel /\ dev'.win = dev.win /\ ~dev'.eot
      /\ dev'.uart = <<>> /\ dev'.posted = 0 /\ dev'.said = 0
  <2>1. dev \in Devices
    BY DEF CardInv, Typed
  <2>2. dev' = [dev EXCEPT !.run = TRUE, !.prog = i, !.own = FALSE, !.limit = l, !.input = p]
    BY <1>5, <1>6 DEF RunCore
  <2>3. PICK g : g = [dev EXCEPT !.run = TRUE, !.prog = i, !.own = FALSE]
    OBVIOUS
  <2>4. /\ g \in Devices /\ g.run /\ g.prog = i /\ ~g.own
        /\ g.sel = dev.sel /\ g.win = dev.win /\ g.eot = dev.eot /\ g.uart = dev.uart
        /\ g.posted = dev.posted /\ g.said = dev.said
    BY <1>7, <2>1, <2>3 DEF Devices
  <2>5. dev' = [g EXCEPT !.limit = l, !.input = p]
    BY <2>2, <2>3
  <2>6. /\ dev' \in Devices /\ dev'.run = g.run /\ dev'.prog = g.prog /\ dev'.own = g.own
        /\ dev'.limit = l /\ dev'.input = p /\ dev'.sel = g.sel /\ dev'.win = g.win
        /\ dev'.eot = g.eot /\ dev'.uart = g.uart /\ dev'.posted = g.posted
        /\ dev'.said = g.said
    BY <1>7, <2>4, <2>5 DEF Devices
  <2> QED BY <1>4, <2>4, <2>6
<1>9. But(host, host', {"started"}) /\ host'.started
  <2>1. host \in Hosts /\ TRUE \in BOOLEAN
    BY DEF CardInv, Typed
  <2> QED BY <1>1, <2>1, HostBut
<1>10. /\ (Sane' <=> Sane) /\ (Open' <=> Open) /\ Aim' = Aim /\ Answer' = Answer
       /\ \A f : /\ OfFiles(f) => OfFiles(f)'
                 /\ OfBoard(f) => OfBoard(f)'
  <2>1. UNCHANGED <<board, files>>
    BY <1>1
  <2> QED BY <1>9, <2>1, HostFrame DEF But
<1>11. Sane => RunsRight'
  <2> HAVE Sane
  <2>1. \A c \in Need(host) : Cell(c)
    BY <1>3 DEF RunRule, Holds, Needed
  <2>2. host.tool \in {"detect", "chunks", "runner", "smoke"}
    BY <1>3 DEF RunRule
  <2>3. /\ Means(host) \in Names /\ Loaded(Means(host))
        /\ \A j \in Names : Loaded(j) => j = Means(host)
        /\ host.tool = "detect" =>
             /\ mem.dram[InputAt] = Word("input", host.input)
             /\ mem.dccm[LimitAt].v = 0
        /\ host.tool = "chunks" => mem.dccm[LimitAt].v = host.limit
    BY <2>1, <2>2, RightImage
  <2>4. i = Means(host) /\ i # "junk"
    BY <1>5, <2>3, CardAssumption
  <2>5. Means(host)' = Means(host)
    BY <1>9 DEF But, Means
  <2>6. host.tool = "detect" => dev'.input = host.input /\ dev'.limit = 0
    BY <1>6, <1>8, <2>3, <2>4, SomeWord
  <2>7. host.tool = "chunks" => dev'.limit = host.limit
    BY <1>6, <1>8, <2>3, <2>4
  <2>8. Bytes(0)' = <<>>
    <3>1. Least(0, UartDepth) = 0
      BY CardAssumption DEF Least
    <3>2. Bytes(0)' = [k \in 1..0 |-> host'.image]
      BY <3>1 DEF Bytes
    <3> QED BY <3>2
  <2> QED BY <1>8, <1>9, <2>4, <2>5, <2>6, <2>7, <2>8 DEF RunsRight, But
<1>12. \A f \in M.is : Fact(f)'
  <2> SUFFICES ASSUME NEW f \in M.is PROVE Fact(f)'
    OBVIOUS
  <2>1. CASE f \in {"own", "right"}
    BY <1>8, <1>10, <1>11, <2>1, CoreOnly DEF CoreNames, Fact, OfCore
  <2>2. CASE f = "shut" /\ host.tool \in {"detect", "chunks"}
    <3>1. Fact("flat")
      BY <1>3, <2>2 DEF RunRule, Holds
    <3>2. ~dev.sel
      BY <2>2, <3>1 DEF Fact, OfCore
    <3> QED BY <1>8, <2>2, <3>2, CoreOnly DEF CoreNames, Fact, OfCore
  <2>3. CASE f \in A.is /\ f \notin {"still", "quiet", "shut", "noeot", "nouart", "seen",
                                      "own", "right"}
    <3>1. Fact(f)
      BY <1>3, <2>3 DEF Holds
    <3>2. OfCore(f)'
      BY <1>8, <1>9, <2>3, <3>1 DEF Fact, OfCore, But
    <3>3. OfRead(f)'
      BY <1>9, <1>10, <3>1 DEF Fact, OfRead, But
    <3>4. OfTests(f)'
      <4>1. /\ host'.tool = host.tool /\ host'.image = host.image
            /\ host'.tests = host.tests /\ host'.results = host.results
            /\ host'.uart = host.uart
        BY <1>9 DEF But
      <4> QED BY <1>10, <3>1, <4>1, TestsFrame DEF Fact
    <3> QED BY <1>10, <3>1, <3>2, <3>3, <3>4 DEF Fact
  <2> QED BY <1>3, <2>1, <2>2, <2>3 DEF RunRule
<1>13. Holds(M)'
  <2>1. Sane' => \A c \in M.mem : Cell(c)'
    BY <1>1, <1>3, <1>10 DEF Holds, RunRule, Cell
  <2>2. M.is \cap {"noeot", "nouart"} = {}
    BY <1>3 DEF RunRule
  <2>3. \A c \in M.mem : Untouched(c)
    BY <1>3 DEF RunRule
  <2>4. Open' => \A w \in M.win : dev'.sel /\ dev'.win = w
    BY <1>3, <1>8, <1>10 DEF Holds, RunRule
  <2>5. (\A c \in M.mem : Untouched(c))'
    BY <2>3 DEF Untouched, ResultAt, DataAt
  <2> QED BY <1>12, <2>1, <2>2, <2>4, <2>5 DEF Holds
<1>14. Rest'
  <2>1. /\ host'.tool = host.tool /\ host'.want = host.want /\ host'.dir = host.dir
        /\ host'.ours = host.ours /\ host'.got = host.got
        /\ host'.mapped = host.mapped /\ host'.results = host.results
    BY <1>9 DEF But
  <2>2. \A d : Whole(d) => Whole(d)'
    BY <1>1 DEF Whole
  <2> QED BY <1>1, <2>1, <2>2 DEF CardInv, Rest, UartOurs
<1>15. Registers' /\ MemOK' /\ board' \in Boards
  BY <1>1, <1>7, <1>8, CardAssumption DEF CardInv, Registers, Typed, MemOK
<1>16. host' \in Hosts /\ host'.code = host.code /\ M.live
  BY <1>3, <1>9 DEF But, RunRule
<1> QED BY <1>1, <1>2, <1>8, <1>10, <1>13, <1>14, <1>15, <1>16, ToolStep
-----------------------------------------------------------------------------
(* What comes of the run.                                                  *)

LEMMA RestFrame ==
  ASSUME Rest, UNCHANGED <<board, files>>,
         host'.tool = host.tool, host'.want = host.want, host'.dir = host.dir,
         host'.mapped = host.mapped, host'.results = host.results,
         host'.got = host.got, host'.ours
  PROVE  Rest'
<1>1. \A d : Whole(d) => Whole(d)'
  BY DEF Whole
<1> QED BY <1>1 DEF Rest, UartOurs

LEMMA SeeEotInv == ASSUME CardInv, SeeEot PROVE CardInv'
<1>1. /\ Is("wait") /\ todo # <<>> /\ ~Is("write") /\ Then(<<>>) /\ dev.eot
      /\ host' = [host EXCEPT !.ours = dev.own]
      /\ UNCHANGED <<board, dev, mem, files, uses>>
  BY DEF SeeEot, Is
<1>2. PICK A, M, B : Turn(A, M, B)
  BY <1>1, TurnOf DEF CardInv
<1>3. "own" \in A.is /\ Same(A, M, {}, {"seen"}) /\ Holds(A)
  BY <1>1, <1>2 DEF Turn, Step, Is, Aim
<1>4. dev.own
  <2>1. Fact("own")
    BY <1>3 DEF Holds
  <2> QED BY <1>1, <2>1 DEF Fact, OfCore
<1>5. But(host, host', {"ours"}) /\ host'.ours
  <2>1. host \in Hosts /\ dev.own \in BOOLEAN
    BY DEF CardInv, Typed, Devices
  <2> QED BY <1>1, <1>4, <2>1, HostBut
<1>6. /\ host'.tool = host.tool /\ host'.want = host.want /\ host'.image = host.image
      /\ host'.input = host.input /\ host'.limit = host.limit /\ host'.dir = host.dir
      /\ host'.tests = host.tests /\ host'.results = host.results /\ host'.got = host.got
      /\ host'.uart = host.uart /\ host'.started = host.started
      /\ host'.mapped = host.mapped /\ host'.code = host.code /\ host' \in Hosts
  BY <1>5 DEF But
<1>7. /\ (Sane' <=> Sane) /\ (Open' <=> Open) /\ Aim' = Aim /\ Answer' = Answer
      /\ \A f : /\ OfFiles(f) => OfFiles(f)'
                /\ OfBoard(f) => OfBoard(f)'
      /\ (RunsRight' <=> RunsRight)
  <2>1. UNCHANGED <<board, files>> /\ UNCHANGED <<dev, mem>>
    BY <1>1
  <2> QED BY <1>6, <2>1, HostFrame
<1>8. \A f \in M.is : Fact(f)'
  <2> SUFFICES ASSUME NEW f \in M.is PROVE Fact(f)'
    OBVIOUS
  <2>1. CASE f = "seen"
    BY <1>1, <1>4, <2>1, CoreOnly DEF CoreNames, Fact, OfCore
  <2>2. CASE f \in A.is
    <3>1. Fact(f)
      BY <1>3, <2>2 DEF Holds
    <3>2. OfCore(f)'
      BY <1>1, <1>6, <1>7, <3>1 DEF Fact, OfCore
    <3>3. OfRead(f)'
      BY <1>6, <1>7, <3>1 DEF Fact, OfRead
    <3>4. OfTests(f)'
      BY <1>6, <1>7, <3>1, TestsFrame DEF Fact
    <3> QED BY <1>7, <3>1, <3>2, <3>3, <3>4 DEF Fact
  <2> QED BY <1>3, <2>1, <2>2 DEF Same
<1>9. Holds(M)'
  <2>1. Sane' => \A c \in M.mem : Cell(c)'
    BY <1>1, <1>3, <1>7 DEF Holds, Same, Cell
  <2>2. M.is \cap {"noeot", "nouart"} \subseteq A.is \cap {"noeot", "nouart"}
    BY <1>3 DEF Same
  <2> QED BY <1>1, <1>3, <1>7, <1>8, <2>1, <2>2 DEF Holds, Same
<1>10. Rest'
  <2>1. Rest /\ UNCHANGED <<board, files>>
    BY <1>1 DEF CardInv
  <2> QED BY <1>5, <1>6, <2>1, RestFrame
<1>11. Registers' /\ dev' \in Devices /\ MemOK' /\ dev'.posted = 0 /\ board' \in Boards
  BY <1>1 DEF CardInv, Registers, Posting, Typed, MemOK
<1>12. M.live
  BY <1>3 DEF Same
<1> QED BY <1>1, <1>2, <1>6, <1>7, <1>9, <1>10, <1>11, <1>12, ToolStep

LEMMA PopUartInv == ASSUME CardInv, PopUart PROVE CardInv'
<1>1. /\ Is("pop") /\ todo # <<>> /\ ~Is("write") /\ Then(<<>>)
      /\ host' = [host EXCEPT !.uart = dev.uart] /\ dev' = [dev EXCEPT !.uart = <<>>]
      /\ UNCHANGED <<board, mem, files, uses>>
  BY DEF PopUart, Is
<1>2. PICK A, M, B : Turn(A, M, B)
  BY <1>1, TurnOf DEF CardInv
<1>3. /\ Same(A, M, {"right", "seen", "popped"},
              IF {"right", "seen"} \subseteq A.is THEN {"popped"} ELSE {})
      /\ Holds(A)
  BY <1>1, <1>2 DEF Turn, Step, Is, Aim
<1>4. But(host, host', {"uart"}) /\ host'.uart = dev.uart
  <2>1. host \in Hosts /\ dev.uart \in Seq(Names \cup {"junk"})
    BY DEF CardInv, Typed, Devices
  <2>2. host' = [host EXCEPT !.uart = dev.uart]
    BY <1>1
  <2>3. \A u \in Seq(Names \cup {"junk"}) : \A h2 : h2 = [host EXCEPT !.uart = u] =>
          But(host, h2, {"uart"}) /\ h2.uart = u
    BY <2>1, HostBut
  <2> QED BY <2>1, <2>2, <2>3
<1>5. /\ dev' \in Devices /\ dev'.run = dev.run /\ dev'.prog = dev.prog
      /\ dev'.said = dev.said /\ dev'.sel = dev.sel /\ dev'.win = dev.win
      /\ dev'.eot = dev.eot /\ dev'.uart = <<>> /\ dev'.posted = dev.posted
      /\ dev'.own = dev.own
  <2>1. dev \in Devices /\ <<>> \in Seq(Names \cup {"junk"})
    BY DEF CardInv, Typed
  <2> QED BY <1>1, <2>1 DEF Devices
<1>6. /\ host'.tool = host.tool /\ host'.want = host.want /\ host'.image = host.image
      /\ host'.input = host.input /\ host'.limit = host.limit /\ host'.dir = host.dir
      /\ host'.tests = host.tests /\ host'.results = host.results /\ host'.got = host.got
      /\ host'.started = host.started /\ host'.ours = host.ours
      /\ host'.mapped = host.mapped /\ host'.code = host.code /\ host' \in Hosts
  BY <1>4 DEF But
<1>7. /\ (Sane' <=> Sane) /\ (Open' <=> Open) /\ Aim' = Aim /\ Answer' = Answer
      /\ \A f : /\ OfFiles(f) => OfFiles(f)'
                /\ OfBoard(f) => OfBoard(f)'
  <2>1. UNCHANGED <<board, files>>
    BY <1>1
  <2> QED BY <1>6, <2>1, HostFrame
<1>8. \A f \in M.is : Fact(f)'
  <2> SUFFICES ASSUME NEW f \in M.is PROVE Fact(f)'
    OBVIOUS
  <2>1. CASE f = "popped"
    <3>1. "right" \in A.is /\ "seen" \in A.is
      BY <1>3, <2>1 DEF Same
    <3>2. (Sane => RunsRight) /\ dev.own
      BY <1>3, <3>1 DEF Holds, Fact, OfCore
    <3>3. Sane /\ host.tool = "runner" =>
            dev.uart = Bytes(Images[host.image].prints)
      BY <3>2 DEF RunsRight
    <3>4. Bytes(Images[host.image].prints)' = Bytes(Images[host.image].prints)
      BY <1>6 DEF Bytes
    <3>5. OfTests(f)'
      BY <1>4, <1>6, <1>7, <2>1, <3>3, <3>4 DEF OfTests
    <3> QED BY <2>1, <3>5 DEF Fact, OfCore, OfRead, OfFiles, OfBoard
  <2>2. CASE f \in A.is /\ f \notin {"right", "seen", "popped"}
    <3>1. Fact(f)
      BY <1>3, <2>2 DEF Holds
    <3>2. OfCore(f)'
      BY <1>5, <1>6, <2>2, <3>1 DEF Fact, OfCore
    <3>3. OfRead(f)'
      BY <1>6, <1>7, <3>1 DEF Fact, OfRead
    <3>4. OfTests(f)'
      BY <1>6, <2>2, <3>1 DEF Fact, OfTests, Judged
    <3> QED BY <1>7, <3>1, <3>2, <3>3, <3>4 DEF Fact
  <2> QED BY <1>3, <2>1, <2>2 DEF Same
<1>9. Holds(M)'
  <2>1. Sane' => \A c \in M.mem : Cell(c)'
    BY <1>1, <1>3, <1>7 DEF Holds, Same, Cell
  <2>2. M.is \cap {"noeot", "nouart"} \subseteq A.is \cap {"noeot", "nouart"}
    BY <1>3 DEF Same
  <2>3. dev'.run =>
          /\ M.is \cap {"noeot", "nouart"} = {}
          /\ (\A c \in M.mem : Untouched(c))'
    BY <1>3, <1>5, <2>2 DEF Holds, Same, Untouched, ResultAt, DataAt
  <2>4. Open' => \A w \in M.win : dev'.sel /\ dev'.win = w
    BY <1>3, <1>5, <1>7 DEF Holds, Same
  <2> QED BY <1>8, <2>1, <2>3, <2>4 DEF Holds
<1>10. Rest'
  <2>1. Rest /\ UNCHANGED <<board, files>> /\ host'.ours
    BY <1>1, <1>6 DEF CardInv, Rest
  <2> QED BY <1>6, <2>1, RestFrame
<1>11. Registers' /\ MemOK' /\ dev'.posted = 0 /\ board' \in Boards
  BY <1>1, <1>5, CardAssumption DEF CardInv, Registers, Posting, Typed, MemOK
<1>12. M.live
  BY <1>3 DEF Same
<1> QED BY <1>1, <1>2, <1>5, <1>6, <1>7, <1>9, <1>10, <1>11, <1>12, ToolStep

LEMMA OpenBarInv == ASSUME CardInv, OpenBar PROVE CardInv'
<1>1. /\ Is("open") /\ todo # <<>> /\ ~Is("write")
      /\ UNCHANGED <<board, dev, mem, files, uses>>
  BY DEF OpenBar, Is
<1>2. PICK A, M, B : Turn(A, M, B)
  BY <1>1, TurnOf DEF CardInv
<1>3. /\ host.tool = "runner" => "unjudged" \in A.is
      /\ Same(A, M, {"flat"}, IF host.tool = "runner" THEN {"flat"} ELSE {})
      /\ {"whole"} \cup Safe(host.tool) \subseteq A.is
      /\ Holds(A)
  BY <1>1, <1>2 DEF Turn, Step, Is, Aim
<1>4. CASE Raise
  BY <1>1, <1>2, <1>3, <1>4, RaiseInv
<1>5. CASE host' = [host EXCEPT !.mapped = dev.sel] /\ Then(<<>>)
  <2>1. But(host, host', {"mapped"}) /\ host'.mapped = dev.sel
    <3>1. host \in Hosts /\ dev.sel \in BOOLEAN
      BY DEF CardInv, Typed, Devices
    <3> QED BY <1>5, <3>1, HostBut
  <2>2. /\ host'.tool = host.tool /\ host'.want = host.want /\ host'.image = host.image
        /\ host'.input = host.input /\ host'.limit = host.limit /\ host'.dir = host.dir
        /\ host'.tests = host.tests /\ host'.results = host.results
        /\ host'.got = host.got /\ host'.uart = host.uart
        /\ host'.started = host.started /\ host'.ours = host.ours
        /\ host'.code = host.code /\ host' \in Hosts
    BY <2>1 DEF But
  <2>3. host.tool = "runner" => host.results = <<>> /\ host.image = "none"
    <3> HAVE host.tool = "runner"
    <3>1. Fact("unjudged")
      BY <1>3 DEF Holds
    <3> QED BY <3>1 DEF Fact, OfTests
  <2>4. (Open' <=> Open) /\ (Sane' <=> Sane)
    BY <2>2, <2>3 DEF Open, Sane
  <2>5. Aim' = Aim /\ Answer' = Answer
    BY <2>2, <2>4 DEF Aim, Needed, Need, Means, Answer
  <2>6. RunsRight' <=> RunsRight
    BY <1>1, <2>2 DEF RunsRight, Means, Answer, Bytes
  <2>7. \A f \in M.is : Fact(f)'
    <3> SUFFICES ASSUME NEW f \in M.is PROVE Fact(f)'
      OBVIOUS
    <3>1. CASE f = "flat"
      <4>1. host.tool = "runner"
        BY <1>3, <3>1 DEF Same
      <4>2. OfCore("flat")'
        BY <1>1, <2>1, <2>2, <4>1 DEF OfCore
      <4> QED BY <3>1, <4>2, CoreOnly DEF CoreNames, Fact
    <3>2. CASE f \in A.is /\ f # "flat"
      <4>1. Fact(f)
        BY <1>3, <3>2 DEF Holds
      <4>2. OfCore(f)'
        BY <1>1, <2>2, <2>4, <2>6, <3>2, <4>1 DEF Fact, OfCore
      <4>3. OfRead(f)'
        BY <2>2, <2>4, <2>5, <4>1 DEF Fact, OfRead
      <4>4. OfTests(f)'
        BY <2>2, <2>4, <4>1, TestsFrame DEF Fact
      <4>5. OfFiles(f)'
        BY <1>1, <2>2, <4>1 DEF Fact, OfFiles, Whole, Dir
      <4>6. OfBoard(f)'
        BY <1>1, <2>2, <2>4, <4>1 DEF Fact, OfBoard, Answers
      <4> QED BY <4>2, <4>3, <4>4, <4>5, <4>6 DEF Fact
    <3> QED BY <1>3, <3>1, <3>2 DEF Same
  <2>8. Holds(M)'
    <3>1. Sane' => \A c \in M.mem : Cell(c)'
      BY <1>1, <1>3, <2>4 DEF Holds, Same, Cell
    <3>2. M.is \cap {"noeot", "nouart"} \subseteq A.is \cap {"noeot", "nouart"}
      BY <1>3 DEF Same
    <3> QED BY <1>1, <1>3, <2>4, <2>7, <3>1, <3>2 DEF Holds, Same
  <2>9. Rest'
    <3>1. \A d : Whole(d) => Whole(d)'
      BY <1>1 DEF Whole
    <3>2. UartOurs'
      BY <2>2, <2>3 DEF UartOurs
    <3> QED BY <2>2, <3>1, <3>2 DEF CardInv, Rest
  <2>10. Registers' /\ dev' \in Devices /\ MemOK' /\ dev'.posted = 0 /\ board' \in Boards
    BY <1>1 DEF CardInv, Registers, Posting, Typed, MemOK
  <2>11. M.live
    BY <1>3 DEF Same
  <2> QED BY <1>1, <1>2, <1>5, <2>2, <2>5, <2>8, <2>9, <2>10, <2>11, ToolStep
<1> QED BY <1>4, <1>5 DEF OpenBar
-----------------------------------------------------------------------------
(* The core's own steps.                                                   *)

LEMMA CoreStep ==
  ASSUME CardInv, UNCHANGED <<board, files, host, todo, uses>>,
         \A A : Holds(A) => Holds(A)', Registers', dev' \in Devices, MemOK',
         dev'.posted = dev.posted
  PROVE  CardInv'
<1>1. /\ Aim' = Aim
      /\ Rest => Rest'
  <2>1. UNCHANGED <<board, files, host>>
    OBVIOUS
  <2> QED BY <2>1, Framed
<1>2. Going'
  <2>1. PICK A, B : /\ A.live /\ Triple(Aim, A, todo, B) /\ Holds(A)
                    /\ B.live => Goal(host.tool, host.code) \subseteq B.is
    BY DEF CardInv, Going
  <2>2. /\ A.live /\ Triple(Aim', A, todo', B) /\ Holds(A)'
        /\ B.live => Goal(host'.tool, host'.code) \subseteq B.is
    BY <1>1, <2>1
  <2> QED BY <2>2 DEF Going
<1>3. Typed' /\ Posting'
  BY DEF CardInv, Typed, Posting, Is, Top
<1> QED BY <1>1, <1>2, <1>3 DEF CardInv

\* One byte more.
LEMMA BytesNext ==
  ASSUME host \in Hosts, NEW n \in Nat
  PROVE  /\ Len(Bytes(n)) = Least(n, UartDepth)
         /\ n < UartDepth => Bytes(n + 1) = Append(Bytes(n), host.image)
         /\ ~(n < UartDepth) => Bytes(n + 1) = Bytes(n)
<1>1. UartDepth \in Nat /\ Least(n, UartDepth) \in Nat
  BY CardAssumption DEF Least
<1>2. Bytes(n) \in Seq({host.image}) /\ Len(Bytes(n)) = Least(n, UartDepth)
  BY <1>1 DEF Bytes
<1>3. ASSUME n < UartDepth PROVE Bytes(n + 1) = Append(Bytes(n), host.image)
  <2>1. Least(n, UartDepth) = n /\ Least(n + 1, UartDepth) = n + 1
    BY <1>1, <1>3 DEF Least
  <2>2. Bytes(n) = [k \in 1..n |-> host.image] /\ Bytes(n + 1) = [k \in 1..(n + 1) |-> host.image]
    BY <2>1 DEF Bytes
  <2>3. PICK s \in Seq({host.image}) : s = Bytes(n) /\ Len(s) = n /\ \A k \in 1..n : s[k] = host.image
    BY <1>2, <2>1, <2>2
  <2>4. PICK t \in Seq({host.image}) : t = Bytes(n + 1) /\ Len(t) = n + 1
                                       /\ \A k \in 1..(n + 1) : t[k] = host.image
    BY <2>2
  <2>5. /\ Append(s, host.image) \in Seq({host.image}) /\ Len(Append(s, host.image)) = n + 1
        /\ \A k \in 1..n : Append(s, host.image)[k] = s[k]
        /\ Append(s, host.image)[n + 1] = host.image
    BY <2>3, AppendProperties
  <2>6. \A k \in 1..(n + 1) : Append(s, host.image)[k] = t[k]
    BY <2>3, <2>4, <2>5
  <2>7. Append(s, host.image) = t
    BY <2>4, <2>5, <2>6, SeqEqual
  <2> QED BY <2>3, <2>4, <2>7
<1>4. ASSUME ~(n < UartDepth) PROVE Bytes(n + 1) = Bytes(n)
  <2>1. Least(n, UartDepth) = UartDepth /\ Least(n + 1, UartDepth) = UartDepth
    BY <1>1, <1>4 DEF Least
  <2> QED BY <2>1 DEF Bytes
<1> QED BY <1>2, <1>3, <1>4

LEMMA CorePrintInv == ASSUME CardInv, CorePrint PROVE CardInv'
<1>1. /\ dev.run /\ dev.prog # "none" /\ UNCHANGED <<board, mem, files, host, todo, uses>>
      /\ dev.said < (IF dev.prog = "junk" THEN 1 ELSE Images[dev.prog].prints)
      /\ dev' = [dev EXCEPT !.said = @ + 1,
                   !.uart = IF Len(@) < UartDepth THEN Append(@, dev.prog) ELSE @]
  BY DEF CorePrint
<1>2. dev \in Devices /\ dev.uart \in Seq(Names \cup {"junk"}) /\ dev.said \in Nat
      /\ dev.prog \in Names \cup {"junk"}
  BY <1>1 DEF CardInv, Typed, Devices
<1>3. PICK u \in Seq(Names \cup {"junk"}) :
        u = IF Len(dev.uart) < UartDepth THEN Append(dev.uart, dev.prog) ELSE dev.uart
  BY <1>2, AppendProperties
<1>4. /\ dev' \in Devices /\ dev'.run /\ dev'.prog = dev.prog
      /\ dev'.said = dev.said + 1 /\ dev'.sel = dev.sel /\ dev'.win = dev.win
      /\ dev'.eot = dev.eot /\ dev'.uart = u /\ dev'.posted = dev.posted
      /\ dev'.own = dev.own /\ dev'.limit = dev.limit /\ dev'.input = dev.input
  <2>1. dev' = [dev EXCEPT !.said = dev.said + 1, !.uart = u]
    BY <1>1, <1>3
  <2>2. dev.said + 1 \in Nat /\ dev.run
    BY <1>1, <1>2
  <2> QED BY <1>2, <2>1, <2>2 DEF Devices
<1>5. Len(u) <= UartDepth
  BY <1>2, <1>3, AppendProperties, CardAssumption DEF CardInv, Registers
<1>6. Registers' /\ MemOK'
  BY <1>1, <1>4, <1>5 DEF CardInv, Registers, Typed, MemOK
<1>7. (Sane' <=> Sane) /\ (Open' <=> Open)
  BY <1>1, Framed
<1>8. RunsRight => RunsRight'
  <2> HAVE RunsRight
  <2>1. host.tool = "runner" => ~dev.own /\ u = Bytes(dev.said + 1)
    <3> HAVE host.tool = "runner"
    <3>2. dev.prog = host.image /\ dev.uart = Bytes(dev.said)
          /\ (dev.own => dev.said = Images[host.image].prints)
      BY DEF RunsRight, Means
    <3>3. host \in Hosts /\ dev.prog # "junk"
      BY <3>2, CardAssumption DEF CardInv, Typed, Hosts
    <3>4. /\ Len(Bytes(dev.said)) = Least(dev.said, UartDepth)
          /\ dev.said < UartDepth => Bytes(dev.said + 1) = Append(Bytes(dev.said), host.image)
          /\ ~(dev.said < UartDepth) => Bytes(dev.said + 1) = Bytes(dev.said)
      BY <1>2, <3>3, BytesNext
    <3>5. Len(dev.uart) < UartDepth <=> dev.said < UartDepth
      BY <1>2, <3>2, <3>4, CardAssumption DEF Least
    <3>6. u = Bytes(dev.said + 1)
      BY <1>3, <3>2, <3>4, <3>5
    <3>7. ~dev.own
      <4>1. dev.said # Images[host.image].prints
        BY <1>1, <1>2, <3>2, <3>3, CardAssumption DEF ImageType
      <4> QED BY <3>2, <4>1
    <3> QED BY <3>6, <3>7
  <2>2. \A n : Bytes(n)' = Bytes(n)
    BY <1>1 DEF Bytes
  <2> QED BY <1>1, <1>4, <2>1, <2>2 DEF RunsRight, Means, Answer
<1>9. ASSUME NEW A, Holds(A) PROVE Holds(A)'
  <2>1. \A f \in A.is : OfCore(f)'
    <3> SUFFICES ASSUME NEW f \in A.is PROVE OfCore(f)'
      OBVIOUS
    <3>1. OfCore(f) /\ f \notin {"noeot", "nouart"}
      BY <1>1, <1>9 DEF Holds, Fact
    <3> QED BY <1>1, <1>4, <1>7, <1>8, <3>1 DEF OfCore
  <2>2. \A f \in A.is : Fact(f)'
    BY <1>1, <1>9, <2>1, FactsGo
  <2>3. Sane' => \A c \in A.mem : Cell(c)'
    BY <1>1, <1>7, <1>9 DEF Holds, Cell
  <2> QED BY <1>1, <1>4, <1>7, <1>9, <2>2, <2>3 DEF Holds
<1> QED BY <1>1, <1>4, <1>6, <1>9, CoreStep

LEMMA CoreStoreInv == ASSUME CardInv, CoreStore PROVE CardInv'
<1>1. /\ dev.run /\ UNCHANGED <<board, dev, files, host, todo, uses>>
      /\ mem' = [mem EXCEPT !.dccm[DataAt] = Word("none", 0)]
  BY DEF CoreStore
<1>2. Word("none", 0) \in Values /\ DataAt \in Range0("dccm")
  BY Sizes DEF Values, Word, DataAt, Range0
<1>3. PICK w \in Values : w = Word("none", 0)
  BY <1>2
<1>4. /\ mem'.iccm = mem.iccm /\ mem'.dram = mem.dram
      /\ mem'.dccm = [mem.dccm EXCEPT ![DataAt] = w]
      /\ mem' = [k \in {"iccm", "dccm", "dram"} |-> mem'[k]]
  BY <1>1, <1>3 DEF CardInv, Typed, MemOK
<1>5. MemOK'
  <2>1. mem.dccm \in [Range0("dccm") -> Values]
    BY DEF CardInv, Typed, MemOK
  <2>2. mem'.dccm \in [Range0("dccm") -> Values]
    BY <1>3, <1>4, <2>1
  <2> QED BY <1>4, <2>2 DEF CardInv, Typed, MemOK
<1>6. \A k \in {"iccm", "dccm", "dram"} : \A b \in Range0(k) :
        ~(k = "dccm" /\ b = DataAt) => mem'[k][b] = mem[k][b]
  BY <1>4 DEF CardInv, Typed, MemOK
<1>7. Registers' /\ dev' \in Devices
  BY <1>1 DEF CardInv, Registers, Typed
<1>8. (Sane' <=> Sane) /\ (Open' <=> Open)
  BY <1>1, Framed
<1>9. RunsRight => RunsRight'
  BY <1>1, <1>4 DEF RunsRight, Answer, Bytes, Means, ResultAt
<1>10. ASSUME NEW A, Holds(A) PROVE Holds(A)'
  <2>1. \A f \in A.is : OfCore(f)'
    <3> SUFFICES ASSUME NEW f \in A.is PROVE OfCore(f)'
      OBVIOUS
    <3>1. OfCore(f)
      BY <1>10 DEF Holds, Fact
    <3> QED BY <1>1, <1>8, <1>9, <3>1 DEF OfCore
  <2>2. \A f \in A.is : Fact(f)'
    BY <1>1, <1>10, <2>1, FactsGo
  <2>3. \A c \in A.mem : Untouched(c)
    BY <1>1, <1>10 DEF Holds
  <2>4. Sane' => \A c \in A.mem : Cell(c)'
    BY <1>6, <1>8, <1>10, <2>3 DEF Holds, Cell, Untouched
  <2>5. (\A c \in A.mem : Untouched(c))'
    BY <2>3 DEF Untouched, ResultAt, DataAt
  <2> QED BY <1>1, <1>8, <1>10, <2>2, <2>4, <2>5 DEF Holds
<1> QED BY <1>1, <1>5, <1>7, <1>10, CoreStep

LEMMA CoreEotInv == ASSUME CardInv, CoreEot PROVE CardInv'
<1>1. /\ dev.run /\ UNCHANGED <<board, files, host, todo, uses>>
      /\ dev' = [dev EXCEPT !.eot = TRUE, !.own = TRUE]
      /\ dev.prog # "junk" => Images[dev.prog].eot /\ dev.said = Images[dev.prog].prints
  BY DEF CoreEot
<1>2. /\ dev' \in Devices /\ dev'.run /\ dev'.prog = dev.prog /\ dev'.said = dev.said
      /\ dev'.sel = dev.sel /\ dev'.win = dev.win /\ dev'.eot
      /\ dev'.uart = dev.uart /\ dev'.posted = dev.posted
      /\ dev'.own /\ dev'.limit = dev.limit /\ dev'.input = dev.input
  BY <1>1 DEF CardInv, Typed, Devices
<1>3. dev.prog \in Names \cup {"junk"} /\ dev.input \in Nat
  BY <1>1 DEF CardInv, Registers, Typed, Devices
<1>4. PICK w : w = Word(dev.prog, 10 + dev.input)
  OBVIOUS
<1>5. \/ mem' = mem /\ ~(dev.prog # "junk" /\ Images[dev.prog].dram /\ dev.limit = 0)
      \/ /\ dev.prog # "junk" /\ Images[dev.prog].dram /\ dev.limit = 0
         /\ mem' = [mem EXCEPT !.dram = [a \in DOMAIN @ |-> IF a \in ResultAt THEN w ELSE @[a]]]
  BY <1>4 DEF CoreEot
<1>6. \A k \in {"iccm", "dccm", "dram"} :
        /\ mem'[k] \in [Range0(k) -> Values]
        /\ \A b \in Range0(k) :
             ~(k = "dram" /\ b \in ResultAt) => mem'[k][b] = mem[k][b]
  <2>1. dev.prog # "junk" => w \in Values
    BY <1>3, <1>4 DEF Values, Word
  <2>2. CASE mem' = mem
    BY <2>2 DEF CardInv, Typed, MemOK
  <2>3. CASE dev.prog # "junk"
             /\ mem' = [mem EXCEPT !.dram = [a \in DOMAIN @ |-> IF a \in ResultAt THEN w ELSE @[a]]]
    <3>1. /\ mem'.iccm = mem.iccm /\ mem'.dccm = mem.dccm
          /\ mem'.dram = [a \in Range0("dram") |-> IF a \in ResultAt THEN w ELSE mem.dram[a]]
      BY <2>3 DEF CardInv, Typed, MemOK
    <3> QED BY <2>1, <2>3, <3>1 DEF CardInv, Typed, MemOK
  <2> QED BY <1>5, <2>2, <2>3
<1>7. MemOK'
  <2>1. mem' = [k \in {"iccm", "dccm", "dram"} |-> mem'[k]]
    BY <1>5 DEF CardInv, Typed, MemOK
  <2> QED BY <1>6, <2>1 DEF MemOK
<1>8. Registers'
  BY <1>1, <1>2 DEF CardInv, Registers
<1>9. (Sane' <=> Sane) /\ (Open' <=> Open)
  BY <1>1, Framed
<1>10. Sane /\ RunsRight => RunsRight'
  <2> HAVE Sane /\ RunsRight
  <2>1. host.tool = "detect" => \A a \in ResultAt : mem'.dram[a] = Answer
    <3> HAVE host.tool = "detect"
    <3>1. dev.prog = host.want /\ dev.input = host.input /\ dev.limit = 0
      BY DEF RunsRight, Means
    <3>2. host.want \in Names /\ Images[host.want].dram /\ host.want # "junk"
      BY CardAssumption DEF CardInv, Rest
    <3>3. w = Answer
      BY <1>4, <3>1 DEF Answer
    <3>4. mem'.dram = [a \in Range0("dram") |-> IF a \in ResultAt THEN w ELSE mem.dram[a]]
      BY <1>5, <3>1, <3>2 DEF CardInv, Typed, MemOK
    <3> QED BY <3>3, <3>4, ResultInDram
  <2>2. host.tool = "runner" => dev.said = Images[host.image].prints
    <3> HAVE host.tool = "runner"
    <3>1. dev.prog = host.image /\ host.image # "junk"
      BY CardAssumption DEF RunsRight, Means, CardInv, Typed, Hosts
    <3> QED BY <1>1, <3>1
  <2>3. Answer' = Answer /\ (\A n : Bytes(n)' = Bytes(n)) /\ Means(host)' = Means(host)
    BY <1>1 DEF Answer, Bytes, Means
  <2> QED BY <1>1, <1>2, <2>1, <2>2, <2>3 DEF RunsRight, ResultAt
<1>11. ASSUME NEW A, Holds(A) PROVE Holds(A)'
  <2>1. \A f \in A.is : OfCore(f)'
    <3> SUFFICES ASSUME NEW f \in A.is PROVE OfCore(f)'
      OBVIOUS
    <3>1. OfCore(f) /\ f \notin {"noeot", "nouart"}
      BY <1>1, <1>11 DEF Holds, Fact
    <3> QED BY <1>1, <1>2, <1>9, <1>10, <3>1 DEF OfCore
  <2>2. \A f \in A.is : Fact(f)'
    BY <1>1, <1>11, <2>1, FactsGo
  <2>3. \A c \in A.mem : Untouched(c)
    BY <1>1, <1>11 DEF Holds
  <2>4. Sane' => \A c \in A.mem : Cell(c)'
    BY <1>6, <1>9, <1>11, <2>3 DEF Holds, Cell, Untouched
  <2>5. (\A c \in A.mem : Untouched(c))'
    BY <2>3 DEF Untouched, ResultAt, DataAt
  <2> QED BY <1>1, <1>2, <1>9, <1>11, <2>2, <2>4, <2>5 DEF Holds
<1> QED BY <1>1, <1>2, <1>7, <1>8, <1>11, CoreStep
-----------------------------------------------------------------------------
(* The results of the runner.                                              *)

Hows == {"ok", "uart", "timeout", "skipped", "large", "prepare"}

LEMMA VerdictAdd ==
  ASSUME NEW r \in Verdicts, NEW t \in Names, NEW w \in Hows
  PROVE  LET s == Append(r, [test |-> t, how |-> w])
         IN  /\ s \in Verdicts /\ Len(s) = Len(r) + 1 /\ Len(r) \in Nat
             /\ \A k \in 1..Len(r) : s[k] = r[k]
             /\ s[Len(r) + 1].test = t /\ s[Len(r) + 1].how = w
<1> DEFINE R == [test : Names, how : Hows]
           e == [test |-> t, how |-> w]
<1>1. r \in Seq(R) /\ e \in R
  BY DEF Verdicts, Hows
<1>2. e.test = t /\ e.how = w
  OBVIOUS
<1> HIDE DEF R, e
<1>3. /\ Append(r, e) \in Seq(R) /\ Len(Append(r, e)) = Len(r) + 1 /\ Len(r) \in Nat
      /\ \A k \in 1..Len(r) : Append(r, e)[k] = r[k]
      /\ Append(r, e)[Len(r) + 1] = e
  BY <1>1, AppendProperties
<1> QED BY <1>2, <1>3 DEF Verdicts, Hows, R, e

\* A result for the test at hand, with one byte of output that is not its own
\* only where the UART is too small.
LEMMA ResultAdd ==
  ASSUME host \in Hosts, board' = board, OfTests("listed"), UartOurs,
         Judged < Len(host.tests), NEW w \in Hows,
         host'.tool = host.tool, host'.mapped = host.mapped, host'.tests = host.tests,
         host'.results =
           Append(host.results, [test |-> host.tests[Judged + 1], how |-> w]),
         LET i == Images[host.tests[Judged + 1]]
         IN  w = "uart" /\ host.tool = "runner" /\ ~host.mapped
               /\ (i.dram => board.bit = "good") => i.prints > UartDepth
  PROVE  /\ OfTests("listed")' /\ UartOurs' /\ Judged' = Judged + 1 /\ Judged \in Nat
         /\ host'.results \in Verdicts /\ host.tests[Judged + 1] \in Names
<1>1. host.results \in Verdicts /\ host.tests \in Seq(Names)
  BY DEF Hosts
<1>2. PICK n \in Nat : n = Judged /\ n = Len(host.results)
  <2>1. Len(host.results) \in Nat
    BY <1>1 DEF Verdicts
  <2> QED BY <2>1 DEF Judged
<1>3. n + 1 \in 1..Len(host.tests) /\ host.tests[n + 1] \in Names
  BY <1>1, <1>2
<1>4. PICK t \in Names : t = host.tests[n + 1]
  BY <1>3
<1>5. PICK s : s = host'.results /\ s = Append(host.results, [test |-> t, how |-> w])
  BY <1>2, <1>4
<1>6. /\ s \in Verdicts /\ Len(s) = n + 1
      /\ \A k \in 1..n : s[k] = host.results[k]
      /\ s[n + 1].test = t /\ s[n + 1].how = w
  <2>1. host.results \in Verdicts /\ Len(host.results) = n
    BY <1>1, <1>2
  <2> QED BY <1>5, <2>1, VerdictAdd
<1>7. Judged' = n + 1
  BY <1>5, <1>6 DEF Judged
<1>8. \A k \in 1..(n + 1) : k \in 1..n \/ k = n + 1
  OBVIOUS
<1>9. OfTests("listed")'
  <2>1. \A k \in 1..n : host.results[k].test = host.tests[k]
    BY <1>2 DEF OfTests
  <2>2. \A k \in 1..(n + 1) : s[k].test = host.tests[k]
    BY <1>4, <1>6, <1>8, <2>1
  <2>3. n + 1 <= Len(host.tests)
    BY <1>3
  <2> QED BY <1>5, <1>7, <2>2, <2>3 DEF OfTests
<1>10. UartOurs'
  <2> SUFFICES ASSUME host.tool = "runner", ~host.mapped, NEW k \in DOMAIN s,
                      s[k].how = "uart",
                      Images[s[k].test].dram => board.bit = "good"
               PROVE  Images[s[k].test].prints > UartDepth
    BY <1>5 DEF UartOurs
  <2>1. k \in 1..(n + 1)
    BY <1>6 DEF Verdicts
  <2>2. CASE k \in 1..n
    <3>1. k \in DOMAIN host.results
      BY <1>1, <1>2, <2>2 DEF Verdicts
    <3> QED BY <1>6, <2>2, <3>1 DEF UartOurs
  <2>3. CASE k = n + 1
    BY <1>2, <1>4, <1>6, <2>3
  <2> QED BY <1>8, <2>1, <2>2, <2>3
<1> QED BY <1>2, <1>4, <1>5, <1>6, <1>7, <1>9, <1>10

LEMMA TimeOutInv == ASSUME CardInv, TimeOut PROVE CardInv'
<1>1. /\ Is("wait") /\ todo # <<>> /\ ~Is("write") /\ OnTimeout
      /\ UNCHANGED <<board, mem, files, uses>>
  BY DEF TimeOut, Is
<1>2. PICK A, M, B : Turn(A, M, B)
  BY <1>1, TurnOf DEF CardInv
<1>3. /\ {"whole"} \cup (Safe(host.tool) \ {"quiet"}) \subseteq A.is
      /\ host.tool = "runner" => {"listed", "current", "flat"} \subseteq A.is
      /\ Holds(A)
  BY <1>1, <1>2 DEF Turn, Step, Is, Aim
<1>4. PICK late \in BOOLEAN : dev' = [Stopped(dev) EXCEPT !.eot = late]
  <2>1. \A b : (IF b THEN BOOLEAN ELSE {FALSE}) \subseteq BOOLEAN
    OBVIOUS
  <2> QED BY <2>1 DEF TimeOut
<1>5. PICK e : e = Stopped(dev)
  OBVIOUS
<1>6. /\ e \in Devices /\ ~e.run /\ e.prog = "none" /\ e.said = 0
      /\ e.sel = dev.sel /\ e.win = dev.win
      /\ e.uart = dev.uart /\ e.posted = dev.posted /\ e.own = dev.own
  BY <1>5, StoppedIs DEF CardInv, Typed
<1>7. /\ dev' \in Devices /\ ~dev'.run /\ dev'.prog = "none" /\ dev'.said = 0
      /\ dev'.sel = dev.sel /\ dev'.uart = dev.uart /\ dev'.posted = 0
  <2>1. dev' = [e EXCEPT !.eot = late] /\ dev.posted = 0
    BY <1>1, <1>4, <1>5 DEF CardInv, Posting
  <2> QED BY <1>6, <2>1 DEF Devices
<1>8. Registers' /\ MemOK'
  BY <1>1, <1>7 DEF CardInv, Registers, Typed, MemOK
<1>9. CASE host.tool # "runner"
  <2>1. Raise
    BY <1>1, <1>9 DEF OnTimeout
  <2> QED BY <1>1, <1>3, <1>7, <1>8, <2>1, RaiseStopped
<1>10. CASE host.tool = "runner"
  <2>1. host' = [host EXCEPT !.results = Append(host.results, Result("timeout"))]
        /\ todo' = <<Call("pop"), Call("halt"), Call("test")>>
    BY <1>1, <1>10 DEF OnTimeout
  <2>2. OfTests("listed") /\ OfTests("current")
    BY <1>3, <1>10 DEF Holds, Fact
  <2>3. Judged < Len(host.tests) /\ host.image = host.tests[Judged + 1]
    BY <2>2 DEF OfTests
  <2>4. host \in Hosts /\ UartOurs /\ host.results \in Verdicts
    BY DEF CardInv, Typed, Rest, Hosts
  <2>5. host.image \in Names
    <3>1. host.tests \in Seq(Names) /\ Len(host.results) \in Nat
      BY <2>4 DEF Hosts, Verdicts
    <3> QED BY <2>3, <3>1 DEF Judged
  <2>6. "timeout" \in Hows
    BY DEF Hows
  <2>7. PICK r : r = Append(host.results, Result("timeout"))
    OBVIOUS
  <2>8. r = Append(host.results, [test |-> host.tests[Judged + 1], how |-> "timeout"])
        /\ r \in Verdicts
    BY <2>3, <2>4, <2>5, <2>6, <2>7, VerdictAdd DEF Result
  <2>9. But(host, host', {"results"}) /\ host'.results = r
    <3>1. \A v \in Verdicts : \A h2 : h2 = [host EXCEPT !.results = v] =>
            But(host, h2, {"results"}) /\ h2.results = v
      BY <2>4, HostBut
    <3>2. host' = [host EXCEPT !.results = r] /\ r \in Verdicts
      BY <2>1, <2>7, <2>8
    <3> QED BY <3>1, <3>2
  <2>10. /\ host'.tool = host.tool /\ host'.want = host.want /\ host'.image = host.image
         /\ host'.input = host.input /\ host'.limit = host.limit /\ host'.dir = host.dir
         /\ host'.tests = host.tests /\ host'.got = host.got
         /\ host'.uart = host.uart /\ host'.started = host.started
         /\ host'.mapped = host.mapped /\ host'.code = host.code /\ host' \in Hosts
         /\ host'.ours = host.ours
    BY <2>9 DEF But
  <2>11. OfTests("listed")' /\ UartOurs'
    BY <1>1, <2>2, <2>3, <2>4, <2>6, <2>8, <2>9, <2>10, ResultAdd
  <2>12. Rest'
    <3>1. \A d : Whole(d) => Whole(d)'
      BY <1>1 DEF Whole
    <3> QED BY <2>10, <2>11, <3>1 DEF CardInv, Rest
  <2>13. PICK P : P = Assert({"whole", "quiet", "listed", "flat"}, {}, {})
    OBVIOUS
  <2>14. P.live /\ P.is = {"whole", "quiet", "listed", "flat"} /\ P.mem = {} /\ P.win = {}
    BY <2>13 DEF Assert
  <2>15. Holds(P)'
    <3>1. Fact("listed")'
      BY <2>11 DEF Fact, OfCore, OfRead, OfFiles, OfBoard
    <3>2. Fact("quiet")'
      BY <1>7, CoreOnly DEF CoreNames, Fact, OfCore
    <3>3. Fact("flat")'
      <4>1. OfCore("flat")
        BY <1>3, <1>10 DEF Holds, Fact
      <4>2. OfCore("flat")'
        BY <1>7, <2>10, <4>1 DEF OfCore
      <4> QED BY <4>2, CoreOnly DEF CoreNames, Fact
    <3>4. Fact("whole")'
      <4>1. OfFiles("whole")
        BY <1>3 DEF Holds, Fact
      <4>2. OfFiles("whole")'
        BY <1>1, <2>10, <4>1 DEF OfFiles, Whole
      <4> QED BY <4>2 DEF Fact, OfCore, OfRead, OfTests, OfBoard
    <3> QED BY <1>7, <2>14, <3>1, <3>2, <3>3, <3>4 DEF Holds
  <2>16. /\ Call("pop") \in Calls /\ Call("pop").op = "pop"
         /\ Call("halt") \in Calls /\ Call("halt").op = "halt"
         /\ Call("test") \in Calls /\ Call("test").op = "test"
    BY CallsAre DEF OpNames
  <2>17. PICK Q : Q = [P EXCEPT !.live = FALSE]
    OBVIOUS
  <2>18. ~Q.live
    BY <2>13, <2>17 DEF Assert
  <2>19. Triple(Aim', P, <<Call("pop")>>, P)
    <3>1. Step(Aim', P, Call("pop"), P)
      BY <2>14, <2>16 DEF Step, Same
    <3> QED BY <2>16, <3>1, TripleOne
  <2>20. Triple(Aim', P, <<Call("halt")>>, P)
    <3>1. Step(Aim', P, Call("halt"), P)
      BY <2>14, <2>16 DEF Step, HaltRule
    <3> QED BY <2>16, <3>1, TripleOne
  <2>21. Triple(Aim', P, <<Call("test")>>, Q)
    <3>1. Aim'.tool = "runner" /\ Safe("runner") = {"quiet"}
      BY <1>10, <2>10 DEF Aim, Safe
    <3>2. Step(Aim', P, Call("test"), Q)
      BY <2>14, <2>16, <2>18, <3>1 DEF Step
    <3> QED BY <2>16, <3>2, TripleOne
  <2>22. Triple(Aim', P, <<Call("pop")>> \o (<<Call("halt")>> \o <<Call("test")>>), Q)
    BY <2>19, <2>20, <2>21, TripleThen
  <2>23. <<Call("pop")>> \o (<<Call("halt")>> \o <<Call("test")>>) = todo'
    BY <2>1, Threes
  <2>24. Going'
    BY <2>14, <2>15, <2>18, <2>22, <2>23, GoAfresh
  <2>25. Typed' /\ Posting'
    <3>1. todo' \in Seq(Calls)
      BY <2>22, <2>23 DEF Triple
    <3>2. Typed'
      BY <1>1, <1>7, <1>8, <2>10, <3>1 DEF CardInv, Typed
    <3> QED BY <1>7, <3>2, NotPosting
  <2> QED BY <1>8, <2>12, <2>24, <2>25 DEF CardInv
<1> QED BY <1>9, <1>10

LEMMA JudgeInv == ASSUME CardInv, Judge PROVE CardInv'
<1>1. /\ Is("judge") /\ todo # <<>> /\ ~Is("write") /\ Then(<<>>)
      /\ UNCHANGED <<board, dev, mem, files, uses>>
  BY DEF Judge, Is
<1>2. PICK A, M, B : Turn(A, M, B)
  BY <1>1, TurnOf DEF CardInv
<1>3. /\ {"listed", "current", "popped"} \subseteq A.is /\ Same(A, M, {"current"}, {})
      /\ Holds(A)
  BY <1>1, <1>2 DEF Turn, Step, Is, Aim
<1>4. OfTests("listed") /\ OfTests("current") /\ OfTests("popped")
  BY <1>3 DEF Holds, Fact
<1>5. Judged < Len(host.tests) /\ host.image = host.tests[Judged + 1]
  BY <1>4 DEF OfTests
<1>6. host \in Hosts /\ UartOurs /\ host.results \in Verdicts
  BY DEF CardInv, Typed, Rest, Hosts
<1>7. host.image \in Names
  <2>1. host.tests \in Seq(Names) /\ Len(host.results) \in Nat
    BY <1>6 DEF Hosts, Verdicts
  <2> QED BY <1>5, <2>1 DEF Judged
<1>8. PICK p : p = Images[host.image].prints
  OBVIOUS
<1>9. PICK w \in Hows :
        /\ host' = [host EXCEPT !.results = Append(host.results, Result(w))]
        /\ w = "uart" => host.uart # [k \in 1..p |-> host.image]
  <2>1. PICK w : w = IF p > 0 /\ host.uart # [k \in 1..p |-> host.image] THEN "uart" ELSE "ok"
    OBVIOUS
  <2>2. w \in Hows
    BY <2>1 DEF Hows
  <2>3. host' = [host EXCEPT !.results = Append(host.results, Result(w))]
    BY <1>8, <2>1 DEF Judge
  <2> QED BY <2>1, <2>2, <2>3
<1>10. PICK r : r = Append(host.results, Result(w))
  OBVIOUS
<1>11. r = Append(host.results, [test |-> host.tests[Judged + 1], how |-> w])
       /\ r \in Verdicts
  BY <1>5, <1>6, <1>7, <1>10, VerdictAdd DEF Result
<1>12. But(host, host', {"results"}) /\ host'.results = r
  <2>1. \A v \in Verdicts : \A h2 : h2 = [host EXCEPT !.results = v] =>
          But(host, h2, {"results"}) /\ h2.results = v
    BY <1>6, HostBut
  <2>2. host' = [host EXCEPT !.results = r] /\ r \in Verdicts
    BY <1>9, <1>10, <1>11
  <2> QED BY <2>1, <2>2
<1>13. /\ host'.tool = host.tool /\ host'.want = host.want /\ host'.image = host.image
       /\ host'.input = host.input /\ host'.limit = host.limit /\ host'.dir = host.dir
       /\ host'.tests = host.tests /\ host'.got = host.got
       /\ host'.uart = host.uart /\ host'.started = host.started
       /\ host'.mapped = host.mapped /\ host'.code = host.code /\ host' \in Hosts
       /\ host'.ours = host.ours
  BY <1>12 DEF But
\* Sane, the output is all there was: it differs only if some was dropped.
<1>14. w = "uart" /\ host.tool = "runner" /\ ~host.mapped
         /\ (Images[host.image].dram => board.bit = "good") => p > UartDepth
  <2> SUFFICES ASSUME w = "uart", host.tool = "runner", ~host.mapped,
                      Images[host.image].dram => board.bit = "good"
               PROVE  p > UartDepth
    OBVIOUS
  <2>1. Sane
    BY <1>7, CardAssumption DEF Sane, Open
  <2>2. host.uart = Bytes(p)
    BY <1>4, <1>8, <2>1 DEF OfTests
  <2>3. p \in Nat /\ UartDepth \in Nat
    BY <1>7, <1>8, CardAssumption DEF ImageType
  <2>4. Least(p, UartDepth) # p
    BY <1>9, <2>2 DEF Bytes
  <2> QED BY <2>3, <2>4 DEF Least
<1>15. OfTests("listed")' /\ UartOurs'
  <2>1. LET i == Images[host.tests[Judged + 1]]
        IN  w = "uart" /\ host.tool = "runner" /\ ~host.mapped
              /\ (i.dram => board.bit = "good") => i.prints > UartDepth
    BY <1>5, <1>8, <1>14
  <2> QED BY <1>1, <1>4, <1>5, <1>6, <1>11, <1>12, <1>13, <2>1, ResultAdd
<1>16. /\ (Sane' <=> Sane) /\ (Open' <=> Open) /\ Aim' = Aim /\ Answer' = Answer
       /\ \A f : /\ OfFiles(f) => OfFiles(f)'
                 /\ OfBoard(f) => OfBoard(f)'
       /\ (RunsRight' <=> RunsRight)
  <2>1. UNCHANGED <<board, files>> /\ UNCHANGED <<dev, mem>>
    BY <1>1
  <2> QED BY <1>13, <2>1, HostFrame
<1>17. \A f \in M.is : Fact(f)'
  <2> SUFFICES ASSUME NEW f \in M.is PROVE Fact(f)'
    OBVIOUS
  <2>1. f \in A.is /\ f # "current"
    BY <1>3 DEF Same
  <2>2. Fact(f)
    BY <1>3, <2>1 DEF Holds
  <2>3. OfCore(f)'
    BY <1>1, <1>13, <1>16, <2>2 DEF Fact, OfCore
  <2>4. OfRead(f)'
    BY <1>13, <1>16, <2>2 DEF Fact, OfRead
  <2>5. OfTests(f)'
    <3>1. f # "unjudged"
      BY <1>7, <2>2, CardAssumption DEF Fact, OfTests
    <3>2. f # "counted"
      <4>1. host.tests \in Seq(Names) /\ Len(host.results) \in Nat
        BY <1>6 DEF Hosts, Verdicts
      <4> QED BY <1>5, <2>2, <4>1 DEF Fact, OfTests, Judged
    <3>3. CASE f = "popped"
      <4>1. Bytes(Images[host.image].prints)' = Bytes(Images[host.image].prints)
        BY <1>13 DEF Bytes
      <4> QED BY <1>4, <1>13, <1>16, <3>3, <4>1 DEF OfTests
    <3>4. CASE f = "listed"
      BY <1>15, <3>4
    <3>5. CASE f \notin {"listed", "popped"}
      BY <2>1, <3>1, <3>2, <3>5 DEF OfTests
    <3> QED BY <3>3, <3>4, <3>5
  <2> QED BY <1>16, <2>2, <2>3, <2>4, <2>5 DEF Fact
<1>18. Holds(M)'
  <2>1. Sane' => \A c \in M.mem : Cell(c)'
    BY <1>1, <1>3, <1>16 DEF Holds, Same, Cell
  <2>2. M.is \cap {"noeot", "nouart"} \subseteq A.is \cap {"noeot", "nouart"}
    BY <1>3 DEF Same
  <2> QED BY <1>1, <1>3, <1>16, <1>17, <2>1, <2>2 DEF Holds, Same
<1>19. Rest'
  <2>1. \A d : Whole(d) => Whole(d)'
    BY <1>1 DEF Whole
  <2> QED BY <1>13, <1>15, <2>1 DEF CardInv, Rest
<1>20. Registers' /\ dev' \in Devices /\ MemOK' /\ dev'.posted = 0 /\ board' \in Boards
  BY <1>1 DEF CardInv, Registers, Posting, Typed, MemOK
<1>21. M.live
  BY <1>3 DEF Same
<1> QED BY <1>1, <1>2, <1>13, <1>16, <1>18, <1>19, <1>20, <1>21, ToolStep

LEMMA SummaryInv == ASSUME CardInv, Summary PROVE CardInv'
<1>1. /\ Is("test") /\ todo # <<>> /\ ~Is("write") /\ Judged = Len(host.tests)
      /\ UNCHANGED <<board, dev, mem, files, uses>>
  BY DEF Summary, Is
<1>2. PICK A, M, B : Turn(A, M, B)
  BY <1>1, TurnOf DEF CardInv
<1>3. /\ host.tool = "runner" /\ "listed" \in A.is /\ Holds(A)
      /\ {"whole"} \cup Safe(host.tool) \subseteq A.is
  BY <1>1, <1>2 DEF Turn, Step, Is, Aim
<1>4. PICK c : c = IF \A k \in DOMAIN host.results :
                        host.results[k].how \in {"ok", "skipped"} THEN 0 ELSE 1
  OBVIOUS
<1>5. Exit(c) /\ c \in 0..2
  BY <1>4 DEF Summary
<1>6. CASE c # 0
  <2>1. c \in 1..2
    BY <1>5, <1>6
  <2> QED BY <1>1, <1>2, <1>3, <1>5, <2>1, ExitInv
<1>7. CASE c = 0
  <2>1. host' = [host EXCEPT !.code = c] /\ todo' = <<>> /\ todo' \in Seq(Calls)
    BY <1>5 DEF Exit
  <2>2. /\ Typed' /\ Registers' /\ Posting' /\ Rest'
        /\ \A f : Fact(f) => Fact(f)'
    BY <1>1, <1>5, <2>1, ExitKeeps
  <2>3. host'.code = 0 /\ host'.tool = "runner"
    BY <1>3, <1>5, <1>7, <2>1, HostCode DEF CardInv, Typed
  <2>4. \A k \in DOMAIN host.results : host.results[k].how \in {"ok", "skipped"}
    BY <1>4, <1>7
  <2>5. Fact("counted")
    <3>1. host.results \in Verdicts /\ host.tests \in Seq(Names)
      BY DEF CardInv, Typed, Hosts
    <3>2. Fact("listed")
      BY <1>3 DEF Holds
    <3>3. \A k \in 1..Len(host.tests) : host.results[k].test = host.tests[k]
      BY <1>1, <3>2 DEF Fact, OfTests
    <3>4. ASSUME NEW k \in DOMAIN host.tests
          PROVE  host.results[k] \in [test : {host.tests[k]}, how : {"ok", "skipped"}]
      <4>1. k \in DOMAIN host.results /\ k \in 1..Len(host.tests)
        BY <1>1, <3>1 DEF Verdicts, Judged
      <4>2. host.results[k] \in [test : Names, how : Hows]
        <5>1. PICK R : R = [test : Names, how : Hows]
          OBVIOUS
        <5>2. host.results \in Seq(R)
          BY <3>1, <5>1 DEF Verdicts, Hows
        <5>3. host.results[k] \in R
          BY <4>1, <5>2
        <5> QED BY <5>1, <5>3
      <4>3. host.results[k].test \in {host.tests[k]} /\ host.results[k].how \in {"ok", "skipped"}
        BY <2>4, <3>3, <4>1
      <4> QED BY <4>2, <4>3
    <3>5. OfTests("counted")
      BY <1>1, <3>4 DEF OfTests
    <3> QED BY <3>5 DEF Fact, OfCore, OfRead, OfFiles, OfBoard
  <2>6. Going'
    <3>1. Goal(host'.tool, host'.code) = {"whole"} \cup Safe("runner") \cup {"counted"}
      BY <2>3 DEF Goal
    <3>2. \A f \in {"whole"} \cup Safe("runner") \cup {"counted"} : Fact(f)
      BY <1>3, <2>5 DEF Holds
    <3> QED BY <2>1, <2>2, <3>1, <3>2, GoStop
  <2> QED BY <2>2, <2>6 DEF CardInv
<1> QED BY <1>6, <1>7
-----------------------------------------------------------------------------
(* The lists of calls that tools share, with what they need and leave.  A  *)
(* lemma weakens its result to what the next call needs.                   *)

LEMMA AssertIs ==
  ASSUME NEW I, NEW C, NEW W
  PROVE  /\ Assert(I, C, W).is = I /\ Assert(I, C, W).mem = C /\ Assert(I, C, W).win = W
         /\ Assert(I, C, W).live
BY DEF Assert

LEMMA TripleTwo ==
  ASSUME NEW aim, NEW a \in Calls, NEW b \in Calls, NEW A0, NEW A1, NEW A2,
         Step(aim, A0, a, A1), Step(aim, A1, b, A2)
  PROVE  Triple(aim, A0, <<a, b>>, A2)
<1> DEFINE c == <<a, b>>
           N == <<A0, A1, A2>>
<1>1. N[1] = A0 /\ N[Len(c) + 1] = A2 /\ c \in Seq(Calls) /\ Len(c) = 2
  OBVIOUS
<1>2. \A k \in 1..2 : k = 1 \/ k = 2
  OBVIOUS
<1>3. \A k \in 1..Len(c) : Step(aim, N[k], c[k], N[k + 1])
  BY <1>1, <1>2
<1> QED BY <1>1, <1>3 DEF Triple

LEMMA TripleThree ==
  ASSUME NEW aim, NEW a \in Calls, NEW b \in Calls, NEW c \in Calls,
         NEW A0, NEW A1, NEW A2, NEW A3,
         Step(aim, A0, a, A1), Step(aim, A1, b, A2), Step(aim, A2, c, A3)
  PROVE  Triple(aim, A0, <<a, b, c>>, A3)
<1> DEFINE s == <<a, b, c>>
           N == <<A0, A1, A2, A3>>
<1>1. N[1] = A0 /\ N[Len(s) + 1] = A3 /\ s \in Seq(Calls) /\ Len(s) = 3
  OBVIOUS
<1>2. \A k \in 1..3 : k = 1 \/ k = 2 \/ k = 3
  OBVIOUS
<1>3. \A k \in 1..Len(s) : Step(aim, N[k], s[k], N[k + 1])
  BY <1>1, <1>2
<1> QED BY <1>1, <1>3 DEF Triple

LEMMA TripleFour ==
  ASSUME NEW aim, NEW a \in Calls, NEW b \in Calls, NEW c \in Calls, NEW d \in Calls,
         NEW A0, NEW A1, NEW A2, NEW A3, NEW A4,
         Step(aim, A0, a, A1), Step(aim, A1, b, A2), Step(aim, A2, c, A3),
         Step(aim, A3, d, A4)
  PROVE  Triple(aim, A0, <<a, b, c, d>>, A4)
<1> DEFINE s == <<a, b, c, d>>
           N == <<A0, A1, A2, A3, A4>>
<1>1. N[1] = A0 /\ N[Len(s) + 1] = A4 /\ s \in Seq(Calls) /\ Len(s) = 4
  OBVIOUS
<1>2. \A k \in 1..4 : k = 1 \/ k = 2 \/ k = 3 \/ k = 4
  OBVIOUS
<1>3. \A k \in 1..Len(s) : Step(aim, N[k], s[k], N[k + 1])
  BY <1>1, <1>2
<1> QED BY <1>1, <1>3 DEF Triple

LEMMA TripleFive ==
  ASSUME NEW aim, NEW a \in Calls, NEW b \in Calls, NEW c \in Calls, NEW d \in Calls,
         NEW e \in Calls,
         NEW A0, NEW A1, NEW A2, NEW A3, NEW A4, NEW A5,
         Step(aim, A0, a, A1), Step(aim, A1, b, A2), Step(aim, A2, c, A3),
         Step(aim, A3, d, A4), Step(aim, A4, e, A5)
  PROVE  Triple(aim, A0, <<a, b, c, d, e>>, A5)
<1> DEFINE s == <<a, b, c, d, e>>
           N == <<A0, A1, A2, A3, A4, A5>>
<1>1. N[1] = A0 /\ N[Len(s) + 1] = A5 /\ s \in Seq(Calls) /\ Len(s) = 5
  OBVIOUS
<1>2. \A k \in 1..5 : k = 1 \/ k = 2 \/ k = 3 \/ k = 4 \/ k = 5
  OBVIOUS
<1>3. \A k \in 1..Len(s) : Step(aim, N[k], s[k], N[k + 1])
  BY <1>1, <1>2
<1> QED BY <1>1, <1>3 DEF Triple

LEMMA WordsAre ==
  ASSUME NEW i \in Names \cup {"zero", "input", "none"}, NEW n \in Nat
  PROVE  Word(i, n) \in Values
BY DEF Word, Values

LEMMA PutIs ==
  ASSUME NEW m \in {"iccm", "dccm"}, NEW w \in Values, NEW at \in Nat, NEW n \in Nat
  PROVE  /\ Put(m, w, at, n) \in Calls /\ Put(m, w, at, n).op = "write"
         /\ Put(m, w, at, n).mem = m /\ Put(m, w, at, n).word = w
         /\ Put(m, w, at, n).at = at /\ Put(m, w, at, n).n = n
BY DEF Put, Calls, OpNames

LEMMA WindowIs ==
  /\ \A at \in Nat : /\ Window(at) \in Calls /\ Window(at).op = "window"
                     /\ Window(at).at = at /\ Window(at).n = 1
  /\ NoWindow \in Calls /\ NoWindow.op = "window" /\ NoWindow.at = 0 /\ NoWindow.n = 0
BY DEF Window, NoWindow, Call, Calls, OpNames, Blank, Word, Values

LEMMA GuardStep ==
  ASSUME NEW aim, NEW I, NEW C, NEW W, {"whole", "still"} \subseteq I
  PROVE  /\ Call("guard") \in Calls
         /\ Step(aim, Assert(I, C, W), Call("guard"), Assert(I, C, W))
<1>1. Call("guard") \in Calls /\ Call("guard").op = "guard"
  BY CallsAre DEF OpNames
<1> QED BY <1>1, AssertIs DEF Step, Same

LEMMA WriteStep ==
  ASSUME NEW aim, NEW I, NEW C, NEW D, NEW W, {"whole", "still"} \subseteq I,
         NEW m \in {"iccm", "dccm"}, NEW w \in Values, NEW at \in Nat, NEW n \in Nat,
         at < n, n <= Words, m = "iccm" \/ "flat" \in I,
         D \subseteq Wrote(C, m, at, n - 1, w)
  PROVE  Step(aim, Assert(I, C, W), Put(m, w, at, n), Assert(I, D, W))
<1> DEFINE A == Assert(I, C, W)
           M == Assert(I, D, W)
           x == Put(m, w, at, n)
<1>1. /\ A.is = I /\ A.mem = C /\ A.win = W /\ A.live
      /\ M.is = I /\ M.mem = D /\ M.win = W /\ M.live
  BY AssertIs
<1>2. /\ x \in Calls /\ x.op = "write" /\ x.mem = m /\ x.word = w
      /\ x.at = at /\ x.n = n
  BY PutIs
<1> HIDE DEF A, M, x
<1>3. WriteRule(A, x, M)
  BY <1>1, <1>2 DEF WriteRule
<1>4. Step(aim, A, x, M)
  BY <1>1, <1>2, <1>3 DEF Step
<1> QED BY <1>4 DEF A, M, x

LEMMA LoadTriple ==
  ASSUME NEW aim, NEW I, NEW C, NEW D, NEW W, {"whole", "still"} \subseteq I,
         NEW m \in {"iccm", "dccm"}, NEW i \in Names \cup {"none"},
         m = "iccm" \/ "flat" \in I,
         D \subseteq Wrote(C, m, 0, Words - 1, Word(i, 0))
  PROVE  Triple(aim, Assert(I, C, W), LoadMem(m, i), Assert(I, D, W))
<1>1. Word(i, 0) \in Values /\ Words \in Nat /\ 0 \in Nat /\ 0 < Words /\ Words <= Words
  BY WordsAre, Sizes
<1>2. Put(m, Word(i, 0), 0, Words) \in Calls
  BY <1>1, PutIs
<1>3. Step(aim, Assert(I, C, W), Put(m, Word(i, 0), 0, Words), Assert(I, D, W))
  BY <1>1, WriteStep, Zenon
<1>4. /\ Call("guard") \in Calls
      /\ Step(aim, Assert(I, C, W), Call("guard"), Assert(I, C, W))
  BY GuardStep
<1> QED BY <1>2, <1>3, <1>4, TripleTwo DEF LoadMem

LEMMA ZeroTriple ==
  ASSUME NEW aim, NEW I, NEW C, NEW D, NEW W, {"whole", "still"} \subseteq I,
         NEW m \in {"iccm", "dccm"}, m = "iccm" \/ "flat" \in I,
         D \subseteq Wrote(C, m, 0, Words - 1, Blank)
  PROVE  Triple(aim, Assert(I, C, W), Zero(m), Assert(I, D, W))
<1>1. Blank \in Values /\ Words \in Nat /\ 0 \in Nat /\ 0 < Words /\ Words <= Words
  BY WordsAre, Sizes DEF Blank
<1>2. Put(m, Blank, 0, Words) \in Calls
  BY <1>1, PutIs
<1>3. Step(aim, Assert(I, C, W), Put(m, Blank, 0, Words), Assert(I, D, W))
  BY <1>1, WriteStep, Zenon
<1> QED BY <1>2, <1>3, TripleOne DEF Zero

LEMMA DramTriple ==
  ASSUME NEW aim, NEW I, NEW C, NEW D, NEW W, {"whole", "still", "good"} \subseteq I,
         NEW i \in Names \cup {"none"},
         D \subseteq {c \in C : c[1] # "dram"} \cup Part("dram", Range0("dram"), Word(i, 0))
  PROVE  Triple(aim, Assert(I, C, W), LoadDram(i), Assert(I \cup {"flat", "shut"}, D, {}))
<1> DEFINE A == Assert(I, C, W)
           M == Assert(I \cup {"flat", "shut"}, D, {})
           x == [Call("fill") EXCEPT !.word = Word(i, 0)]
<1>1. /\ A.is = I /\ A.mem = C /\ A.win = W /\ A.live
      /\ M.is = I \cup {"flat", "shut"} /\ M.mem = D /\ M.win = {} /\ M.live
  BY AssertIs
<1>2. x \in Calls /\ x.op = "fill" /\ x.at = 0 /\ x.word = Word(i, 0)
  <2>1. Word(i, 0) \in Values
    BY WordsAre
  <2> QED BY <2>1 DEF Call, Calls, OpNames
<1> HIDE DEF A, M, x
<1>3. 0 \in 0..Windows /\ x.at = 0 * Words
  BY <1>2, Sizes
<1>4. \A a \in Range0("dram") : a >= x.at
  BY <1>2, Sizes DEF Range0
<1>5. M.mem \subseteq {c \in A.mem : c[1] = "dram" => c[2] \in 0..(x.at - 1)}
                        \cup Part("dram", {a \in Range0("dram") : a >= x.at}, x.word)
  BY <1>1, <1>2, <1>4 DEF Part
<1>6. FillRule(A, x, M)
  BY <1>1, <1>3, <1>5 DEF FillRule
<1>7. Step(aim, A, x, M)
  BY <1>1, <1>2, <1>6 DEF Step
<1>8. Call("guard") \in Calls /\ Step(aim, A, Call("guard"), A)
  BY GuardStep DEF A
<1>9. Triple(aim, A, <<Call("guard"), x>>, M)
  BY <1>2, <1>7, <1>8, TripleTwo
<1> QED BY <1>9 DEF A, M, x, LoadDram

\* Ran(I, tool): what is known after run_and_wait_eot.
Ran(I, tool) ==
  (I \ {"still", "quiet", "shut", "noeot", "nouart"}) \cup {"own", "right", "seen"}
    \cup (IF tool \in {"detect", "chunks"} THEN {"shut"} ELSE {})
Kept(C) == {c \in C : Untouched(c)}

LEMMA RunTriple ==
  ASSUME NEW aim, NEW I, NEW C, NEW W, {"whole", "still"} \subseteq I, aim.need \subseteq C,
         aim.tool \in {"detect", "chunks", "runner", "smoke"},
         aim.tool \in {"detect", "chunks"} => "flat" \in I,
         aim.tool = "runner" => {"listed", "current", "flat"} \subseteq I
  PROVE  Triple(aim, Assert(I, C, W), RunWait, Assert(Ran(I, aim.tool), Kept(C), W))
<1> DEFINE R == (I \ {"still", "quiet", "shut", "noeot", "nouart", "seen"})
                  \cup {"own", "right"}
                  \cup (IF aim.tool \in {"detect", "chunks"} THEN {"shut"} ELSE {})
<1>1. PICK A0, A1, A2, A3 :
        /\ A0 = Assert(I, C, W) /\ A1 = Assert(I \cup {"noeot", "nouart"}, C, W)
        /\ A2 = Assert(R, Kept(C), W) /\ A3 = Assert(Ran(I, aim.tool), Kept(C), W)
  OBVIOUS
<1>2. /\ A0.is = I /\ A0.mem = C /\ A0.win = W /\ A0.live
      /\ A1.is = I \cup {"noeot", "nouart"} /\ A1.mem = C /\ A1.win = W /\ A1.live
      /\ A2.is = R /\ A2.mem = Kept(C) /\ A2.win = W /\ A2.live
      /\ A3.is = Ran(I, aim.tool) /\ A3.mem = Kept(C) /\ A3.win = W /\ A3.live
  BY <1>1, AssertIs
<1>3. /\ Call("clear") \in Calls /\ Call("clear").op = "clear"
      /\ Call("run") \in Calls /\ Call("run").op = "run"
      /\ Call("wait") \in Calls /\ Call("wait").op = "wait"
  BY CallsAre DEF OpNames
<1>4. Step(aim, A0, Call("clear"), A1)
  BY <1>2, <1>3 DEF Step, Same
<1>5. Step(aim, A1, Call("run"), A2)
  <2>1. RunRule(aim.tool, aim.need, A1, A2)
    BY <1>2 DEF RunRule, Kept
  <2> QED BY <1>2, <1>3, <2>1 DEF Step
<1>6. Step(aim, A2, Call("wait"), A3)
  <2>1. Safe(aim.tool) \ {"quiet"} \subseteq A2.is
    BY <1>2 DEF Safe
  <2>2. Same(A2, A3, {}, {"seen"})
    BY <1>2 DEF Same, Ran
  <2> QED BY <1>2, <1>3, <2>1, <2>2 DEF Step
<1> QED BY <1>1, <1>3, <1>4, <1>5, <1>6, TripleThree DEF RunWait

LEMMA HaltTriple ==
  ASSUME NEW aim, NEW I, NEW C, NEW D, NEW J, NEW W, "whole" \in I,
         J \subseteq (I \ {"right", "seen"}) \cup {"still", "quiet"},
         D \subseteq C \cup (IF aim.tool = "detect" /\ {"right", "seen"} \subseteq I
                             THEN Part("dram", ResultAt, aim.answer) ELSE {})
  PROVE  /\ Call("halt") \in Calls
         /\ Step(aim, Assert(I, C, W), Call("halt"), Assert(J, D, W))
         /\ Triple(aim, Assert(I, C, W), Halt, Assert(J, D, W))
<1>1. PICK A0, A1 : A0 = Assert(I, C, W) /\ A1 = Assert(J, D, W)
  OBVIOUS
<1>2. /\ A0.is = I /\ A0.mem = C /\ A0.win = W /\ A0.live
      /\ A1.is = J /\ A1.mem = D /\ A1.win = W /\ A1.live
  BY <1>1, AssertIs
<1>3. Call("halt") \in Calls /\ Call("halt").op = "halt"
  BY CallsAre DEF OpNames
<1>4. HaltRule(aim.tool, aim.answer, A0, A1)
  BY <1>2 DEF HaltRule
<1>5. Step(aim, A0, Call("halt"), A1)
  BY <1>2, <1>3, <1>4 DEF Step
<1> QED BY <1>1, <1>3, <1>5, TripleOne DEF Halt
-----------------------------------------------------------------------------
(* The calls that make others of themselves.                               *)

\* A bitstream image in memory, with one word for all of each.
Image0(i) ==
  Part("iccm", Range0("iccm"), Word(i, 0)) \cup Part("dccm", Range0("dccm"), Word(i, 0))
Dram0(i) == Part("dram", Range0("dram"), Word(i, 0))

LEMMA LoadBoth ==
  ASSUME NEW aim, NEW I, {"whole", "still", "flat"} \subseteq I, NEW i \in Names \cup {"none"}
  PROVE  Triple(aim, Assert(I, {}, {}), LoadMem("iccm", i) \o LoadMem("dccm", i),
                Assert(I, Image0(i), {}))
<1> DEFINE D1 == Part("iccm", Range0("iccm"), Word(i, 0))
<1>1. Range0("iccm") = 0..(Words - 1) /\ Range0("dccm") = 0..(Words - 1)
  BY Sizes DEF Range0
<1>2. D1 \subseteq Wrote({}, "iccm", 0, Words - 1, Word(i, 0))
  BY <1>1 DEF Wrote
<1>3. Image0(i) \subseteq Wrote(D1, "dccm", 0, Words - 1, Word(i, 0))
  <2>1. \A c \in D1 : c[1] = "iccm"
    BY DEF Part
  <2> QED BY <1>1, <2>1 DEF Wrote, Image0
<1> HIDE DEF D1
<1>4. Triple(aim, Assert(I, {}, {}), LoadMem("iccm", i), Assert(I, D1, {}))
  BY <1>2, LoadTriple
<1>5. Triple(aim, Assert(I, D1, {}), LoadMem("dccm", i), Assert(I, Image0(i), {}))
  BY <1>3, LoadTriple
<1> QED BY <1>4, <1>5, TripleThen

LEMMA ImageHas ==
  ASSUME NEW i
  PROVE  /\ CodeOf(i) \subseteq Image0(i) /\ DataOf(i, 0) \subseteq Image0(i)
         /\ WeightsOf(i) \subseteq Dram0(i)
BY ResultInDram DEF CodeOf, DataOf, WeightsOf, Image0, Dram0, Part

LEMMA RunTestTriple ==
  ASSUME NEW aim, aim.tool = "runner", NEW t \in Names, NEW G, G \subseteq {"good"},
         Images[t].dram => "good" \in G,
         aim.need \subseteq Image0(t) \cup (IF Images[t].dram THEN Dram0(t) ELSE {})
  PROVE  \E B : /\ ~B.live
                /\ Triple(aim, Assert({"whole", "quiet", "listed", "current", "flat"} \cup G,
                                      {}, {}), RunTest(t), B)
<1> DEFINE I0 == {"whole", "quiet", "listed", "current", "flat"} \cup G
           I1 == I0 \cup {"still"}
           Tests == <<Call("pop"), Call("halt"), Call("judge"), Call("test")>>
<1>1. Triple(aim, Assert(I0, {}, {}), Halt, Assert(I1, {}, {}))
  <2>1. "whole" \in I0 /\ I1 \subseteq (I0 \ {"right", "seen"}) \cup {"still", "quiet"}
    OBVIOUS
  <2> HIDE DEF I0, I1
  <2> QED BY <2>1, HaltTriple
<1>2. {"whole", "still", "flat", "quiet", "listed", "current"} \subseteq I1
  OBVIOUS
<1>3. Images[t].dram => "good" \in I1
  OBVIOUS
<1> HIDE DEF I0, I1
<1>4. Triple(aim, Assert(I1, {}, {}), Zero("iccm"), Assert(I1, {}, {}))
  BY <1>2, ZeroTriple
<1>5. Triple(aim, Assert(I1, {}, {}), Zero("dccm"), Assert(I1, {}, {}))
  BY <1>2, ZeroTriple
<1>6. Triple(aim, Assert(I1, {}, {}), LoadMem("iccm", t) \o LoadMem("dccm", t),
             Assert(I1, Image0(t), {}))
  BY <1>2, LoadBoth
<1>7. PICK I2, D : /\ I1 \subseteq I2 /\ aim.need \subseteq D
                   /\ Triple(aim, Assert(I1, {}, {}), Load(t), Assert(I2, D, {}))
  <2>1. CASE Images[t].dram
    <3>1. Image0(t) \cup Dram0(t)
            \subseteq {c \in Image0(t) : c[1] # "dram"}
                        \cup Part("dram", Range0("dram"), Word(t, 0))
      BY DEF Image0, Dram0, Part
    <3>2. {"whole", "still", "good"} \subseteq I1
      BY <1>2, <1>3, <2>1
    <3>3. Triple(aim, Assert(I1, Image0(t), {}), LoadDram(t),
                 Assert(I1 \cup {"flat", "shut"}, Image0(t) \cup Dram0(t), {}))
      BY <3>1, <3>2, DramTriple
    <3>4. Triple(aim, Assert(I1, {}, {}), Load(t),
                 Assert(I1 \cup {"flat", "shut"}, Image0(t) \cup Dram0(t), {}))
      BY <1>6, <2>1, <3>3, TripleThen DEF Load
    <3>5. I1 \subseteq I1 \cup {"flat", "shut"} /\ aim.need \subseteq Image0(t) \cup Dram0(t)
      BY <2>1
    <3> QED BY <3>4, <3>5
  <2>2. CASE ~Images[t].dram
    <3>1. Triple(aim, Assert(I1, Image0(t), {}), <<>>, Assert(I1, Image0(t), {}))
      BY TripleNil
    <3>2. Triple(aim, Assert(I1, {}, {}), Load(t), Assert(I1, Image0(t), {}))
      BY <1>6, <2>2, <3>1, TripleThen DEF Load
    <3>3. I1 \subseteq I1 /\ aim.need \subseteq Image0(t)
      BY <2>2
    <3> QED BY <3>2, <3>3
  <2> QED BY <2>1, <2>2
<1>8. Triple(aim, Assert(I2, D, {}), RunWait, Assert(Ran(I2, "runner"), Kept(D), {}))
  <2>1. {"whole", "still"} \subseteq I2 /\ {"listed", "current", "flat"} \subseteq I2
    BY <1>2, <1>7
  <2>2. Triple(aim, Assert(I2, D, {}), RunWait, Assert(Ran(I2, aim.tool), Kept(D), {}))
    BY <1>7, <2>1, RunTriple
  <2> QED BY <2>2
<1>9. \E B : ~B.live /\ Triple(aim, Assert(Ran(I2, "runner"), Kept(D), {}), Tests, B)
  <2>1. PICK A0, A1, A2, A3, A4 :
          /\ A0 = Assert(Ran(I2, "runner"), Kept(D), {})
          /\ A1 = Assert({"whole", "listed", "current", "flat", "popped"}, {}, {})
          /\ A2 = Assert({"whole", "listed", "current", "flat", "popped", "quiet"}, {}, {})
          /\ A3 = Assert({"whole", "listed", "flat", "popped", "quiet"}, {}, {})
          /\ A4 = [live |-> FALSE]
    OBVIOUS
  <2>2. /\ A0.is = Ran(I2, "runner") /\ A0.mem = Kept(D) /\ A0.win = {} /\ A0.live
        /\ A1.is = {"whole", "listed", "current", "flat", "popped"} /\ A1.mem = {}
        /\ A1.win = {} /\ A1.live
        /\ A2.is = {"whole", "listed", "current", "flat", "popped", "quiet"} /\ A2.mem = {}
        /\ A2.win = {} /\ A2.live
        /\ A3.is = {"whole", "listed", "flat", "popped", "quiet"} /\ A3.mem = {}
        /\ A3.win = {} /\ A3.live
        /\ ~A4.live
    BY <2>1, AssertIs
  <2>3. /\ Call("pop") \in Calls /\ Call("pop").op = "pop"
        /\ Call("halt") \in Calls /\ Call("halt").op = "halt"
        /\ Call("judge") \in Calls /\ Call("judge").op = "judge"
        /\ Call("test") \in Calls /\ Call("test").op = "test"
    BY CallsAre DEF OpNames
  <2>4. {"whole", "listed", "current", "flat", "right", "seen"} \subseteq Ran(I2, "runner")
    BY <1>2, <1>7 DEF Ran
  <2>5. Step(aim, A0, Call("pop"), A1)
    BY <2>2, <2>3, <2>4 DEF Step, Same
  <2>6. Step(aim, A1, Call("halt"), A2)
    BY <2>2, <2>3 DEF Step, HaltRule
  <2>7. Step(aim, A2, Call("judge"), A3)
    BY <2>2, <2>3 DEF Step, Same
  <2>8. Step(aim, A3, Call("test"), A4)
    <3>1. Safe("runner") = {"quiet"}
      BY DEF Safe
    <3> QED BY <2>2, <2>3, <3>1 DEF Step
  <2>9. Triple(aim, A0, Tests, A4)
    BY <2>3, <2>5, <2>6, <2>7, <2>8, TripleFour
  <2> QED BY <2>1, <2>2, <2>9
<1>10. PICK B : ~B.live /\ Triple(aim, Assert(Ran(I2, "runner"), Kept(D), {}), Tests, B)
  BY <1>9
<1> HIDE DEF Tests
<1>11. Triple(aim, Assert(I0, {}, {}), Halt \o Zero("iccm"), Assert(I1, {}, {}))
  BY <1>1, <1>4, TripleThen
<1>12. Triple(aim, Assert(I0, {}, {}), Halt \o Zero("iccm") \o Zero("dccm"), Assert(I1, {}, {}))
  BY <1>5, <1>11, TripleThen
<1>13. Triple(aim, Assert(I0, {}, {}), Halt \o Zero("iccm") \o Zero("dccm") \o Load(t),
              Assert(I2, D, {}))
  BY <1>7, <1>12, TripleThen
<1>14. Triple(aim, Assert(I0, {}, {}),
              Halt \o Zero("iccm") \o Zero("dccm") \o Load(t) \o RunWait,
              Assert(Ran(I2, "runner"), Kept(D), {}))
  BY <1>8, <1>13, TripleThen
<1>15. Triple(aim, Assert(I0, {}, {}),
              Halt \o Zero("iccm") \o Zero("dccm") \o Load(t) \o RunWait \o Tests, B)
  BY <1>10, <1>14, TripleThen
<1> QED BY <1>10, <1>15 DEF I0, Tests, RunTest

LEMMA LastCall ==
  ASSUME NEW A, NEW M, NEW B, Turn(A, M, B), ~M.live
  PROVE  Tail(todo) = <<>> /\ todo = <<Top>>
<1>1. Tail(todo) = <<>>
  <2> SUFFICES ASSUME Tail(todo) # <<>> PROVE FALSE
    OBVIOUS
  <2>1. \E X : Step(Aim, M, Tail(todo)[1], X)
    BY TripleFirst DEF Turn
  <2> QED BY <2>1 DEF Step
<1>2. todo \in Seq(Calls) /\ todo # <<>>
  BY DEF Turn
<1>3. Len(todo) = 1
  <2>1. Len(todo) \in Nat /\ Len(todo) >= 1 /\ Len(Tail(todo)) = Len(todo) - 1
    BY <1>2
  <2>2. Len(Tail(todo)) = 0
    <3>1. \A s : s = <<>> => Len(s) = 0
      OBVIOUS
    <3> QED BY <1>1, <3>1
  <2> QED BY <2>1, <2>2
<1>4. <<Top>> \in Seq(Calls) /\ Len(<<Top>>) = 1 /\ <<Top>>[1] = todo[1]
  BY DEF Turn, Top
<1>5. \A k \in 1..1 : todo[k] = <<Top>>[k]
  BY <1>4
<1>6. todo = <<Top>>
  BY <1>2, <1>3, <1>4, <1>5, SeqEqual
<1> QED BY <1>1, <1>6

LEMMA ThenLast ==
  ASSUME Tail(todo) = <<>>, NEW c \in Seq(Calls), Then(c)
  PROVE  todo' = c
<1>1. c \o <<>> = c
  BY EmptySeq, ConcatEmptySeq
<1> QED BY <1>1 DEF Then

LEMMA PrepareTestInv == ASSUME CardInv, PrepareTest PROVE CardInv'
<1>1. /\ Is("test") /\ todo # <<>> /\ ~Is("write") /\ Judged < Len(host.tests)
      /\ UNCHANGED <<board, dev, mem, files, uses>>
  BY DEF PrepareTest, Is
<1>2. PICK A, M, B : Turn(A, M, B)
  BY <1>1, TurnOf DEF CardInv
<1>3. /\ host.tool = "runner" /\ {"listed", "flat"} \subseteq A.is /\ ~M.live /\ Holds(A)
      /\ {"whole"} \cup Safe(host.tool) \subseteq A.is
      /\ Top \in Calls /\ Top.op = "test"
  BY <1>1, <1>2 DEF Turn, Step, Is, Aim
<1>4. {"whole", "quiet", "listed", "flat"} \subseteq A.is
  BY <1>3 DEF Safe
<1>5. Tail(todo) = <<>> /\ todo = <<Top>>
  BY <1>2, <1>3, LastCall
<1>6. PICK t : t = host.tests[Judged + 1]
  OBVIOUS
<1>7. host \in Hosts /\ UartOurs /\ host.results \in Verdicts
  BY DEF CardInv, Typed, Rest, Hosts
<1>8. t \in Names
  <2>1. host.tests \in Seq(Names) /\ Len(host.results) \in Nat
    BY <1>7 DEF Hosts, Verdicts
  <2> QED BY <1>1, <1>6, <2>1 DEF Judged
\* What of it holds once `image' is the test.
<1>9. ASSUME host'.tool = host.tool, host'.dir = host.dir, host'.started = host.started,
             host'.mapped = host.mapped
      PROVE  Fact("whole")' /\ Fact("quiet")' /\ Fact("flat")'
  <2>1. Fact("whole") /\ Fact("quiet") /\ Fact("flat")
    BY <1>3, <1>4 DEF Holds
  <2>2. OfFiles("whole")'
    BY <1>1, <1>9, <2>1 DEF Fact, OfFiles, Whole
  <2>3. OfCore("quiet")' /\ OfCore("flat")'
    BY <1>1, <1>9, <2>1 DEF Fact, OfCore
  <2>4. Fact("whole")'
    BY <2>2 DEF Fact, OfCore, OfRead, OfTests, OfBoard
  <2> QED BY <2>3, <2>4, CoreOnly DEF CoreNames, Fact
<1>10. OfTests("listed")
  BY <1>3 DEF Holds, Fact
<1>11. CASE host' = [host EXCEPT !.image = t] /\ Then(RunTest(t))
  <2>1. But(host, host', {"image"}) /\ host'.image = t
    <3>1. t \in Names \cup {"none"}
      BY <1>8
    <3>2. \A v \in Names \cup {"none"} : \A h2 : h2 = [host EXCEPT !.image = v] =>
            But(host, h2, {"image"}) /\ h2.image = v
      BY <1>7, HostBut
    <3> QED BY <1>11, <3>1, <3>2
  <2>2. /\ host'.tool = "runner" /\ host'.tool = host.tool
        /\ host'.want = host.want /\ host'.ours = host.ours
        /\ host'.input = host.input /\ host'.limit = host.limit /\ host'.dir = host.dir
        /\ host'.tests = host.tests /\ host'.results = host.results
        /\ host'.got = host.got /\ host'.started = host.started
        /\ host'.mapped = host.mapped /\ host'.code = host.code /\ host' \in Hosts
    BY <1>3, <2>1 DEF But
  <2>3. PICK G : G = IF Images[t].dram THEN {"good"} ELSE {}
    OBVIOUS
  <2>4. PICK P : P = Assert({"whole", "quiet", "listed", "current", "flat"} \cup G, {}, {})
    OBVIOUS
  <2>5. /\ P.live /\ P.is = {"whole", "quiet", "listed", "current", "flat"} \cup G
        /\ P.mem = {} /\ P.win = {}
    BY <2>4, AssertIs
  <2>6. Fact("listed")' /\ Fact("current")'
    <3>1. OfTests("listed")' /\ OfTests("current")'
      BY <1>1, <1>6, <1>10, <2>1, <2>2 DEF OfTests, Judged
    <3> QED BY <3>1 DEF Fact, OfCore, OfRead, OfFiles, OfBoard
  <2>7. Images[t].dram => Fact("good")'
    <3> HAVE Images[t].dram
    <3>1. Open' => board'.bit = "good"
      BY <2>1, <2>2 DEF Open
    <3> QED BY <3>1 DEF Fact, OfCore, OfRead, OfTests, OfFiles, OfBoard
  <2>8. Holds(P)'
    <3>1. \A f \in P.is : Fact(f)'
      BY <1>9, <2>2, <2>3, <2>5, <2>6, <2>7
    <3>2. P.is \cap {"noeot", "nouart"} = {}
      BY <2>3, <2>5
    <3> QED BY <2>5, <3>1, <3>2 DEF Holds
  <2>9. Aim'.need \subseteq Image0(t) \cup (IF Images[t].dram THEN Dram0(t) ELSE {})
    <3>1. Means(host)' = t
      BY <2>1, <2>2 DEF Means
    <3>2. Need(host)' \subseteq CodeOf(t) \cup DataOf(t, 0)
                                  \cup (IF Images[t].dram THEN WeightsOf(t) ELSE {})
      BY <2>2, <3>1 DEF Need
    <3> QED BY <3>2, ImageHas DEF Aim, Needed
  <2>10. PICK Q : ~Q.live /\ Triple(Aim', P, RunTest(t), Q)
    <3>1. Aim'.tool = "runner" /\ G \subseteq {"good"} /\ (Images[t].dram => "good" \in G)
      BY <2>2, <2>3 DEF Aim
    <3> QED BY <1>8, <2>4, <2>9, <3>1, RunTestTriple
  <2>11. todo' = RunTest(t) /\ todo' \in Seq(Calls)
    <3>1. RunTest(t) \in Seq(Calls)
      BY <2>10 DEF Triple
    <3> QED BY <1>5, <1>11, <3>1, ThenLast
  <2>12. Going'
    BY <2>5, <2>8, <2>10, <2>11, GoAfresh
  <2>13. Typed' /\ Posting'
    <3>1. Typed'
      BY <1>1, <2>2, <2>11 DEF CardInv, Typed, MemOK
    <3> QED BY <1>1, <3>1, NotPosting DEF CardInv, Posting
  <2>14. Rest' /\ Registers'
    <3>1. Rest /\ UNCHANGED <<board, files>> /\ host'.ours
      BY <1>1, <2>2 DEF CardInv, Rest
    <3>2. Rest'
      BY <2>2, <3>1, RestFrame
    <3> QED BY <1>1, <3>2 DEF CardInv, Registers
  <2> QED BY <2>12, <2>13, <2>14 DEF CardInv
<1>12. ASSUME NEW w \in Hows, w # "uart", todo' = todo,
              host' = [host EXCEPT !.image = t,
                                   !.results = Append(@, [test |-> t, how |-> w])]
       PROVE  CardInv'
  <2>1. PICK r : r = Append(host.results, [test |-> t, how |-> w])
    OBVIOUS
  <2>2. r \in Verdicts
    BY <1>7, <1>8, <2>1, VerdictAdd
  <2>3. PICK h : h = [host EXCEPT !.image = t]
    OBVIOUS
  <2>4. But(host, h, {"image"}) /\ h.image = t
    <3>1. t \in Names \cup {"none"}
      BY <1>8
    <3>2. \A v \in Names \cup {"none"} : \A h2 : h2 = [host EXCEPT !.image = v] =>
            But(host, h2, {"image"}) /\ h2.image = v
      BY <1>7, HostBut
    <3> QED BY <2>3, <3>1, <3>2
  <2>5. But(h, host', {"results"}) /\ host'.results = r
    <3>1. h \in Hosts
      BY <2>4 DEF But
    <3>2. \A v \in Verdicts : \A h2 : h2 = [h EXCEPT !.results = v] =>
            But(h, h2, {"results"}) /\ h2.results = v
      BY <3>1, HostBut
    <3>3. host' = [h EXCEPT !.results = r]
      BY <1>12, <2>1, <2>3
    <3> QED BY <2>2, <3>2, <3>3
  <2>6. /\ host'.tool = "runner" /\ host'.tool = host.tool /\ host'.image = t
        /\ host'.want = host.want /\ host'.ours = host.ours
        /\ host'.dir = host.dir /\ host'.tests = host.tests
        /\ host'.got = host.got /\ host'.started = host.started
        /\ host'.mapped = host.mapped /\ host'.code = host.code /\ host' \in Hosts
    BY <1>3, <2>4, <2>5 DEF But
  <2>7. OfTests("listed")' /\ UartOurs'
    <3>1. host'.results = Append(host.results, [test |-> host.tests[Judged + 1], how |-> w])
      BY <1>6, <2>1, <2>5
    <3> QED BY <1>1, <1>7, <1>10, <1>12, <2>6, <3>1, ResultAdd
  <2>8. PICK P : P = Assert({"whole", "quiet", "listed", "flat"}, {}, {})
    OBVIOUS
  <2>9. P.live /\ P.is = {"whole", "quiet", "listed", "flat"} /\ P.mem = {} /\ P.win = {}
    BY <2>8, AssertIs
  <2>10. Holds(P)'
    <3>1. Fact("listed")'
      BY <2>7 DEF Fact, OfCore, OfRead, OfFiles, OfBoard
    <3>2. \A f \in P.is : Fact(f)'
      BY <1>9, <2>6, <2>9, <3>1
    <3> QED BY <2>9, <3>2 DEF Holds
  <2>11. PICK Q : Q = [live |-> FALSE]
    OBVIOUS
  <2>12. Triple(Aim', P, todo', Q)
    <3>1. Aim'.tool = "runner" /\ Safe("runner") = {"quiet"} /\ ~Q.live
      BY <2>6, <2>11 DEF Aim, Safe
    <3>2. Step(Aim', P, Top, Q)
      BY <1>3, <2>9, <3>1 DEF Step
    <3>3. Triple(Aim', P, <<Top>>, Q)
      BY <1>3, <3>2, TripleOne
    <3> QED BY <1>5, <1>12, <3>3
  <2>13. Going'
    BY <2>9, <2>10, <2>11, <2>12, GoAfresh
  <2>14. Typed' /\ Posting'
    <3>1. Typed'
      BY <1>1, <1>12, <2>6 DEF CardInv, Typed, MemOK
    <3> QED BY <1>1, <3>1, NotPosting DEF CardInv, Posting
  <2>15. Rest' /\ Registers'
    <3>1. \A d : Whole(d) => Whole(d)'
      BY <1>1 DEF Whole
    <3>2. Rest'
      BY <2>6, <2>7, <3>1 DEF CardInv, Rest
    <3> QED BY <1>1, <3>2 DEF CardInv, Registers
  <2> QED BY <2>13, <2>14, <2>15 DEF CardInv
<1>13. CASE Exit(1)
  <2>1. 1 \in 1..2
    OBVIOUS
  <2> QED BY <1>1, <1>2, <1>3, <1>13, <2>1, ExitInv
<1>14. {"skipped", "large", "prepare"} \subseteq Hows \ {"uart"}
  BY DEF Hows
<1> QED BY <1>6, <1>11, <1>12, <1>13, <1>14 DEF PrepareTest

LEMMA FillDramInv == ASSUME CardInv, FillDram PROVE CardInv'
<1>1. /\ Is("fill") /\ todo # <<>> /\ ~Is("write")
      /\ UNCHANGED <<board, dev, mem, files, host, uses>>
  BY DEF FillDram, Is
<1>2. PICK A, M, B : Turn(A, M, B)
  BY <1>1, TurnOf DEF CardInv
<1>3. FillRule(A, Top, M) /\ Holds(A) /\ Top \in Calls /\ Top.op = "fill"
      /\ "whole" \in A.is /\ A.live
  BY <1>1, <1>2 DEF Turn, Step, Is, Aim
<1>4. PICK x \in Calls : x = Top
  BY <1>3
<1>5. x.at \in Nat /\ x.word \in Values /\ x.op = "fill"
  BY <1>3, <1>4 DEF Calls
<1>6. PICK w \in 0..Windows : x.at = w * Words
  BY <1>3, <1>4 DEF FillRule
<1>7. Then(IF x.at < Size.dram
           THEN <<Window(x.at), Put("dccm", x.word, 0, Words), [x EXCEPT !.at = x.at + Words]>>
           ELSE <<NoWindow>>)
  BY <1>4 DEF FillDram
<1>8. CASE x.at < Size.dram
  <2>1. PICK y : y = [x EXCEPT !.at = x.at + Words]
    OBVIOUS
  <2>2. /\ y \in Calls /\ y.op = "fill" /\ y.at = x.at + Words /\ y.word = x.word
    <3>1. x.at + Words \in Nat
      BY <1>5, Sizes
    <3> QED BY <1>5, <2>1, <3>1, CallAt
  <2>3. w + 1 \in 0..Windows /\ y.at = (w + 1) * Words /\ x.at + Words <= Size.dram
    <3>1. w < Windows
      <4>1. ~(Windows <= w)
        BY <1>6, <1>8, Sizes
      <4> QED BY <1>6, <4>1, Sizes
    <3>2. (w + 1) * Words = w * Words + Words /\ (w + 1) * Words <= Words * Windows
      BY <1>6, <3>1, Sizes
    <3> QED BY <1>6, <2>2, <3>1, <3>2, Sizes
  <2>4. PICK A1, A2 :
          /\ A1 = Assert(A.is \ {"flat", "shut"}, A.mem, {x.at})
          /\ A2 = Assert(A.is \ {"flat", "shut"},
                         Wrote(A.mem, "dram", x.at, x.at + Words - 1, x.word), {x.at})
    OBVIOUS
  <2>5. /\ A1.is = A.is \ {"flat", "shut"} /\ A1.mem = A.mem /\ A1.win = {x.at} /\ A1.live
        /\ A2.is = A.is \ {"flat", "shut"} /\ A2.win = {x.at} /\ A2.live
        /\ A2.mem = Wrote(A.mem, "dram", x.at, x.at + Words - 1, x.word)
    BY <2>4, AssertIs
  <2>6. /\ Window(x.at) \in Calls /\ Window(x.at).op = "window"
        /\ Window(x.at).at = x.at /\ Window(x.at).n = 1
    BY <1>5, WindowIs
  <2>7. Step(Aim, A, Window(x.at), A1)
    <3>1. x.at \in Range0("dram")
      BY <1>5, <1>8, Sizes DEF Range0
    <3>2. WindowRule(A, Window(x.at), A1)
      BY <1>3, <2>5, <2>6, <3>1 DEF WindowRule, FillRule
    <3> QED BY <1>3, <2>6, <3>2 DEF Step
  <2>8. PICK p : p = Put("dccm", x.word, 0, Words)
    OBVIOUS
  <2>9. /\ p \in Calls /\ p.op = "write" /\ p.mem = "dccm" /\ p.word = x.word
        /\ p.at = 0 /\ p.n = Words
    BY <1>5, <2>8, PutIs, Sizes
  <2>10. Step(Aim, A1, p, A2)
    <3>1. x.at \in A1.win /\ x.at \in Nat /\ x.at + p.n <= Size.dram
      BY <1>5, <2>3, <2>5, <2>9
    <3>2. A2.mem \subseteq Wrote(A1.mem, "dram", x.at + p.at, x.at + p.n - 1, p.word)
      <4>1. x.at + p.at = x.at /\ x.at + p.n - 1 = x.at + Words - 1
        BY <1>5, <2>9
      <4> QED BY <2>5, <2>9, <4>1
    <3>3. 0 < Words /\ Words <= Words
      BY Sizes
    <3>4. WriteRule(A1, p, A2)
      BY <1>3, <2>5, <2>9, <3>1, <3>2, <3>3 DEF WriteRule, FillRule
    <3> QED BY <1>3, <2>5, <2>9, <3>4 DEF Step
  <2>11. Step(Aim, A2, y, M)
    <3>1. M.mem \subseteq {c \in A2.mem : c[1] = "dram" => c[2] \in 0..(y.at - 1)}
                            \cup Part("dram", {a \in Range0("dram") : a >= y.at}, y.word)
      <4> SUFFICES ASSUME NEW c \in M.mem
          PROVE  \/ c \in A2.mem /\ (c[1] = "dram" => c[2] \in 0..(y.at - 1))
                 \/ c \in Part("dram", {a \in Range0("dram") : a >= y.at}, y.word)
        OBVIOUS
      <4>1. CASE c \in A.mem /\ (c[1] = "dram" => c[2] \in 0..(x.at - 1))
        <5>1. ~(c[1] = "dram" /\ c[2] \in x.at..(x.at + Words - 1))
          BY <1>5, <4>1, Sizes
        <5>2. c[1] = "dram" => c[2] \in 0..(y.at - 1)
          BY <1>5, <2>2, <4>1, Sizes
        <5> QED BY <2>5, <4>1, <5>1, <5>2 DEF Wrote
      <4>2. CASE c \in Part("dram", {a \in Range0("dram") : a >= x.at}, x.word)
        <5>1. PICK a \in Range0("dram") : a >= x.at /\ c = <<"dram", a, x.word>>
          BY <4>2 DEF Part
        <5>2. CASE a >= y.at
          BY <2>2, <5>1, <5>2 DEF Part
        <5>3. CASE ~(a >= y.at)
          <6>1. a \in x.at..(x.at + Words - 1) /\ a \in 0..(y.at - 1)
            BY <1>5, <2>2, <5>1, <5>3, Sizes DEF Range0
          <6>2. c \in A2.mem
            BY <2>5, <5>1, <6>1 DEF Wrote, Part
          <6> QED BY <5>1, <6>1, <6>2
        <5> QED BY <5>2, <5>3
      <4> QED BY <1>3, <1>4, <4>1, <4>2 DEF FillRule
    <3>2. FillRule(A2, y, M)
      BY <1>3, <2>3, <2>5, <3>1 DEF FillRule
    <3> QED BY <1>3, <2>2, <2>5, <3>2 DEF Step
  <2>12. Triple(Aim, A, <<Window(x.at), p, y>>, M)
    BY <2>2, <2>6, <2>7, <2>9, <2>10, <2>11, TripleThree
  <2>13. Then(<<Window(x.at), p, y>>)
    BY <1>7, <1>8, <2>1, <2>8
  <2> QED BY <1>1, <1>2, <1>3, <2>12, <2>13, PassInv
<1>9. CASE ~(x.at < Size.dram)
  <2>1. Then(<<NoWindow>>)
    BY <1>7, <1>9
  <2>2. NoWindow \in Calls /\ NoWindow.op = "window" /\ NoWindow.at = 0 /\ NoWindow.n = 0
    BY WindowIs
  <2>3. M.mem \subseteq A.mem
    <3>1. {a \in Range0("dram") : a >= x.at} = {}
      BY <1>5, <1>9, Sizes DEF Range0
    <3> QED BY <1>3, <1>4, <3>1 DEF FillRule, Part
  <2>4. WindowRule(A, NoWindow, M)
    <3>1. NoWindow.at \in Range0("dram") /\ NoWindow.n # 1
      BY <2>2, Sizes DEF Range0
    <3>2. "still" \in A.is /\ M.is \subseteq A.is \cup {"flat", "shut"} /\ M.win = {} /\ M.live
      BY <1>3 DEF FillRule
    <3> QED BY <2>3, <3>1, <3>2 DEF WindowRule
  <2>5. Step(Aim, A, NoWindow, M)
    BY <1>3, <2>2, <2>4 DEF Step
  <2>6. Triple(Aim, A, <<NoWindow>>, M)
    BY <2>2, <2>5, TripleOne
  <2> QED BY <1>1, <1>2, <1>3, <2>1, <2>6, PassInv
<1> QED BY <1>8, <1>9
-----------------------------------------------------------------------------
(* card.py: building an image, or reusing it.                              *)

LEMMA EnsureInv == ASSUME CardInv, Ensure PROVE CardInv'
<1>1. /\ Is("ensure") /\ todo # <<>> /\ ~Is("write")
      /\ UNCHANGED <<board, dev, mem, files, host, uses>>
  BY DEF Ensure, Is
<1>2. PICK A, M, B : Turn(A, M, B)
  BY <1>1, TurnOf DEF CardInv
<1>3. /\ Same(A, M, {}, {"elf", "man", "dram", "stamped"}) /\ A.live /\ Holds(A)
      /\ {"whole"} \cup Safe(host.tool) \subseteq A.is
  BY <1>1, <1>2 DEF Turn, Step, Is, Aim
<1>4. CASE Reuses
  <2>1. Then(<<>>)
    BY <1>4 DEF Ensure
  <2>2. Whole(host.dir)
    BY <1>3 DEF Holds, Fact, OfFiles
  <2>3. BuildBreaks \/ Dir = [elf |-> host.want, man |-> host.want, dram |-> host.want,
                              stamp |-> host.want]
    <3> SUFFICES ASSUME ~BuildBreaks
        PROVE  Dir = [elf |-> host.want, man |-> host.want, dram |-> host.want,
                      stamp |-> host.want]
      OBVIOUS
    <3>1. PICK i : Dir = [elf |-> i, man |-> i, dram |-> i, stamp |-> i]
      BY <2>2 DEF Whole, Dir
    <3>2. i = host.want
      BY <1>4, <3>1 DEF Reuses
    <3> QED BY <3>1, <3>2
  <2>4. \A f \in {"elf", "man", "dram", "stamped"} : Fact(f)
    <3>1. \A f \in {"elf", "man", "dram", "stamped"} : OfFiles(f)
      BY <2>3 DEF OfFiles
    <3> QED BY <3>1 DEF Fact, OfCore, OfRead, OfTests, OfBoard
  <2>5. \A f \in M.is : Fact(f)
    BY <1>3, <2>4 DEF Holds, Same
  <2>6. M.is \cap {"noeot", "nouart"} \subseteq A.is \cap {"noeot", "nouart"}
    BY <1>3 DEF Same
  <2>7. Holds(M) /\ M.live
    BY <1>3, <2>5, <2>6 DEF Holds, Same
  <2> QED BY <1>1, <1>2, <2>1, <2>7, StepOn
<1>5. CASE ~Reuses
  <2>1. Then(<<Call("dramhex"), Call("manifest"), Call("link"), Call("stamp")>>)
    BY <1>5 DEF Ensure
  <2>2. PICK I : I = A.is \ {"whole"}
    OBVIOUS
  <2>3. PICK A1, A2, A3 :
          /\ A1 = Assert(I \cup {"dram"}, A.mem, A.win)
          /\ A2 = Assert(I \cup {"dram", "man"}, A.mem, A.win)
          /\ A3 = Assert(I \cup {"dram", "man", "elf"}, A.mem, A.win)
    OBVIOUS
  <2>4. /\ A1.is = I \cup {"dram"} /\ A1.mem = A.mem /\ A1.win = A.win /\ A1.live
        /\ A2.is = I \cup {"dram", "man"} /\ A2.mem = A.mem /\ A2.win = A.win /\ A2.live
        /\ A3.is = I \cup {"dram", "man", "elf"} /\ A3.mem = A.mem /\ A3.win = A.win
        /\ A3.live
    BY <2>3, AssertIs
  <2>5. /\ Call("dramhex") \in Calls /\ Call("dramhex").op = "dramhex"
        /\ Call("manifest") \in Calls /\ Call("manifest").op = "manifest"
        /\ Call("link") \in Calls /\ Call("link").op = "link"
        /\ Call("stamp") \in Calls /\ Call("stamp").op = "stamp"
    BY CallsAre DEF OpNames
  <2>6. "whole" \notin Safe(Aim.tool) /\ Safe(Aim.tool) \subseteq A.is
    BY <1>3 DEF Safe, Aim
  <2>7. Step(Aim, A, Call("dramhex"), A1)
    BY <1>3, <2>2, <2>4, <2>5, <2>6 DEF Step, Same
  <2>8. Step(Aim, A1, Call("manifest"), A2)
    BY <1>3, <2>2, <2>4, <2>5, <2>6 DEF Step, Same
  <2>9. Step(Aim, A2, Call("link"), A3)
    BY <1>3, <2>2, <2>4, <2>5, <2>6 DEF Step, Same
  <2>10. Step(Aim, A3, Call("stamp"), M)
    <3>1. Same(A3, M, {"whole"}, {"stamped", "whole"})
      BY <1>3, <2>2, <2>4 DEF Same
    <3> QED BY <2>2, <2>4, <2>5, <2>6, <3>1 DEF Step, Same
  <2>11. Triple(Aim, A, <<Call("dramhex"), Call("manifest"), Call("link"), Call("stamp")>>, M)
    BY <2>5, <2>7, <2>8, <2>9, <2>10, TripleFour
  <2> QED BY <1>1, <1>2, <1>3, <2>1, <2>11, PassInv
<1> QED BY <1>4, <1>5

LEMMA BuildInv == ASSUME CardInv, Build PROVE CardInv'
<1>1. /\ todo # <<>> /\ Top.op \in {"dramhex", "manifest", "link", "stamp"} /\ ~Is("write")
      /\ UNCHANGED <<board, dev, mem, uses>>
  BY DEF Build, Is
<1>2. PICK A, M, B : Turn(A, M, B)
  BY <1>1, TurnOf DEF CardInv
<1>3. Holds(A) /\ A.live /\ Safe(host.tool) \subseteq A.is /\ Top \in Calls
  BY <1>1, <1>2 DEF Turn, Step, Aim
<1>7. PICK made : made = IF Top.op = "stamp" THEN "stamped" ELSE File(Top.op)
  OBVIOUS
<1>8. PICK back : back = IF Top.op = "stamp" /\ {"elf", "man", "dram"} \subseteq A.is
                         THEN {"whole"} ELSE {}
  OBVIOUS
<1>4. /\ made \in {"elf", "man", "dram", "stamped"}
      /\ back \subseteq {"whole"}
      /\ back # {} => Top.op = "stamp" /\ {"elf", "man", "dram"} \subseteq A.is
      /\ Same(A, M, {"whole"}, {made} \cup back)
  <2>1. CASE Top.op = "dramhex"
    <3>1. Same(A, M, {"whole"}, {"dram"})
      BY <1>2, <2>1 DEF Turn, Step
    <3>2. made = "dram" /\ back = {}
      BY <1>7, <1>8, <2>1 DEF File
    <3>3. {made} \cup back = {"dram"}
      BY <3>2
    <3> QED BY <3>1, <3>2, <3>3
  <2>2. CASE Top.op = "manifest"
    <3>1. Same(A, M, {"whole"}, {"man"})
      BY <1>2, <2>2 DEF Turn, Step
    <3>2. made = "man" /\ back = {}
      BY <1>7, <1>8, <2>2 DEF File
    <3>3. {made} \cup back = {"man"}
      BY <3>2
    <3> QED BY <3>1, <3>2, <3>3
  <2>3. CASE Top.op = "link"
    <3>1. Same(A, M, {"whole"}, {"elf"})
      BY <1>2, <2>3 DEF Turn, Step
    <3>2. made = "elf" /\ back = {}
      BY <1>7, <1>8, <2>3 DEF File
    <3>3. {made} \cup back = {"elf"}
      BY <3>2
    <3> QED BY <3>1, <3>2, <3>3
  <2>4. CASE Top.op = "stamp"
    <3>1. back = IF {"elf", "man", "dram"} \subseteq A.is THEN {"whole"} ELSE {}
      BY <1>8, <2>4
    <3>2. made = "stamped"
      BY <1>7, <2>4
    <3>3. Same(A, M, {"whole"}, {made} \cup back)
      BY <1>2, <2>4, <3>1, <3>2 DEF Turn, Step
    <3> QED BY <2>4, <3>1, <3>2, <3>3
  <2> QED BY <1>1, <2>1, <2>2, <2>3, <2>4
<1>5. CASE Have(File(Top.op), host.want) /\ Then(<<>>) /\ UNCHANGED host
  <2>1. PICK g : g = File(Top.op)
    OBVIOUS
  <2>2. /\ g \in {"elf", "man", "dram", "stamp"}
        /\ made = IF g = "stamp" THEN "stamped" ELSE g
        /\ Top.op = "stamp" => g = "stamp"
    BY <1>1, <1>7, <2>1 DEF File
  <2>3. /\ files \in [{"main", "bb"} -> Dirs] /\ host \in Hosts
        /\ host.dir \in {"main", "bb"} /\ host.want \in Names \cup {"none"}
    BY DEF CardInv, Typed, Hosts
  <2>4. PICK D : D = [Dir EXCEPT ![g] = host.want]
    OBVIOUS
  <2>5. files' = [files EXCEPT ![host.dir] = D]
    BY <1>5, <2>1, <2>4 DEF Have, Dir
  <2>6. /\ Dir \in Dirs /\ D \in Dirs /\ D[g] = host.want
        /\ \A x \in {"elf", "man", "dram", "stamp"} : x # g => D[x] = Dir[x]
    BY <2>2, <2>3, <2>4 DEF Dir, Dirs
  <2>7. /\ files' \in [{"main", "bb"} -> Dirs] /\ Dir' = D
        /\ \A d \in {"main", "bb"} : d # host.dir => files'[d] = files[d]
    <3>1. host' = host
      BY <1>5
    <3> QED BY <2>3, <2>5, <2>6, <3>1 DEF Dir
  <2>8. /\ D.elf = Dir.elf \/ g = "elf"
        /\ D.man = Dir.man \/ g = "man"
        /\ D.dram = Dir.dram \/ g = "dram"
        /\ D.stamp = Dir.stamp \/ g = "stamp"
    BY <2>2, <2>6
  <2>9. /\ Aim' = Aim /\ Answer' = Answer /\ (Sane' <=> Sane) /\ (Open' <=> Open)
        /\ \A f : OfBoard(f) => OfBoard(f)'
        /\ \A f : OfRead(f) => OfRead(f)'
        /\ \A f : OfTests(f) => OfTests(f)'
        /\ \A f : OfCore(f) => OfCore(f)'
    <3>1. Sane' <=> Sane
      BY <1>1, <1>5 DEF Sane, Open
    <3>2. Open' <=> Open
      BY <1>1, <1>5 DEF Open
    <3>3. Aim' = Aim /\ Answer' = Answer
      BY <1>5, <3>1 DEF Aim, Answer, Needed, Need, Means
    <3>4. RunsRight' <=> RunsRight
      BY <1>1, <1>5, <3>3 DEF RunsRight, Means, Bytes
    <3>5. \A f : OfBoard(f) => OfBoard(f)'
      BY <1>1, <1>5, <3>2 DEF OfBoard, Answers
    <3>6. \A f : OfRead(f) => OfRead(f)'
      BY <1>5, <3>1, <3>3 DEF OfRead
    <3>7. \A f : OfTests(f) => OfTests(f)'
      BY <1>5, <3>1, TestsFrame
    <3>8. \A f : OfCore(f) => OfCore(f)'
      BY <1>1, <1>5, <3>1, <3>4 DEF OfCore
    <3> QED BY <3>1, <3>2, <3>3, <3>5, <3>6, <3>7, <3>8
  <2>10. ASSUME NEW f \in A.is, f # "whole" PROVE OfFiles(f)'
    <3>1. OfFiles(f)
      BY <1>3 DEF Holds, Fact
    <3> QED BY <1>5, <2>6, <2>7, <2>8, <2>10, <3>1 DEF OfFiles
  <2>11. OfFiles(made)'
    BY <1>5, <2>2, <2>6, <2>7 DEF OfFiles
  <2>12. back # {} => Whole(host.dir)'
    <3> HAVE back # {}
    <3>1. g = "stamp" /\ {"elf", "man", "dram"} \subseteq A.is
      BY <1>4, <2>2
    <3>2. BuildBreaks \/ (Dir.elf = host.want /\ Dir.man = host.want /\ Dir.dram = host.want)
      BY <1>3, <3>1 DEF Holds, Fact, OfFiles
    <3>3. BuildBreaks \/ D = [elf |-> host.want, man |-> host.want, dram |-> host.want,
                              stamp |-> host.want]
      BY <2>6, <2>8, <3>1, <3>2 DEF Dirs
    <3> QED BY <1>5, <2>3, <2>7, <3>3 DEF Whole, Dir
  <2>13. \A f \in M.is : Fact(f)'
    <3> SUFFICES ASSUME NEW f \in M.is PROVE Fact(f)'
      OBVIOUS
    <3>1. CASE f \in A.is /\ f # "whole"
      BY <1>3, <2>9, <2>10, <3>1 DEF Holds, Fact
    <3>2. CASE f = made
      <4>1. OfCore(f)' /\ OfRead(f)' /\ OfTests(f)' /\ OfBoard(f)'
        BY <1>4, <3>2 DEF OfCore, OfRead, OfTests, OfBoard
      <4> QED BY <2>11, <3>2, <4>1 DEF Fact
    <3>3. CASE f \in back
      <4>1. f = "whole" /\ Whole(host.dir)'
        BY <1>4, <1>5, <2>12, <3>3
      <4> QED BY <4>1 DEF Fact, OfCore, OfRead, OfTests, OfBoard, OfFiles
    <3> QED BY <1>4, <3>1, <3>2, <3>3 DEF Same
  <2>14. Holds(M)'
    <3>1. Sane' => \A c \in M.mem : Cell(c)'
      BY <1>1, <1>3, <1>4, <2>9 DEF Holds, Same, Cell
    <3>2. Open' => \A w \in M.win : dev'.sel /\ dev'.win = w
      BY <1>1, <1>3, <1>4, <2>9 DEF Holds, Same
    <3>3. dev'.run => /\ M.is \cap {"noeot", "nouart"} = {}
                      /\ \A c \in M.mem : Untouched(c)
      BY <1>1, <1>3, <1>4 DEF Holds, Same
    <3> QED BY <2>13, <3>1, <3>2, <3>3 DEF Holds
  <2>15. M.live
    BY <1>4 DEF Same
  <2>16. Going'
    BY <1>2, <1>5, <2>9, <2>14, <2>15, GoNext
  <2>17. Typed'
    <3>1. todo' \in Seq(Calls)
      <4>1. <<>> \in Seq(Calls) /\ todo # <<>> /\ todo \in Seq(Calls)
        BY <1>2 DEF Turn
      <4> QED BY <1>5, <4>1, ThenTyped
    <3> QED BY <1>1, <1>5, <2>7, <3>1 DEF CardInv, Typed, MemOK
  <2>18. Posting'
    BY <1>1, <2>17, NotPosting DEF CardInv, Posting
  <2>19. Rest'
    <3>1. \A d \in {"main", "bb"} : d # host.dir /\ Whole(d) => Whole(d)'
      BY <2>7 DEF Whole
    <3>2. UartOurs'
      BY <1>1, <1>5 DEF CardInv, Rest, UartOurs
    <3> QED BY <1>5, <3>1, <3>2 DEF CardInv, Rest
  <2>20. Registers'
    BY <1>1 DEF CardInv, Registers
  <2> QED BY <2>16, <2>17, <2>18, <2>19, <2>20 DEF CardInv
<1>6. CASE BuildBreaks /\ Raise /\ UNCHANGED files
  <2>1. host' = [host EXCEPT !.code = 1] /\ todo' \in Seq(Calls) /\ 1 \in 0..2
    BY <1>6, CallsAre DEF Raise, OpNames
  <2>2. /\ Typed' /\ Registers' /\ Posting' /\ Rest'
        /\ \A f : Fact(f) => Fact(f)'
    BY <1>1, <1>6, <2>1, ExitKeeps
  <2>3. Fact("whole")'
    BY <1>6 DEF Fact, OfCore, OfRead, OfTests, OfBoard, OfFiles, Whole
  <2>4. \A f \in Safe(host.tool) : Fact(f)'
    BY <1>3, <2>2 DEF Holds
  <2>5. Going'
    BY <1>6, <2>3, <2>4, RaiseGoes DEF CardInv
  <2> QED BY <2>2, <2>5 DEF CardInv
<1> QED BY <1>5, <1>6 DEF Build
-----------------------------------------------------------------------------
(* program_fpga.py                                                         *)

\* Its calls change the link and the driver, and keep the design.
LEMMA BoardFrame ==
  ASSUME CardInv, host.tool = "program", UNCHANGED <<dev, mem, files, host>>
  PROVE  /\ (Sane' <=> Sane) /\ (Open' <=> Open) /\ Aim' = Aim /\ Rest'
         /\ \A f : OfCore(f) /\ OfRead(f) /\ OfTests(f) /\ OfFiles(f) =>
                     OfCore(f)' /\ OfRead(f)' /\ OfTests(f)' /\ OfFiles(f)'
<1>1. (Sane' <=> Sane) /\ (Open' <=> Open)
  BY DEF Sane, Open
<1>2. Aim' = Aim /\ Answer' = Answer
  BY <1>1 DEF Aim, Answer, Needed, Need, Means
<1>3. RunsRight' <=> RunsRight
  BY <1>2 DEF RunsRight, Means, Bytes
<1>4. \A f : OfCore(f) => OfCore(f)'
  BY <1>1, <1>3 DEF OfCore
<1>5. \A f : OfRead(f) => OfRead(f)'
  BY <1>1, <1>2 DEF OfRead
<1>6. \A f : OfTests(f) => OfTests(f)'
  BY <1>1, TestsFrame
<1>7. \A f : OfFiles(f) => OfFiles(f)'
  BY DEF OfFiles, Whole, Dir
<1>8. Rest'
  <2>1. \A d : Whole(d) => Whole(d)'
    BY DEF Whole
  <2>2. UartOurs'
    BY DEF UartOurs
  <2> QED BY <2>1, <2>2 DEF CardInv, Rest
<1> QED BY <1>1, <1>2, <1>4, <1>5, <1>6, <1>7, <1>8

LEMMA BoardStep ==
  ASSUME CardInv, host.tool = "program", UNCHANGED <<dev, mem, files, host, uses>>,
         ~Is("write"), board' \in Boards, board'.bit = board.bit,
         NEW A, NEW M, NEW B, Turn(A, M, B), M.live, Then(<<>>),
         NEW lost, NEW gained, Same(A, M, lost, gained),
         gained \subseteq {"driver"}, \A f \in M.is : OfBoard(f)'
  PROVE  CardInv'
<1>0. UNCHANGED <<dev, mem, files, host>>
  OBVIOUS
<1>1. /\ (Sane' <=> Sane) /\ (Open' <=> Open) /\ Aim' = Aim /\ Rest'
      /\ \A f : OfCore(f) /\ OfRead(f) /\ OfTests(f) /\ OfFiles(f) =>
                  OfCore(f)' /\ OfRead(f)' /\ OfTests(f)' /\ OfFiles(f)'
  BY <1>0, BoardFrame
<1>2. Holds(A)
  BY DEF Turn
<1>3. \A f \in M.is : Fact(f)'
  <2> SUFFICES ASSUME NEW f \in M.is PROVE Fact(f)'
    OBVIOUS
  <2>1. CASE f \in A.is
    BY <1>1, <1>2, <2>1 DEF Holds, Fact
  <2>2. CASE f = "driver"
    BY <2>2 DEF Fact, OfCore, OfRead, OfTests, OfFiles
  <2> QED BY <2>1, <2>2 DEF Same
<1>4. Holds(M)'
  <2>1. Sane' => \A c \in M.mem : Cell(c)'
    BY <1>1, <1>2 DEF Holds, Same, Cell
  <2>2. M.is \cap {"noeot", "nouart"} \subseteq A.is \cap {"noeot", "nouart"}
    BY DEF Same
  <2> QED BY <1>1, <1>2, <1>3, <2>1, <2>2 DEF Holds, Same
<1>5. Registers' /\ dev' \in Devices /\ MemOK' /\ dev'.posted = 0 /\ host' \in Hosts
      /\ host'.code = host.code
  BY DEF CardInv, Registers, Posting, Typed, MemOK
<1> QED BY <1>1, <1>4, <1>5, ToolStep

LEMMA UnloadDriverInv == ASSUME CardInv, UnloadDriver PROVE CardInv'
<1>1. /\ Is("unload") /\ todo # <<>> /\ ~Is("write") /\ Then(<<>>)
      /\ board' = [board EXCEPT !.driver = FALSE]
      /\ UNCHANGED <<dev, mem, files, host, uses>>
  BY DEF UnloadDriver, Is
<1>2. PICK A, M, B : Turn(A, M, B)
  BY <1>1, TurnOf DEF CardInv
<1>3. /\ host.tool = "program" /\ Same(A, M, {"driver", "verified"}, {})
      /\ Holds(A)
  BY <1>1, <1>2 DEF Turn, Step, Is, Aim
<1>4. board' \in Boards /\ board'.bit = board.bit /\ board'.link = board.link
  BY <1>1 DEF CardInv, Typed, Boards
<1>5. \A f \in M.is : OfBoard(f)'
  <2> SUFFICES ASSUME NEW f \in M.is PROVE OfBoard(f)'
    OBVIOUS
  <2>1. OfBoard(f) /\ f \notin {"driver", "verified"}
    BY <1>3 DEF Holds, Fact, Same
  <2> QED BY <1>1, <1>4, <2>1 DEF OfBoard, Open
<1>6. M.live /\ {} \subseteq {"driver"}
  BY <1>3 DEF Same
<1> QED BY <1>1, <1>2, <1>3, <1>4, <1>5, <1>6, BoardStep

LEMMA RescanInv == ASSUME CardInv, Rescan PROVE CardInv'
<1>1. /\ Is("rescan") /\ todo # <<>> /\ ~Is("write")
      /\ UNCHANGED <<dev, mem, files, uses>>
  BY DEF Rescan, Is
<1>2. PICK A, M, B : Turn(A, M, B)
  BY <1>1, TurnOf DEF CardInv
<1>3. /\ host.tool = "program" /\ Same(A, M, {"verified"}, {})
      /\ Holds(A) /\ "whole" \in A.is
  BY <1>1, <1>2 DEF Turn, Step, Is, Aim
<1>4. CASE board' = [board EXCEPT !.link = "live"] /\ Then(<<>>) /\ UNCHANGED host
  <2>1. board' \in Boards /\ board'.bit = board.bit /\ board'.driver = board.driver
    BY <1>4 DEF CardInv, Typed, Boards
  <2>2. \A f \in M.is : OfBoard(f)'
    <3> SUFFICES ASSUME NEW f \in M.is PROVE OfBoard(f)'
      OBVIOUS
    <3>1. OfBoard(f) /\ f # "verified"
      BY <1>3 DEF Holds, Fact, Same
    <3> QED BY <1>4, <2>1, <3>1 DEF OfBoard, Open
  <2>3. M.live /\ {} \subseteq {"driver"}
    BY <1>3 DEF Same
  <2> QED BY <1>1, <1>2, <1>3, <1>4, <2>1, <2>2, <2>3, BoardStep
<1>5. CASE board' = [board EXCEPT !.link = "none"] /\ Raise
  <2>1. board' \in Boards /\ board'.bit = board.bit
    BY <1>5 DEF CardInv, Typed, Boards
  <2>2. host' = [host EXCEPT !.code = 1] /\ todo' \in Seq(Calls) /\ 1 \in 0..2
    BY <1>5, CallsAre DEF Raise, OpNames
  <2>3. /\ host' \in Hosts /\ host'.tool = "program" /\ host'.dir = host.dir
        /\ host'.want = host.want /\ host'.ours = host.ours /\ host'.got = host.got
    <3>1. host \in Hosts
      BY DEF CardInv, Typed
    <3> QED BY <1>3, <2>2, <3>1, HostCode
  <2>4. \A d : Whole(d) => Whole(d)'
    BY <1>1 DEF Whole
  <2>5. Fact("whole")'
    <3>1. Whole(host.dir)
      BY <1>3 DEF Holds, Fact, OfFiles
    <3>2. OfFiles("whole")'
      BY <2>3, <2>4, <3>1 DEF OfFiles
    <3> QED BY <3>2 DEF Fact, OfCore, OfRead, OfTests, OfBoard
  <2>6. Going'
    <3>1. Safe(host.tool) = {}
      BY <1>3 DEF Safe
    <3> QED BY <1>5, <2>5, <3>1, RaiseGoes DEF CardInv
  <2>7. Rest'
    <3>1. UartOurs'
      BY <2>3 DEF UartOurs
    <3> QED BY <2>3, <2>4, <3>1 DEF CardInv, Rest
  <2>8. Typed' /\ Posting'
    <3>1. Typed'
      BY <1>1, <2>1, <2>2, <2>3 DEF CardInv, Typed, MemOK
    <3> QED BY <1>1, <3>1, NotPosting DEF CardInv, Posting
  <2>9. Registers'
    BY <1>1, <2>1 DEF CardInv, Registers
  <2> QED BY <2>6, <2>7, <2>8, <2>9 DEF CardInv
<1> QED BY <1>4, <1>5 DEF Rescan

LEMMA LoadDriverInv == ASSUME CardInv, LoadDriver PROVE CardInv'
<1>1. /\ Is("modprobe") /\ todo # <<>> /\ ~Is("write")
      /\ UNCHANGED <<dev, mem, files, uses>>
  BY DEF LoadDriver, Is
<1>2. PICK A, M, B : Turn(A, M, B)
  BY <1>1, TurnOf DEF CardInv
<1>3. /\ host.tool = "program" /\ Same(A, M, {}, {"driver"})
      /\ Holds(A) /\ "whole" \in A.is
  BY <1>1, <1>2 DEF Turn, Step, Is, Aim
<1>4. CASE board' = [board EXCEPT !.driver = TRUE] /\ Then(<<>>) /\ UNCHANGED host
  <2>1. board' \in Boards /\ board'.bit = board.bit /\ board'.link = board.link
        /\ board'.driver
    BY <1>4 DEF CardInv, Typed, Boards
  <2>2. \A f \in M.is : OfBoard(f)'
    <3> SUFFICES ASSUME NEW f \in M.is PROVE OfBoard(f)'
      OBVIOUS
    <3>1. CASE f = "driver"
      BY <2>1, <3>1 DEF OfBoard
    <3>2. CASE f # "driver"
      <4>1. OfBoard(f)
        BY <1>3, <3>2 DEF Holds, Fact, Same
      <4> QED BY <1>4, <2>1, <3>2, <4>1 DEF OfBoard, Open, Answers
    <3> QED BY <3>1, <3>2
  <2>3. M.live /\ {"driver"} \subseteq {"driver"}
    BY <1>3 DEF Same
  <2> QED BY <1>1, <1>2, <1>3, <1>4, <2>1, <2>2, <2>3, BoardStep
<1>5. CASE Raise /\ UNCHANGED board
  <2>1. {"whole"} \cup Safe(host.tool) \subseteq A.is
    BY <1>3 DEF Safe
  <2> QED BY <1>1, <1>2, <1>5, <2>1, RaiseInv
<1> QED BY <1>4, <1>5 DEF LoadDriver

LEMMA VerifyInv == ASSUME CardInv, Verify PROVE CardInv'
<1>1. /\ Is("verify") /\ todo # <<>> /\ ~Is("write")
      /\ UNCHANGED <<board, dev, mem, files, uses>>
  BY DEF Verify, Is
<1>2. PICK A, M, B : Turn(A, M, B)
  BY <1>1, TurnOf DEF CardInv
<1>3. host.tool = "program" /\ "driver" \in A.is /\ "whole" \in A.is /\ Holds(A)
  BY <1>1, <1>2 DEF Turn, Step, Is, Aim
<1>4. {"whole"} \cup Safe(host.tool) \subseteq A.is
  BY <1>3 DEF Safe
<1>5. CASE Raise
  BY <1>1, <1>2, <1>4, <1>5, RaiseInv
<1>6. CASE Exit(2)
  <2>1. 2 \in 1..2
    OBVIOUS
  <2> QED BY <1>1, <1>2, <1>4, <1>6, <2>1, ExitInv
<1>7. CASE Answers /\ Exit(0)
  <2>1. host' = [host EXCEPT !.code = 0] /\ todo' = <<>> /\ todo' \in Seq(Calls)
        /\ 0 \in 0..2
    BY <1>7 DEF Exit
  <2>2. /\ Typed' /\ Registers' /\ Posting' /\ Rest'
        /\ \A f : Fact(f) => Fact(f)'
    BY <1>1, <2>1, ExitKeeps
  <2>3. Fact("whole") /\ Fact("driver")
    BY <1>3 DEF Holds
  <2>4. Fact("verified")
    <3>1. OfBoard("verified")
      BY <1>7, <2>3 DEF Fact, OfBoard
    <3> QED BY <3>1 DEF Fact, OfCore, OfRead, OfTests, OfFiles
  <2>5. host'.tool = "program" /\ host'.code = 0
    <3>1. host \in Hosts
      BY DEF CardInv, Typed
    <3> QED BY <1>3, <2>1, <3>1, HostCode
  <2>6. Goal(host'.tool, host'.code) = {"whole", "verified"}
    BY <2>5 DEF Goal, Safe
  <2>7. Going'
    BY <2>1, <2>2, <2>3, <2>4, <2>6, GoStop
  <2> QED BY <2>2, <2>7 DEF CardInv
<1> QED BY <1>5, <1>6, <1>7 DEF Verify

\* A card whose memory is empty.
LEMMA EmptyMemory ==
  \A m2 : m2 = [m \in DOMAIN Size |-> [a \in Range0(m) |-> Blank]] =>
    /\ m2 = [m \in {"iccm", "dccm", "dram"} |-> m2[m]]
    /\ \A m \in {"iccm", "dccm", "dram"} : m2[m] \in [Range0(m) -> Values]
<1>1. DOMAIN Size = {"iccm", "dccm", "dram"}
  BY DEF Size
<1>2. Blank \in Values
  BY DEF Blank, Word, Values
<1> QED BY <1>1, <1>2

LEMMA FreshCard ==
  /\ Fresh \in Devices /\ ~Fresh.run /\ ~Fresh.sel /\ Fresh.prog = "none"
  /\ Fresh.said = 0 /\ Fresh.uart = <<>> /\ Fresh.posted = 0
<1>1. 0 \in Range0("dram")
  BY Sizes DEF Range0
<1>2. <<>> \in Seq(Names \cup {"junk"})
  OBVIOUS
<1> QED BY <1>1, <1>2 DEF Fresh, Devices

LEMMA VivadoInv == ASSUME CardInv, Vivado PROVE CardInv'
<1>1. Is("vivado") /\ todo # <<>> /\ ~Is("write") /\ UNCHANGED <<files, uses>>
  BY DEF Vivado, Is
<1>2. PICK A, M, B : Turn(A, M, B)
  BY <1>1, TurnOf DEF CardInv
<1>3. /\ host.tool = "program" /\ "whole" \in A.is /\ Holds(A)
      /\ M.is \subseteq (A.is \cap {"easy", "driver", "whole"})
                          \cup IF "easy" \in A.is THEN {"verified"} ELSE {}
      /\ M.mem = {} /\ M.win = {} /\ M.live
  BY <1>1, <1>2 DEF Turn, Step, Is, Aim
<1>4. CASE Raise /\ UNCHANGED <<board, dev, mem>>
  <2>1. {"whole"} \cup Safe(host.tool) \subseteq A.is
    BY <1>3 DEF Safe
  <2> QED BY <1>1, <1>2, <1>4, <2>1, RaiseInv
<1>5. ASSUME NEW b \in {"good", "old", "other"},
             board' = [board EXCEPT !.bit = b, !.link = IF @ = "none" THEN @ ELSE "dead"],
             dev' = Fresh,
             mem' = [m \in DOMAIN Size |-> [a \in Range0(m) |-> Blank]],
             Then(<<>>), UNCHANGED host
      PROVE  CardInv'
  <2>1. board' \in Boards /\ board'.driver = board.driver
    BY <1>5 DEF CardInv, Typed, Boards
  <2>2. dev' \in Devices /\ ~dev'.run /\ ~dev'.sel /\ dev'.prog = "none"
        /\ dev'.said = 0 /\ dev'.uart = <<>> /\ dev'.posted = 0
    BY <1>5, FreshCard
  <2>3. MemOK'
    BY <1>5, EmptyMemory DEF MemOK
  <2>4. Registers'
    <3>1. Len(<<>>) <= UartDepth
      BY CardAssumption
    <3> QED BY <2>2, <3>1 DEF Registers
  <2>5. /\ Aim' = Aim /\ host' \in Hosts /\ host'.code = host.code
        /\ \A d : Whole(d) => Whole(d)'
    <3>1. Sane /\ Sane'
      BY <1>3, <1>5 DEF Sane, Open
    <3> QED BY <1>1, <1>5, <3>1
            DEF Aim, Needed, Need, Means, Answer, CardInv, Typed, Whole
  <2>6. Rest'
    <3>1. UartOurs'
      BY <1>3, <1>5 DEF UartOurs
    <3> QED BY <1>5, <2>5, <3>1 DEF CardInv, Rest
  <2>7. \A f \in M.is : Fact(f)'
    <3> SUFFICES ASSUME NEW f \in M.is PROVE Fact(f)'
      OBVIOUS
    <3>1. \A g \in A.is : Fact(g)
      BY <1>3 DEF Holds
    <3>2. CASE f = "whole"
      <4>1. OfFiles("whole")'
        BY <1>3, <1>5, <2>5, <3>1 DEF Fact, OfFiles
      <4> QED BY <3>2, <4>1 DEF Fact, OfCore, OfRead, OfTests, OfBoard
    <3>3. CASE f \in {"easy", "driver", "verified"}
      <4>1. OfBoard(f)'
        BY <1>3, <1>5, <2>1, <3>1, <3>3 DEF Fact, OfBoard
      <4> QED BY <3>3, <4>1 DEF Fact, OfCore, OfRead, OfTests, OfFiles
    <3> QED BY <1>3, <3>2, <3>3
  <2>8. Holds(M)'
    BY <1>3, <2>2, <2>7 DEF Holds
  <2> QED BY <1>1, <1>2, <1>3, <1>5, <2>1, <2>2, <2>3, <2>4, <2>5, <2>6, <2>8, ToolStep
<1> QED BY <1>4, <1>5 DEF Vivado
-----------------------------------------------------------------------------
(* card.py: the card is opened and loaded, a picture written and a result  *)
(* read through the DRAM window.                                           *)

LEMMA CardTriple ==
  ASSUME NEW aim, aim.tool # "runner",
         NEW I, {"whole"} \cup Safe(aim.tool) \subseteq I, I \cap {"flat", "right", "seen"} = {},
         NEW i \in Names \cup {"none"}, NEW d \in Names \cup {"none"}
  PROVE  Triple(aim, Assert(I, {}, {}),
                <<Call("open"), Call("version"), Call("window?"), Call("halt")>>
                  \o (LoadMem("iccm", i) \o LoadMem("dccm", i) \o LoadDram(d)),
                Assert(I \cup {"still", "quiet", "flat", "shut", "good"},
                       Image0(i) \cup Dram0(d), {}))
<1> DEFINE J == I \cup {"still", "quiet", "flat", "shut", "good"}
           Open4 == <<Call("open"), Call("version"), Call("window?"), Call("halt")>>
<1>1. PICK A, P : A = Assert(I, {}, {}) /\ P = Assert(J, {}, {})
  OBVIOUS
<1>2. A.is = I /\ A.mem = {} /\ A.win = {} /\ A.live
      /\ P.is = J /\ P.mem = {} /\ P.win = {} /\ P.live
  BY <1>1, AssertIs
<1>3. /\ Call("open") \in Calls /\ Call("open").op = "open"
      /\ Call("version") \in Calls /\ Call("version").op = "version"
      /\ Call("window?") \in Calls /\ Call("window?").op = "window?"
      /\ Call("halt") \in Calls /\ Call("halt").op = "halt"
  BY CallsAre DEF OpNames
<1>4. Step(aim, A, Call("open"), A)
  BY <1>2, <1>3 DEF Step, Same
<1>5. Step(aim, A, Call("version"), A)
  BY <1>2, <1>3 DEF Step, Same
<1>6. Step(aim, A, Call("window?"), P)
  <2>1. Same(A, P, {"right", "seen"}, {"still", "quiet", "flat", "shut", "good"})
    BY <1>2 DEF Same
  <2> QED BY <1>2, <1>3, <2>1 DEF Step
<1>7. Step(aim, P, Call("halt"), P)
  <2>1. HaltRule(aim.tool, aim.answer, P, P)
    BY <1>2 DEF HaltRule
  <2> QED BY <1>2, <1>3, <2>1 DEF Step
<1>8. Triple(aim, A, Open4, P)
  BY <1>3, <1>4, <1>5, <1>6, <1>7, TripleFour
<1>9. {"whole", "still", "flat", "good"} \subseteq J /\ J \cup {"flat", "shut"} = J
  OBVIOUS
<1> HIDE DEF J, Open4
<1>10. Triple(aim, P, LoadMem("iccm", i) \o LoadMem("dccm", i), Assert(J, Image0(i), {}))
  BY <1>1, <1>9, LoadBoth
<1>11. Triple(aim, Assert(J, Image0(i), {}), LoadDram(d),
              Assert(J, Image0(i) \cup Dram0(d), {}))
  <2>1. Image0(i) \cup Dram0(d)
          \subseteq {c \in Image0(i) : c[1] # "dram"}
                      \cup Part("dram", Range0("dram"), Word(d, 0))
    BY DEF Image0, Dram0, Part
  <2>2. Triple(aim, Assert(J, Image0(i), {}), LoadDram(d),
               Assert(J \cup {"flat", "shut"}, Image0(i) \cup Dram0(d), {}))
    BY <1>9, <2>1, DramTriple
  <2> QED BY <1>9, <2>2
<1>12. Triple(aim, P, LoadMem("iccm", i) \o LoadMem("dccm", i) \o LoadDram(d),
              Assert(J, Image0(i) \cup Dram0(d), {}))
  BY <1>10, <1>11, TripleThen
<1>13. Triple(aim, A, Open4 \o (LoadMem("iccm", i) \o LoadMem("dccm", i) \o LoadDram(d)),
              Assert(J, Image0(i) \cup Dram0(d), {}))
  BY <1>8, <1>12, TripleThen
<1> QED BY <1>1, <1>13 DEF J, Open4

LEMMA InputTriple ==
  ASSUME NEW aim, NEW I, {"whole", "still", "good", "flat", "shut"} \subseteq I,
         NEW C, NEW D, NEW x \in Nat,
         D \subseteq Wrote(C, "dram", InputAt, InputAt, Word("input", x))
  PROVE  Triple(aim, Assert(I, C, {}), LoadInput(x), Assert(I, D, {}))
<1> DEFINE K == I \ {"flat", "shut"}
<1>1. PICK A, A1, A2, A3 :
        /\ A = Assert(I, C, {}) /\ A1 = Assert(K, C, {InputAt})
        /\ A2 = Assert(K, D, {InputAt}) /\ A3 = Assert(I, D, {})
  OBVIOUS
<1>2. /\ A.is = I /\ A.mem = C /\ A.win = {} /\ A.live
      /\ A1.is = K /\ A1.mem = C /\ A1.win = {InputAt} /\ A1.live
      /\ A2.is = K /\ A2.mem = D /\ A2.win = {InputAt} /\ A2.live
      /\ A3.is = I /\ A3.mem = D /\ A3.win = {} /\ A3.live
  BY <1>1, AssertIs
<1>3. InputAt \in Nat /\ InputAt \in Range0("dram") /\ InputAt + 1 <= Size.dram
  BY Sizes DEF InputAt, Range0
<1>4. /\ Window(InputAt) \in Calls /\ Window(InputAt).op = "window"
      /\ Window(InputAt).at = InputAt /\ Window(InputAt).n = 1
      /\ NoWindow \in Calls /\ NoWindow.op = "window" /\ NoWindow.at = 0 /\ NoWindow.n = 0
  BY <1>3, WindowIs
<1>5. PICK p : p = Put("dccm", Word("input", x), 0, 1)
  OBVIOUS
<1>6. /\ p \in Calls /\ p.op = "write" /\ p.mem = "dccm" /\ p.word = Word("input", x)
      /\ p.at = 0 /\ p.n = 1
  <2>1. Word("input", x) \in Values
    BY WordsAre
  <2> QED BY <1>5, <2>1, PutIs
<1>7. Call("guard") \in Calls /\ Step(aim, A, Call("guard"), A)
  BY <1>1, GuardStep
<1>8. Step(aim, A, Window(InputAt), A1)
  <2>1. WindowRule(A, Window(InputAt), A1)
    BY <1>2, <1>3, <1>4 DEF WindowRule
  <2> QED BY <1>2, <1>4, <2>1 DEF Step
<1>9. Step(aim, A1, p, A2)
  <2>1. A2.mem \subseteq Wrote(A1.mem, "dram", InputAt + p.at, InputAt + p.n - 1, p.word)
    <3>1. InputAt + p.at = InputAt /\ InputAt + p.n - 1 = InputAt
      BY <1>3, <1>6
    <3> QED BY <1>2, <1>6, <3>1
  <2>2. InputAt \in A1.win /\ InputAt + p.n <= Size.dram /\ p.n <= Words /\ p.at < p.n
    BY <1>2, <1>3, <1>6, Sizes
  <2>3. WriteRule(A1, p, A2)
    BY <1>2, <1>3, <1>6, <2>1, <2>2 DEF WriteRule
  <2> QED BY <1>2, <1>6, <2>3 DEF Step
<1>10. Step(aim, A2, NoWindow, A3)
  <2>1. 0 \in Range0("dram")
    BY Sizes DEF Range0
  <2>2. WindowRule(A2, NoWindow, A3)
    BY <1>2, <1>4, <2>1 DEF WindowRule
  <2> QED BY <1>2, <1>4, <2>2 DEF Step
<1>11. Triple(aim, A, <<Call("guard"), Window(InputAt), p, NoWindow>>, A3)
  BY <1>4, <1>6, <1>7, <1>8, <1>9, <1>10, TripleFour
<1> QED BY <1>1, <1>5, <1>11 DEF LoadInput

LEMMA ResultTriple ==
  ASSUME NEW aim, aim.tool = "detect",
         NEW I, {"whole", "still", "good", "flat", "shut", "unread"} \subseteq I,
         "read1" \notin I,
         NEW C, Part("dram", ResultAt, aim.answer) \subseteq C
  PROVE  Triple(aim, Assert(I, C, {}), ReadResult,
                Assert((I \ {"unread"}) \cup {"read2"}, C, {}))
<1> DEFINE K == I \ {"flat", "shut"}
           K1 == (K \ {"unread"}) \cup {"read1"}
           K2 == (K \ {"unread"}) \cup {"read2"}
           J == (I \ {"unread"}) \cup {"read2"}
<1>1. PICK off : off = Words * Windows - 2
  OBVIOUS
<1>2. /\ off \in Nat /\ off \in ResultAt /\ off + 1 \in ResultAt
      /\ off \in Range0("dram") /\ off + 1 \in Range0("dram")
  BY <1>1, Sizes DEF Range0, ResultAt
<1>3. <<"dram", off, aim.answer>> \in C /\ <<"dram", off + 1, aim.answer>> \in C
  BY <1>2 DEF Part
<1>4. PICK A, A1, A2, A3, A4 :
        /\ A = Assert(I, C, {}) /\ A1 = Assert(K, C, {off}) /\ A2 = Assert(K1, C, {off})
        /\ A3 = Assert(K2, C, {off}) /\ A4 = Assert(J, C, {})
  OBVIOUS
<1>5. /\ A.is = I /\ A.mem = C /\ A.win = {} /\ A.live
      /\ A1.is = K /\ A1.mem = C /\ A1.win = {off} /\ A1.live
      /\ A2.is = K1 /\ A2.mem = C /\ A2.win = {off} /\ A2.live
      /\ A3.is = K2 /\ A3.mem = C /\ A3.win = {off} /\ A3.live
      /\ A4.is = J /\ A4.mem = C /\ A4.win = {} /\ A4.live
  BY <1>4, AssertIs
<1>6. /\ Window(off) \in Calls /\ Window(off).op = "window"
      /\ Window(off).at = off /\ Window(off).n = 1
      /\ NoWindow \in Calls /\ NoWindow.op = "window" /\ NoWindow.at = 0 /\ NoWindow.n = 0
      /\ Call("read") \in Calls /\ Call("read").op = "read"
  BY <1>2, WindowIs, CallsAre DEF OpNames
<1>7. Call("guard") \in Calls /\ Step(aim, A, Call("guard"), A)
  BY <1>4, GuardStep
<1>8. Step(aim, A, Window(off), A1)
  <2>1. WindowRule(A, Window(off), A1)
    BY <1>2, <1>5, <1>6 DEF WindowRule
  <2> QED BY <1>5, <1>6, <2>1 DEF Step
<1>9. Step(aim, A1, Call("read"), A2)
  <2>1. ReadRule(aim.tool, aim.answer, A1, A2)
    BY <1>2, <1>3, <1>5 DEF ReadRule
  <2> QED BY <1>5, <1>6, <2>1 DEF Step
<1>10. Step(aim, A2, Call("read"), A3)
  <2>1. A3.is \subseteq (A2.is \ {"read1"}) \cup {"read2"} /\ "read1" \in A2.is
    BY <1>5
  <2>2. ReadRule(aim.tool, aim.answer, A2, A3)
    BY <1>2, <1>3, <1>5, <2>1 DEF ReadRule
  <2> QED BY <1>5, <1>6, <2>2 DEF Step
<1>11. Step(aim, A3, NoWindow, A4)
  <2>1. 0 \in Range0("dram")
    BY Sizes DEF Range0
  <2>2. WindowRule(A3, NoWindow, A4)
    BY <1>5, <1>6, <2>1 DEF WindowRule
  <2> QED BY <1>5, <1>6, <2>2 DEF Step
<1>12. Triple(aim, A, <<Call("guard"), Window(off), Call("read"), Call("read"), NoWindow>>, A4)
  BY <1>6, <1>7, <1>8, <1>9, <1>10, <1>11, TripleFive
<1> QED BY <1>1, <1>4, <1>12 DEF ReadResult

\* What card.py knows as it opens the card.
Built == {"whole", "elf", "man", "dram", "stamped"}

LEMMA DetectTriple ==
  ASSUME NEW aim, aim.tool = "detect",
         NEW i \in Names \cup {"none"}, NEW d \in Names \cup {"none"}, NEW x \in Nat,
         aim.need \subseteq Image0(i) \cup WeightsOf(d) \cup PictureOf(x)
  PROVE  \E B : /\ Built \cup {"quiet", "shut", "read2"} \subseteq B.is
                /\ Triple(aim, Assert(Built \cup {"quiet", "shut", "unread"}, {}, {}),
                     <<Call("open"), Call("version"), Call("window?"), Call("halt")>>
                       \o (LoadMem("iccm", i) \o LoadMem("dccm", i) \o LoadDram(d))
                       \o LoadInput(x) \o RunWait \o Halt \o ReadResult, B)
<1> DEFINE I0 == Built \cup {"quiet", "shut", "unread"}
           I1 == I0 \cup {"still", "quiet", "flat", "shut", "good"}
           I2 == Ran(I1, "detect")
           I3 == (I2 \ {"right", "seen"}) \cup {"still", "quiet"}
           I4 == (I3 \ {"unread"}) \cup {"read2"}
           C1 == Image0(i) \cup Dram0(d)
           C2 == Image0(i) \cup WeightsOf(d) \cup PictureOf(x)
           C4 == Part("dram", ResultAt, aim.answer)
           L0 == <<Call("open"), Call("version"), Call("window?"), Call("halt")>>
                   \o (LoadMem("iccm", i) \o LoadMem("dccm", i) \o LoadDram(d))
<1>1. Triple(aim, Assert(I0, {}, {}), L0, Assert(I1, C1, {}))
  <2>1. {"whole"} \cup Safe(aim.tool) \subseteq I0
    BY DEF Safe, Built
  <2>2. I0 \cap {"flat", "right", "seen"} = {}
    BY DEF Built
  <2> HIDE DEF I0
  <2> QED BY <2>1, <2>2, CardTriple
<1>2. Triple(aim, Assert(I1, C1, {}), LoadInput(x), Assert(I1, C2, {}))
  <2>1. {"whole", "still", "good", "flat", "shut"} \subseteq I1
    BY DEF Built
  <2>2. C2 \subseteq Wrote(C1, "dram", InputAt, InputAt, Word("input", x))
    <3>1. InputAt \in InputAt..InputAt /\ \A a \in InputAt..InputAt : a = InputAt
      BY Sizes DEF InputAt
    <3>2. \A c \in Image0(i) : c[1] # "dram"
      BY DEF Image0, Part
    <3>3. \A c \in WeightsOf(d) : c \in Dram0(d) /\ c[2] # InputAt
      BY DEF WeightsOf, Dram0, Part
    <3>4. PictureOf(x) \subseteq Part("dram", InputAt..InputAt, Word("input", x))
      BY <3>1 DEF PictureOf, Part
    <3> QED BY <3>1, <3>2, <3>3, <3>4 DEF Wrote
  <2> HIDE DEF I1, C1, C2
  <2> QED BY <2>1, <2>2, InputTriple
<1>3. Triple(aim, Assert(I1, C2, {}), RunWait, Assert(I2, Kept(C2), {}))
  <2>1. {"whole", "still", "flat"} \subseteq I1
    BY DEF Built
  <2>2. aim.need \subseteq C2
    OBVIOUS
  <2> HIDE DEF I1, C2
  <2>3. Triple(aim, Assert(I1, C2, {}), RunWait, Assert(Ran(I1, aim.tool), Kept(C2), {}))
    BY <2>1, <2>2, RunTriple
  <2> QED BY <2>3
<1>4. {"whole", "right", "seen", "shut", "flat", "good", "unread", "elf", "man", "dram",
       "stamped"} \subseteq I2 /\ "read1" \notin I2
  BY DEF Built, Ran
<1> HIDE DEF I2, C2
<1>5. Triple(aim, Assert(I2, Kept(C2), {}), Halt, Assert(I3, C4, {}))
  <2>1. I3 \subseteq (I2 \ {"right", "seen"}) \cup {"still", "quiet"} /\ "whole" \in I2
        /\ {"right", "seen"} \subseteq I2
    BY <1>4
  <2> HIDE DEF I3
  <2> QED BY <2>1, HaltTriple
<1>6. Triple(aim, Assert(I3, C4, {}), ReadResult, Assert(I4, C4, {}))
  <2>1. {"whole", "still", "good", "flat", "shut", "unread"} \subseteq I3 /\ "read1" \notin I3
    BY <1>4
  <2> HIDE DEF I3, C4
  <2>2. Part("dram", ResultAt, aim.answer) \subseteq C4
    BY DEF C4
  <2> QED BY <2>1, <2>2, ResultTriple
<1>7. PICK B : B = Assert(I4, C4, {})
  OBVIOUS
<1>8. Built \cup {"quiet", "shut", "read2"} \subseteq B.is
  BY <1>4, <1>7, AssertIs DEF Built
<1> HIDE DEF I0, I1, I3, I4, C1, C4, L0
<1>9. Triple(aim, Assert(I0, {}, {}), L0 \o LoadInput(x), Assert(I1, C2, {}))
  BY <1>1, <1>2, TripleThen
<1>10. Triple(aim, Assert(I0, {}, {}), L0 \o LoadInput(x) \o RunWait, Assert(I2, Kept(C2), {}))
  BY <1>3, <1>9, TripleThen
<1>11. Triple(aim, Assert(I0, {}, {}), L0 \o LoadInput(x) \o RunWait \o Halt,
              Assert(I3, C4, {}))
  BY <1>5, <1>10, TripleThen
<1>12. Triple(aim, Assert(I0, {}, {}), L0 \o LoadInput(x) \o RunWait \o Halt \o ReadResult, B)
  BY <1>6, <1>7, <1>11, TripleThen
<1> QED BY <1>8, <1>12 DEF I0, L0

\* The loop of run_card_chunks, when it has loaded the card.
ChunkFacts == {"whole", "shut", "flat", "good", "elf"}

LEMMA ChunkStep ==
  ASSUME NEW aim, aim.tool = "chunks",
         NEW I, ChunkFacts \subseteq I,
         NEW C, {c \in aim.need : c[1] # "dccm"} \subseteq C
  PROVE  /\ Call("chunk") \in Calls
         /\ Step(aim, Assert(I, C, {}), Call("chunk"), [live |-> FALSE])
<1>1. Call("chunk") \in Calls /\ Call("chunk").op = "chunk"
  BY CallsAre DEF OpNames
<1>2. PICK A, M : A = Assert(I, C, {}) /\ M = [live |-> FALSE]
  OBVIOUS
<1>3. A.is = I /\ A.mem = C /\ A.win = {} /\ A.live /\ ~M.live
  BY <1>2, AssertIs
<1>4. Step(aim, A, Call("chunk"), M)
  BY <1>1, <1>3 DEF Step, ChunkFacts
<1> QED BY <1>1, <1>2, <1>4

LEMMA ChunkTriple ==
  ASSUME NEW aim, aim.tool = "chunks",
         NEW i \in Names \cup {"none"}, NEW d \in Names \cup {"none"},
         {c \in aim.need : c[1] # "dccm"} \subseteq Image0(i) \cup Dram0(d)
  PROVE  \E B : /\ ~B.live
                /\ Triple(aim, Assert({"whole", "elf", "shut"}, {}, {}),
                     <<Call("open"), Call("version"), Call("window?"), Call("halt")>>
                       \o (LoadMem("iccm", i) \o LoadMem("dccm", i) \o LoadDram(d))
                       \o <<Call("chunk")>>, B)
<1> DEFINE I0 == {"whole", "elf", "shut"}
           I1 == I0 \cup {"still", "quiet", "flat", "shut", "good"}
           C1 == Image0(i) \cup Dram0(d)
           L0 == <<Call("open"), Call("version"), Call("window?"), Call("halt")>>
                   \o (LoadMem("iccm", i) \o LoadMem("dccm", i) \o LoadDram(d))
<1>1. Triple(aim, Assert(I0, {}, {}), L0, Assert(I1, C1, {}))
  <2>1. {"whole"} \cup Safe(aim.tool) \subseteq I0
    BY DEF Safe
  <2>2. I0 \cap {"flat", "right", "seen"} = {}
    OBVIOUS
  <2> HIDE DEF I0
  <2> QED BY <2>1, <2>2, CardTriple
<1>2. ChunkFacts \subseteq I1
  BY DEF ChunkFacts
<1> HIDE DEF I0, I1, L0
<1>3. Call("chunk") \in Calls /\ Step(aim, Assert(I1, C1, {}), Call("chunk"), [live |-> FALSE])
  BY <1>2, ChunkStep
<1>4. Triple(aim, Assert(I1, C1, {}), <<Call("chunk")>>, [live |-> FALSE])
  BY <1>3, TripleOne
<1>5. Triple(aim, Assert(I0, {}, {}), L0 \o <<Call("chunk")>>, [live |-> FALSE])
  BY <1>1, <1>4, TripleThen
<1>6. ~[live |-> FALSE].live
  OBVIOUS
<1> QED BY <1>5, <1>6 DEF I0, L0

\* One turn of the loop: op n is patched in, and the core runs.
LEMMA TurnTriple ==
  ASSUME NEW aim, aim.tool = "chunks",
         NEW I, {"whole", "shut", "flat", "good", "elf"} \subseteq I,
         NEW C, {c \in aim.need : c[1] # "dccm"} \subseteq C,
         \A c \in C : c[1] # "dccm" /\ (c[1] = "dram" => c[2] \notin ResultAt),
         NEW i \in Names \cup {"none"}, NEW w \in Values,
         {c \in aim.need : c[1] = "dccm"}
           \subseteq Part("dccm", Range0("dccm") \ {LimitAt}, Word(i, 0))
                       \cup Part("dccm", {LimitAt}, w)
  PROVE  \E B : /\ ~B.live
                /\ Triple(aim, Assert(I, C, {}),
                     Halt \o LoadMem("dccm", i) \o <<Put("dccm", w, LimitAt, LimitAt + 1)>>
                       \o RunWait \o <<Call("chunk")>>, B)
<1> DEFINE I1 == (I \ {"right", "seen"}) \cup {"still", "quiet"}
           I2 == Ran(I1, "chunks")
           D0 == Part("dccm", Range0("dccm"), Word(i, 0))
           D1 == Part("dccm", Range0("dccm") \ {LimitAt}, Word(i, 0))
                   \cup Part("dccm", {LimitAt}, w)
           p == Put("dccm", w, LimitAt, LimitAt + 1)
<1>1. Triple(aim, Assert(I, C, {}), Halt, Assert(I1, C, {}))
  <2>1. I1 \subseteq (I \ {"right", "seen"}) \cup {"still", "quiet"} /\ "whole" \in I
    OBVIOUS
  <2> HIDE DEF I1
  <2> QED BY <2>1, HaltTriple
<1>2. {"whole", "still", "flat", "shut", "good", "elf"} \subseteq I1
  OBVIOUS
<1>3. ChunkFacts \subseteq I2
  BY DEF ChunkFacts, Ran
<1> HIDE DEF I1, I2
<1>4. Triple(aim, Assert(I1, C, {}), LoadMem("dccm", i), Assert(I1, C \cup D0, {}))
  <2>1. Range0("dccm") = 0..(Words - 1)
    BY Sizes DEF Range0
  <2>2. C \cup D0 \subseteq Wrote(C, "dccm", 0, Words - 1, Word(i, 0))
    BY <2>1 DEF Wrote
  <2> QED BY <1>2, <2>2, LoadTriple
<1>5. Triple(aim, Assert(I1, C \cup D0, {}), <<p>>, Assert(I1, C \cup D1, {}))
  <2>1. LimitAt \in Nat /\ LimitAt + 1 \in Nat /\ LimitAt < LimitAt + 1 /\ LimitAt + 1 <= Words
        /\ LimitAt + 1 - 1 = LimitAt
    BY Sizes DEF LimitAt
  <2>2. \A e : e = LimitAt => C \cup D1 \subseteq Wrote(C \cup D0, "dccm", LimitAt, e, w)
    <3>1. \A a \in LimitAt..LimitAt : a = LimitAt
      BY <2>1
    <3>2. LimitAt \in LimitAt..LimitAt
      BY <2>1
    <3>3. \A c \in D1 : \/ c \in D0 /\ c[2] # LimitAt
                        \/ c \in Part("dccm", {LimitAt}, w)
      BY DEF Part
    <3>4. Part("dccm", {LimitAt}, w) = Part("dccm", LimitAt..LimitAt, w)
      BY <3>1, <3>2 DEF Part
    <3> QED BY <2>1, <3>1, <3>3, <3>4 DEF Wrote
  <2>3. p \in Calls
    BY <2>1, PutIs
  <2> HIDE DEF D0, D1
  <2>4. Step(aim, Assert(I1, C \cup D0, {}), p, Assert(I1, C \cup D1, {}))
    <3>1. PICK n \in Nat : n = LimitAt + 1
      BY <2>1
    <3>2. "dccm" \in {"iccm", "dccm"} /\ "flat" \in I1 /\ {"whole", "still"} \subseteq I1
      BY <1>2
    <3>3. LimitAt < n /\ n <= Words
      BY <2>1, <3>1
    <3>5. C \cup D1 \subseteq Wrote(C \cup D0, "dccm", LimitAt, n - 1, w)
      <4>1. n - 1 = LimitAt
        BY <2>1, <3>1
      <4> QED BY <2>2, <4>1
    <3>4. Step(aim, Assert(I1, C \cup D0, {}), Put("dccm", w, LimitAt, n), Assert(I1, C \cup D1, {}))
      BY <2>1, <3>2, <3>3, <3>5, WriteStep
    <3> QED BY <3>1, <3>4
  <2> QED BY <2>3, <2>4, TripleOne
<1>6. aim.need \subseteq C \cup D1
  <2> SUFFICES ASSUME NEW c \in aim.need PROVE c \in C \cup D1
    OBVIOUS
  <2> QED OBVIOUS
<1>7. C \subseteq Kept(C \cup D1)
  BY DEF Kept, Untouched
<1> HIDE DEF D0, D1, p
<1>8. Triple(aim, Assert(I1, C \cup D1, {}), RunWait, Assert(I2, Kept(C \cup D1), {}))
  <2>1. Triple(aim, Assert(I1, C \cup D1, {}), RunWait,
               Assert(Ran(I1, aim.tool), Kept(C \cup D1), {}))
    BY <1>2, <1>6, RunTriple
  <2> QED BY <2>1 DEF I2
<1>9. Triple(aim, Assert(I2, Kept(C \cup D1), {}), <<Call("chunk")>>, [live |-> FALSE])
  <2>1. {c \in aim.need : c[1] # "dccm"} \subseteq Kept(C \cup D1)
    BY <1>7
  <2>2. /\ Call("chunk") \in Calls
        /\ Step(aim, Assert(I2, Kept(C \cup D1), {}), Call("chunk"), [live |-> FALSE])
    BY <1>3, <2>1, ChunkStep
  <2> QED BY <2>2, TripleOne
<1>10. Triple(aim, Assert(I, C, {}), Halt \o LoadMem("dccm", i), Assert(I1, C \cup D0, {}))
  BY <1>1, <1>4, TripleThen
<1>11. Triple(aim, Assert(I, C, {}), Halt \o LoadMem("dccm", i) \o <<p>>,
              Assert(I1, C \cup D1, {}))
  BY <1>5, <1>10, TripleThen
<1>12. Triple(aim, Assert(I, C, {}), Halt \o LoadMem("dccm", i) \o <<p>> \o RunWait,
              Assert(I2, Kept(C \cup D1), {}))
  BY <1>8, <1>11, TripleThen
<1>13. Triple(aim, Assert(I, C, {}),
              Halt \o LoadMem("dccm", i) \o <<p>> \o RunWait \o <<Call("chunk")>>,
              [live |-> FALSE])
  BY <1>9, <1>12, TripleThen
<1>14. ~[live |-> FALSE].live
  OBVIOUS
<1> QED BY <1>13, <1>14 DEF p

\* What does not depend on the tool's image.
LEMMA BuiltFrame ==
  ASSUME UNCHANGED <<dev, files>>,
         host'.dir = host.dir, host'.want = host.want,
         host'.started = host.started, host'.got = host.got
  PROVE  \A f \in Built \cup {"quiet", "shut", "unread"} : Fact(f) => Fact(f)'
<1> SUFFICES ASSUME NEW f \in Built \cup {"quiet", "shut", "unread"}, Fact(f) PROVE Fact(f)'
  OBVIOUS
<1>1. OfCore(f)'
  BY DEF Built, Fact, OfCore
<1>2. OfRead(f)'
  BY DEF Built, Fact, OfRead
<1>3. OfFiles(f)'
  BY DEF Fact, OfFiles, Whole, Dir
<1>4. OfTests(f)' /\ OfBoard(f)'
  BY DEF Built, OfTests, OfBoard
<1> QED BY <1>1, <1>2, <1>3, <1>4 DEF Fact

LEMMA UseImageInv == ASSUME CardInv, UseImage PROVE CardInv'
<1>1. /\ Is("image") /\ todo # <<>> /\ ~Is("write")
      /\ UNCHANGED <<board, dev, mem, files, uses>>
  BY DEF UseImage, Is
<1>2. PICK A, M, B : Turn(A, M, B)
  BY <1>1, TurnOf DEF CardInv
<1>3. /\ {"elf", "man", "dram", "stamped", "unread", "whole"} \subseteq A.is
      /\ Safe(host.tool) \subseteq A.is
      /\ host.tool \in {"detect", "chunks"} /\ ~M.live /\ Holds(A)
  BY <1>1, <1>2 DEF Turn, Step, Is, Aim
<1>4. Tail(todo) = <<>>
  BY <1>2, <1>3, LastCall
<1>5. /\ host \in Hosts /\ files \in [{"main", "bb"} -> Dirs] /\ host.dir \in {"main", "bb"}
      /\ host.input \in Nat /\ host.want \in Names /\ Images[host.want].dram
      /\ host.want \in Names \cup {"none"}
  BY <1>3 DEF CardInv, Typed, Hosts, Rest
<1>6. PICK i, d : i = Dir.elf /\ d = Dir.dram
  OBVIOUS
<1>7. i \in Names \cup {"none"} /\ d \in Names \cup {"none"}
  BY <1>5, <1>6 DEF Dir, Dirs
<1>8. \A f \in A.is : Fact(f)
  BY <1>3 DEF Holds
<1>9. CASE host' = [host EXCEPT !.image = i]
           /\ Then(IF host.tool = "detect" THEN DetectRun ELSE ChunkRun)
  <2>1. But(host, host', {"image"}) /\ host'.image = i
    <3>1. \A v \in Names \cup {"none"} : \A h2 : h2 = [host EXCEPT !.image = v] =>
            But(host, h2, {"image"}) /\ h2.image = v
      BY <1>5, HostBut
    <3> QED BY <1>7, <1>9, <3>1
  <2>2. /\ host'.tool = host.tool /\ host'.want = host.want /\ host'.ours = host.ours
        /\ host'.input = host.input /\ host'.limit = host.limit /\ host'.dir = host.dir
        /\ host'.got = host.got /\ host'.started = host.started
        /\ host'.mapped = host.mapped /\ host'.results = host.results
        /\ host'.code = host.code /\ host' \in Hosts
    BY <2>1 DEF But
  <2>3. \A f \in Built \cup {"quiet", "shut", "unread"} : Fact(f) => Fact(f)'
    BY <1>1, <2>2, BuiltFrame
  <2>4. Means(host)' = host.want /\ Answer' = Answer
    BY <1>3, <2>2 DEF Means, Answer
  <2>5. Sane' => i = host.want /\ d = host.want
    <3> HAVE Sane'
    <3>1. ~BuildBreaks
      BY <1>3, <2>2 DEF Sane
    <3> QED BY <1>3, <1>6, <1>8, <3>1 DEF Fact, OfFiles
  <2>6. /\ CodeOf(i) \subseteq Image0(i) /\ DataOf(i, 0) \subseteq Image0(i)
        /\ WeightsOf(i) \subseteq Dram0(i)
    BY ImageHas
  <2>7. Rest' /\ Registers'
    <3>1. Rest /\ UNCHANGED <<board, files>> /\ host'.ours
      BY <1>1, <2>2 DEF CardInv, Rest
    <3>2. Rest'
      BY <2>2, <3>1, RestFrame
    <3> QED BY <1>1, <3>2 DEF CardInv, Registers
  <2>8. CASE host.tool = "detect"
    <3>1. PICK P : P = Assert(Built \cup {"quiet", "shut", "unread"}, {}, {})
      OBVIOUS
    <3>2. P.live /\ P.is = Built \cup {"quiet", "shut", "unread"} /\ P.mem = {} /\ P.win = {}
      BY <3>1, AssertIs
    <3>3. Holds(P)'
      <4>1. P.is \subseteq A.is
        BY <1>3, <2>8, <3>2 DEF Built, Safe
      <4>2. P.is \cap {"noeot", "nouart"} = {}
        BY <3>2 DEF Built
      <4> QED BY <1>8, <2>3, <3>2, <4>1, <4>2 DEF Holds
    <3>4. Aim'.need \subseteq Image0(i) \cup WeightsOf(d) \cup PictureOf(host.input)
      <4>1. CASE Sane'
        <5>1. Need(host)' \subseteq CodeOf(host.want) \cup DataOf(host.want, 0)
                                      \cup WeightsOf(host.want) \cup PictureOf(host.input)
          BY <2>2, <2>4, <2>8 DEF Need
        <5> QED BY <2>5, <2>6, <4>1, <5>1 DEF Aim, Needed
      <4>2. CASE ~Sane'
        BY <4>2 DEF Aim, Needed
      <4> QED BY <4>1, <4>2
    <3>5. Aim'.tool = "detect"
      BY <2>2, <2>8 DEF Aim
    <3>6. PICK Q : /\ Built \cup {"quiet", "shut", "read2"} \subseteq Q.is
                   /\ Triple(Aim', P, DetectRun, Q)
      BY <1>5, <1>6, <1>7, <3>1, <3>4, <3>5, DetectTriple DEF DetectRun, LoadCard
    <3>7. todo' = DetectRun /\ todo' \in Seq(Calls)
      <4>1. DetectRun \in Seq(Calls)
        BY <3>6 DEF Triple
      <4> QED BY <1>4, <1>9, <2>8, <4>1, ThenLast
    <3>8. Goal(host'.tool, host'.code) \subseteq Q.is
      BY <2>2, <2>8, <3>6 DEF Goal, Safe, Built
    <3>9. Going'
      BY <3>2, <3>3, <3>6, <3>7, <3>8, GoAfresh
    <3>10. Typed'
      BY <1>1, <2>2, <3>7 DEF CardInv, Typed, MemOK
    <3>11. Posting'
      BY <1>1, <3>10, NotPosting DEF CardInv, Posting
    <3> QED BY <2>7, <3>9, <3>10, <3>11 DEF CardInv
  <2>9. CASE host.tool = "chunks"
    <3>1. PICK P : P = Assert({"whole", "elf", "shut"}, {}, {})
      OBVIOUS
    <3>2. P.live /\ P.is = {"whole", "elf", "shut"} /\ P.mem = {} /\ P.win = {}
      BY <3>1, AssertIs
    <3>3. Holds(P)'
      <4>1. P.is \subseteq A.is /\ P.is \subseteq Built \cup {"quiet", "shut", "unread"}
        BY <1>3, <2>9, <3>2 DEF Built, Safe
      <4>2. P.is \cap {"noeot", "nouart"} = {}
        BY <3>2
      <4> QED BY <1>8, <2>3, <3>2, <4>1, <4>2 DEF Holds
    <3>4. {c \in Aim'.need : c[1] # "dccm"} \subseteq Image0(i) \cup Dram0(d)
      <4>1. CASE Sane'
        <5>1. Need(host)' \subseteq CodeOf(host.want) \cup DataOf(host.want, host.limit)
                                      \cup WeightsOf(host.want)
          BY <2>2, <2>4, <2>9 DEF Need
        <5>2. \A c \in DataOf(host.want, host.limit) : c[1] = "dccm"
          BY DEF DataOf, Part
        <5> QED BY <2>5, <2>6, <4>1, <5>1, <5>2 DEF Aim, Needed
      <4>2. CASE ~Sane'
        BY <4>2 DEF Aim, Needed
      <4> QED BY <4>1, <4>2
    <3>5. Aim'.tool = "chunks"
      BY <2>2, <2>9 DEF Aim
    <3>6. PICK Q : ~Q.live /\ Triple(Aim', P, ChunkRun, Q)
      BY <1>6, <1>7, <3>1, <3>4, <3>5, ChunkTriple DEF ChunkRun, LoadCard
    <3>7. todo' = ChunkRun /\ todo' \in Seq(Calls)
      <4>1. ChunkRun \in Seq(Calls)
        BY <3>6 DEF Triple
      <4> QED BY <1>4, <1>9, <2>9, <4>1, ThenLast
    <3>8. Going'
      BY <3>2, <3>3, <3>6, <3>7, GoAfresh
    <3>9. Typed'
      BY <1>1, <2>2, <3>7 DEF CardInv, Typed, MemOK
    <3>10. Posting'
      BY <1>1, <3>9, NotPosting DEF CardInv, Posting
    <3> QED BY <2>7, <3>8, <3>9, <3>10 DEF CardInv
  <2> QED BY <1>3, <2>8, <2>9
<1>10. ASSUME host.dir = "main", Then(<<Call("ensure"), Call("image")>>),
              NEW w, w = (IF host.want \in DOMAIN Detects THEN Detects[host.want] ELSE host.want),
              host' = [host EXCEPT !.dir = "bb", !.want = w]
       PROVE  CardInv'
  <2>1. w \in Names /\ Images[w].dram
    BY <1>5, <1>10, CardAssumption
  <2>2. But(host, host', {"dir", "want"}) /\ host'.dir = "bb" /\ host'.want = w
    <3>1. "bb" \in {"main", "bb"} /\ w \in Names \cup {"none"}
      BY <2>1
    <3>2. \A h2 : h2 = [host EXCEPT !.dir = "bb", !.want = w] =>
            But(host, h2, {"dir", "want"}) /\ h2.dir = "bb" /\ h2.want = w
      BY <1>5, <3>1, HostDir
    <3> QED BY <1>10, <3>2
  <2>3. /\ host'.tool = host.tool /\ host'.ours = host.ours
        /\ host'.got = host.got /\ host'.started = host.started
        /\ host'.mapped = host.mapped /\ host'.results = host.results
        /\ host'.code = host.code /\ host' \in Hosts
    BY <2>2 DEF But
  <2>4. Whole("bb")' /\ Whole("main")'
    <3>1. Whole("main")
      BY <1>3, <1>8, <1>10 DEF Fact, OfFiles
    <3>2. Whole("bb")
      BY <1>10 DEF CardInv, Rest
    <3> QED BY <1>1, <3>1, <3>2 DEF Whole
  <2>5. PICK P, P1, Q : /\ P = Assert({"whole", "unread"} \cup Safe(host.tool), {}, {})
                        /\ P1 = Assert(Built \cup {"unread"} \cup Safe(host.tool), {}, {})
                        /\ Q = [live |-> FALSE]
    OBVIOUS
  <2>6. /\ P.live /\ P.is = {"whole", "unread"} \cup Safe(host.tool)
        /\ P.mem = {} /\ P.win = {}
        /\ P1.live /\ P1.is = Built \cup {"unread"} \cup Safe(host.tool)
        /\ P1.mem = {} /\ P1.win = {} /\ ~Q.live
    BY <2>5, AssertIs
  <2>7. Safe(host.tool) \subseteq {"quiet", "shut"}
    BY <1>3 DEF Safe
  <2>8. Holds(P)'
    <3>1. Fact("whole")'
      BY <2>2, <2>4 DEF Fact, OfCore, OfRead, OfTests, OfBoard, OfFiles
    <3>2. Fact("unread")'
      <4>1. OfRead("unread")'
        BY <1>3, <1>8, <2>3 DEF Fact, OfRead
      <4> QED BY <4>1 DEF Fact, OfCore, OfTests, OfBoard, OfFiles
    <3>3. ASSUME NEW f \in Safe(host.tool) PROVE Fact(f)'
      <4>1. OfCore(f)'
        BY <1>1, <1>3, <1>8, <2>3, <2>7, <3>3 DEF Fact, OfCore
      <4> QED BY <2>7, <3>3, <4>1, CoreOnly DEF Fact, CoreNames
    <3>4. P.is \cap {"noeot", "nouart"} = {}
      BY <2>6, <2>7
    <3> QED BY <2>6, <3>1, <3>2, <3>3, <3>4 DEF Holds
  <2>9. /\ Call("ensure") \in Calls /\ Call("ensure").op = "ensure"
        /\ Call("image") \in Calls /\ Call("image").op = "image"
    BY CallsAre DEF OpNames
  <2>10. Aim'.tool = host.tool
    BY <2>3 DEF Aim
  <2>11. Step(Aim', P, Call("ensure"), P1)
    BY <2>6, <2>9, <2>10 DEF Step, Same, Built
  <2>12. Step(Aim', P1, Call("image"), Q)
    BY <1>3, <2>6, <2>9, <2>10 DEF Step, Built
  <2>13. Triple(Aim', P, <<Call("ensure"), Call("image")>>, Q)
    BY <2>9, <2>11, <2>12, TripleTwo
  <2>14. todo' = <<Call("ensure"), Call("image")>> /\ todo' \in Seq(Calls)
    <3>1. <<Call("ensure"), Call("image")>> \in Seq(Calls)
      BY <2>13 DEF Triple
    <3> QED BY <1>4, <1>10, <3>1, ThenLast
  <2>15. Going'
    BY <2>6, <2>8, <2>13, <2>14, GoAfresh
  <2>16. Typed'
    BY <1>1, <2>3, <2>14 DEF CardInv, Typed, MemOK
  <2>17. Posting'
    BY <1>1, <2>16, NotPosting DEF CardInv, Posting
  <2>18. Rest'
    <3>1. UartOurs'
      BY <1>3, <2>3 DEF UartOurs
    <3> QED BY <2>1, <2>2, <2>3, <2>4, <3>1 DEF CardInv, Rest
  <2>19. Registers'
    BY <1>1 DEF CardInv, Registers
  <2> QED BY <2>15, <2>16, <2>17, <2>18, <2>19 DEF CardInv
<1>11. CASE Raise
  <2>1. {"whole"} \cup Safe(host.tool) \subseteq A.is
    BY <1>3
  <2> QED BY <1>1, <1>2, <1>11, <2>1, RaiseInv
<1>12. CASE ~Images[i].big
  BY <1>6, <1>9, <1>12 DEF UseImage
<1>13. CASE Images[i].big /\ host.dir = "main"
  <2>1. PICK w : w = IF host.want \in DOMAIN Detects THEN Detects[host.want] ELSE host.want
    OBVIOUS
  <2>2. Then(<<Call("ensure"), Call("image")>>) /\ host' = [host EXCEPT !.dir = "bb", !.want = w]
    BY <1>6, <1>13, <2>1 DEF UseImage
  <2> QED BY <1>10, <1>13, <2>1, <2>2
<1>14. CASE Images[i].big /\ host.dir # "main"
  BY <1>6, <1>11, <1>14 DEF UseImage
<1> QED BY <1>12, <1>13, <1>14

LEMMA RunChunkInv == ASSUME CardInv, RunChunk PROVE CardInv'
<1>1. /\ Is("chunk") /\ todo # <<>> /\ ~Is("write")
      /\ UNCHANGED <<board, dev, mem, files, uses>>
  BY DEF RunChunk, Is
<1>2. PICK A, M, B : Turn(A, M, B)
  BY <1>1, TurnOf DEF CardInv
<1>3. /\ ChunkFacts \subseteq A.is
      /\ {c \in Aim.need : c[1] # "dccm"} \subseteq A.mem
      /\ host.tool = "chunks" /\ ~M.live /\ Holds(A)
  BY <1>1, <1>2 DEF Turn, Step, Is, Aim, ChunkFacts
<1>4. Tail(todo) = <<>>
  BY <1>2, <1>3, LastCall
<1>5. /\ host \in Hosts /\ files \in [{"main", "bb"} -> Dirs] /\ host.dir \in {"main", "bb"}
      /\ host.limit \in Nat /\ host.want \in Names
  BY <1>3 DEF CardInv, Typed, Hosts, Rest
<1>6. CASE host.limit < Ops
  <2>1. PICK n : n = host.limit + 1
    OBVIOUS
  <2>2. PICK i : i = Dir.elf
    OBVIOUS
  <2>3. PICK w : w = Word(host.want, n)
    OBVIOUS
  <2>4. n \in Nat /\ i \in Names \cup {"none"} /\ w \in Values
    BY <1>5, <2>1, <2>2, <2>3 DEF Dir, Dirs, Word, Values
  <2>5. /\ host' = [host EXCEPT !.limit = n]
        /\ Then(Halt \o LoadMem("dccm", i) \o <<Put("dccm", w, LimitAt, LimitAt + 1)>>
                  \o RunWait \o <<Call("chunk")>>)
    BY <1>6, <2>1, <2>2, <2>3 DEF RunChunk
  <2>6. But(host, host', {"limit"}) /\ host'.limit = n
    <3>1. \A v \in Nat : \A h2 : h2 = [host EXCEPT !.limit = v] =>
            But(host, h2, {"limit"}) /\ h2.limit = v
      BY <1>5, HostBut
    <3> QED BY <2>4, <2>5, <3>1
  <2>7. /\ host'.tool = host.tool /\ host'.want = host.want /\ host'.ours = host.ours
        /\ host'.image = host.image /\ host'.dir = host.dir
        /\ host'.got = host.got /\ host'.started = host.started
        /\ host'.mapped = host.mapped /\ host'.results = host.results
        /\ host'.code = host.code /\ host' \in Hosts
    BY <2>6 DEF But
  <2>8. (Sane' <=> Sane) /\ Means(host)' = host.want /\ Means(host) = host.want
        /\ (Open' <=> Open)
    BY <1>3, <2>7 DEF Sane, Open, Means
  <2>9. PICK X : X = CodeOf(host.want) \cup (IF Images[host.want].dram THEN WeightsOf(host.want)
                                             ELSE {})
    OBVIOUS
  <2>10. \A c \in X : c[1] # "dccm" /\ (c[1] = "dram" => c[2] \notin ResultAt)
    BY <2>9 DEF CodeOf, WeightsOf, Part
  <2>11. \A k : \A c \in DataOf(host.want, k) : c[1] = "dccm"
    BY DEF DataOf, Part
  <2>12. /\ X \subseteq Need(host)
         /\ Need(host)' \subseteq X \cup DataOf(host.want, n)
    BY <1>3, <2>6, <2>7, <2>8, <2>9 DEF Need
  <2>13. PICK C : C = {c \in Aim'.need : c[1] # "dccm"}
    OBVIOUS
  <2>14. C \subseteq X /\ (C # {} => Sane)
    BY <2>8, <2>11, <2>12, <2>13 DEF Aim, Needed
  <2>15. ASSUME NEW c \in C PROVE Cell(c)'
    <3>1. Sane /\ c \in A.mem
      BY <1>3, <2>10, <2>12, <2>14, <2>15 DEF Aim, Needed
    <3>2. Cell(c)
      BY <1>3, <3>1 DEF Holds
    <3> QED BY <1>1, <3>2 DEF Cell
  <2>16. {c \in Aim'.need : c[1] = "dccm"}
           \subseteq Part("dccm", Range0("dccm") \ {LimitAt}, Word(i, 0))
                       \cup Part("dccm", {LimitAt}, w)
    <3>1. CASE Sane'
      <4>1. ~BuildBreaks
        BY <1>3, <2>7, <3>1 DEF Sane
      <4>2. i = host.want
        BY <1>3, <2>2, <4>1 DEF Holds, Fact, OfFiles, ChunkFacts
      <4> QED BY <2>3, <2>10, <2>12, <3>1, <4>2 DEF Aim, Needed, DataOf
    <3>2. CASE ~Sane'
      BY <3>2 DEF Aim, Needed
    <3> QED BY <3>1, <3>2
  <2>17. PICK P : P = Assert(ChunkFacts, C, {})
    OBVIOUS
  <2>18. P.live /\ P.is = ChunkFacts /\ P.mem = C /\ P.win = {}
    BY <2>17, AssertIs
  <2>19. ASSUME NEW f \in ChunkFacts PROVE Fact(f)'
    <3>1. Fact(f)
      BY <1>3, <2>19 DEF Holds
    <3>2. OfCore(f)'
      BY <1>1, <2>7, <2>19, <3>1 DEF Fact, OfCore, ChunkFacts
    <3>3. OfRead(f)' /\ OfTests(f)'
      BY <2>19 DEF OfRead, OfTests, ChunkFacts
    <3>4. OfFiles(f)'
      BY <1>1, <2>7, <3>1 DEF Fact, OfFiles, Whole, Dir
    <3>5. OfBoard(f)'
      BY <1>1, <2>8, <2>19, <3>1 DEF Fact, OfBoard, ChunkFacts
    <3> QED BY <3>2, <3>3, <3>4, <3>5 DEF Fact
  <2>20. Holds(P)'
    <3>1. P.is \cap {"noeot", "nouart"} = {}
      BY <2>18 DEF ChunkFacts
    <3>2. \A c \in P.mem : Untouched(c)
      BY <2>10, <2>14, <2>18 DEF Untouched
    <3>3. (\A c \in P.mem : Untouched(c))'
      BY <3>2 DEF Untouched, ResultAt, DataAt
    <3> QED BY <2>15, <2>18, <2>19, <3>1, <3>3 DEF Holds
  <2>21. PICK L : L = Halt \o LoadMem("dccm", i) \o <<Put("dccm", w, LimitAt, LimitAt + 1)>>
                        \o RunWait \o <<Call("chunk")>>
    OBVIOUS
  <2>22. PICK Q : ~Q.live /\ Triple(Aim', P, L, Q)
    <3>1. Aim'.tool = "chunks"
      BY <1>3, <2>7 DEF Aim
    <3>2. {"whole", "shut", "flat", "good", "elf"} \subseteq ChunkFacts
      BY DEF ChunkFacts
    <3>3. {c \in Aim'.need : c[1] # "dccm"} \subseteq C
      BY <2>13
    <3>4. \A c \in C : c[1] # "dccm" /\ (c[1] = "dram" => c[2] \notin ResultAt)
      BY <2>10, <2>14
    <3> QED BY <2>4, <2>16, <2>17, <2>21, <3>1, <3>2, <3>3, <3>4, TurnTriple
  <2>23. todo' = L /\ todo' \in Seq(Calls)
    <3>1. L \in Seq(Calls)
      BY <2>22 DEF Triple
    <3> QED BY <1>4, <2>5, <2>21, <3>1, ThenLast
  <2>24. Going'
    BY <2>18, <2>20, <2>22, <2>23, GoAfresh
  <2>25. Typed'
    BY <1>1, <2>7, <2>23 DEF CardInv, Typed, MemOK
  <2>26. Posting'
    BY <1>1, <2>25, NotPosting DEF CardInv, Posting
  <2>27. Rest' /\ Registers'
    <3>1. Rest /\ UNCHANGED <<board, files>> /\ host'.ours
      BY <1>1, <2>7 DEF CardInv, Rest
    <3>2. Rest'
      BY <2>7, <3>1, RestFrame
    <3> QED BY <1>1, <3>2 DEF CardInv, Registers
  <2> QED BY <2>24, <2>25, <2>26, <2>27 DEF CardInv
<1>7. CASE ~(host.limit < Ops)
  <2>1. Then(<<>>) /\ UNCHANGED host
    BY <1>7 DEF RunChunk
  <2>2. todo' = <<>> /\ todo' \in Seq(Calls)
    <3>1. <<>> \in Seq(Calls)
      OBVIOUS
    <3> QED BY <1>4, <2>1, <3>1, ThenLast
  <2>3. UNCHANGED <<board, dev, mem, files, host>>
    BY <1>1, <2>1
  <2>4. /\ \A f : Fact(f) => Fact(f)'
        /\ Rest => Rest'
        /\ Registers => Registers'
    BY <2>3, AllSame
  <2>5. Goal(host'.tool, host'.code) \subseteq A.is
    BY <1>3, <2>1 DEF Goal, Safe, ChunkFacts
  <2>6. Going'
    BY <1>3, <2>2, <2>4, <2>5, GoStop DEF Holds
  <2>7. Typed'
    BY <1>1, <2>1, <2>2 DEF CardInv, Typed, MemOK
  <2>8. Posting'
    BY <1>1, <2>7, NotPosting DEF CardInv, Posting
  <2> QED BY <2>4, <2>6, <2>7, <2>8 DEF CardInv
<1> QED BY <1>6, <1>7
-----------------------------------------------------------------------------
(* A tool is started, or killed.                                           *)

LEMMA AllWhole ==
  ASSUME CardInv, ~Running
  PROVE  \A d \in {"main", "bb"} : Whole(d)
<1>1. PICK A, B : /\ A.live /\ Triple(Aim, A, todo, B) /\ Holds(A)
                  /\ B.live => Goal(host.tool, host.code) \subseteq B.is
  BY DEF CardInv, Going
<1>2. A = B
  BY <1>1, TripleEnd DEF Running
<1>3. Fact("whole")
  BY <1>1, <1>2 DEF Goal, Holds
<1> QED BY <1>3 DEF Fact, OfFiles, CardInv, Rest

\* A tool that has done nothing yet.
New(h) ==
  /\ h \in Hosts /\ h.code = 0 /\ h.ours /\ h.results = <<>> /\ h.got = <<>>
  /\ ~h.started /\ h.image = "none" /\ h.dir = "main"

NewFacts == {"whole", "quiet", "shut", "unread", "listed", "unjudged"}

LEMMA NewKnows ==
  ASSUME New(host'), \A d \in {"main", "bb"} : Whole(d)'
  PROVE  /\ \A f \in NewFacts : Fact(f)'
         /\ host'.limit # 1 => Fact("easy")'
<1>1. \A f \in NewFacts \cup {"easy"} : OfCore(f)'
  BY DEF NewFacts, OfCore, New
<1>2. \A f \in NewFacts \cup {"easy"} : OfRead(f)'
  BY DEF NewFacts, OfRead, New
<1>3. \A f \in NewFacts \cup {"easy"} : OfTests(f)'
  <2>1. Judged' = 0
    BY DEF Judged, New
  <2>2. Len(host'.tests) \in Nat
    BY DEF New, Hosts
  <2> QED BY <2>1, <2>2 DEF NewFacts, OfTests, New
<1>4. \A f \in NewFacts \cup {"easy"} : OfFiles(f)'
  <2>1. Whole(host.dir)'
    BY DEF New
  <2> QED BY <2>1 DEF NewFacts, OfFiles
<1>5. \A f \in NewFacts : OfBoard(f)'
  BY DEF NewFacts, OfBoard
<1>6. host'.limit # 1 => OfBoard("easy")'
  BY DEF OfBoard
<1> QED BY <1>1, <1>2, <1>3, <1>4, <1>5, <1>6 DEF Fact

LEMMA StartInv ==
  ASSUME CardInv, NEW h, NEW calls, Start(h, calls), New(h),
         h.tool \in {"detect", "chunks"} => h.want \in Names /\ Images[h.want].dram,
         NEW I, I \subseteq NewFacts \cup (IF h.limit # 1 THEN {"easy"} ELSE {}),
         NEW B, Triple(Aim', Assert(I, {}, {}), calls, B),
         B.live => Goal(h.tool, 0) \subseteq B.is
  PROVE  CardInv'
<1>1. /\ ~Running /\ uses < MaxUses /\ uses' = uses + 1 /\ host' = h /\ todo' = calls
      /\ UNCHANGED <<board, dev, mem, files>>
  BY DEF Start
<1>2. \A d \in {"main", "bb"} : Whole(d)'
  <2>1. \A d \in {"main", "bb"} : Whole(d)
    BY <1>1, AllWhole
  <2> QED BY <1>1, <2>1 DEF Whole
<1>3. PICK A : A = Assert(I, {}, {})
  OBVIOUS
<1>4. A.live /\ A.is = I /\ A.mem = {} /\ A.win = {}
  BY <1>3, AssertIs
<1>5. New(host')
  BY <1>1
<1>6. Holds(A)'
  <2>1. \A f \in I : Fact(f)'
    <3>1. /\ \A f \in NewFacts : Fact(f)'
          /\ host'.limit # 1 => Fact("easy")'
      BY <1>2, <1>5, NewKnows
    <3> QED BY <1>1, <3>1
  <2>2. A.is \cap {"noeot", "nouart"} = {}
    BY <1>4 DEF NewFacts
  <2> QED BY <1>4, <2>1, <2>2 DEF Holds
<1>7. Going'
  <2>1. Goal(host'.tool, host'.code) = Goal(h.tool, 0)
    BY <1>1 DEF New
  <2> QED BY <1>1, <1>3, <1>4, <1>6, <2>1, GoAfresh
<1>8. Typed'
  <2>1. calls \in Seq(Calls)
    BY DEF Triple
  <2>2. uses' \in 0..MaxUses
    BY <1>1, CardAssumption DEF CardInv, Typed
  <2> QED BY <1>1, <2>1, <2>2 DEF CardInv, Typed, MemOK, New
<1>9. Posting'
  <2>1. dev'.posted = 0
    BY <1>1 DEF CardInv, Posting, Running, Is
  <2> QED BY <1>8, <2>1, NotPosting
<1>10. Rest'
  <2>1. UartOurs'
    BY <1>5 DEF UartOurs, New
  <2> QED BY <1>1, <1>2, <1>5, <2>1 DEF Rest, New
<1>11. Registers'
  BY <1>1 DEF CardInv, Registers
<1> QED BY <1>7, <1>8, <1>9, <1>10, <1>11 DEF CardInv

LEMMA NoHostNew == New(NoHost) /\ NoHost.tool = "none" /\ NoHost.want = "none"
<1>1. <<>> \in Seq(Names) /\ <<>> \in Verdicts /\ <<>> \in Seq(Values)
      /\ <<>> \in Seq(Names \cup {"junk"})
  BY DEF Verdicts
<1> QED BY <1>1 DEF NoHost, New, Hosts

LEMMA UseIs ==
  ASSUME NEW t \in Tools
  PROVE  \A h : h = Use(t) =>
           /\ New(h) /\ h.tool = t /\ h.want = "none" /\ h.limit = 0
<1> SUFFICES ASSUME NEW h, h = [NoHost EXCEPT !.tool = t]
    PROVE  New(h) /\ h.tool = t /\ h.want = "none" /\ h.limit = 0
  BY DEF Use
<1>1. NoHost \in Hosts /\ NoHost.limit = 0
  BY NoHostNew DEF New, NoHost
<1> QED BY <1>1, NoHostNew DEF New, Hosts

LEMMA ProgramInv == ASSUME CardInv, Program PROVE CardInv'
<1>1. PICK r \in BOOLEAN :
        Start([Use("program") EXCEPT !.limit = IF r THEN 1 ELSE 0], ProgramRun(r))
  BY DEF Program
<1>2. PICK h, n : h = [Use("program") EXCEPT !.limit = n] /\ n = IF r THEN 1 ELSE 0
  OBVIOUS
<1>3. Start(h, ProgramRun(r)) /\ host' = h
  BY <1>1, <1>2 DEF Start
<1>4. New(h) /\ h.tool = "program" /\ h.limit = n
  <2>1. PICK u : u = Use("program")
    OBVIOUS
  <2>2. u.tool \in Tools /\ u.tool = "program"
    <3>1. h.tool \in Tools
      BY <1>3 DEF Start
    <3>2. \A u2 : u2 = [NoHost EXCEPT !.tool = "program"] =>
             u2.tool = "program" /\ [u2 EXCEPT !.limit = n].tool = "program"
      BY DEF NoHost
    <3> QED BY <1>2, <2>1, <3>1, <3>2 DEF Use
  <2>3. New(u)
    BY <2>1, <2>2, UseIs
  <2>4. n \in Nat
    BY <1>2
  <2> QED BY <1>2, <2>1, <2>2, <2>3, <2>4 DEF New, Hosts
<1>5. /\ Call("unload") \in Calls /\ Call("unload").op = "unload"
      /\ Call("vivado") \in Calls /\ Call("vivado").op = "vivado"
      /\ Call("rescan") \in Calls /\ Call("rescan").op = "rescan"
      /\ Call("modprobe") \in Calls /\ Call("modprobe").op = "modprobe"
      /\ Call("verify") \in Calls /\ Call("verify").op = "verify"
  BY CallsAre DEF OpNames
<1>6. Aim'.tool = "program"
  BY <1>3, <1>4 DEF Aim
<1>7. CASE r
  <2>1. ProgramRun(r) = <<Call("unload"), Call("vivado"), Call("rescan"),
                          Call("modprobe"), Call("verify")>>
    BY <1>7 DEF ProgramRun
  <2>2. PICK A, D, M : /\ A = Assert({"whole"}, {}, {}) /\ D = Assert({"whole", "driver"}, {}, {})
                       /\ M = [live |-> FALSE]
    OBVIOUS
  <2>3. /\ A.live /\ A.is = {"whole"} /\ A.mem = {} /\ A.win = {}
        /\ D.live /\ D.is = {"whole", "driver"} /\ D.mem = {} /\ D.win = {}
        /\ ~M.live
    BY <2>2, AssertIs
  <2>4. Step(Aim', A, Call("unload"), A)
    BY <1>5, <1>6, <2>3 DEF Step, Same
  <2>5. Step(Aim', A, Call("vivado"), A)
    BY <1>5, <1>6, <2>3 DEF Step
  <2>6. Step(Aim', A, Call("rescan"), A)
    BY <1>5, <1>6, <2>3 DEF Step, Same
  <2>7. Step(Aim', A, Call("modprobe"), D)
    BY <1>5, <1>6, <2>3 DEF Step, Same
  <2>8. Step(Aim', D, Call("verify"), M)
    BY <1>5, <1>6, <2>3 DEF Step
  <2>9. Triple(Aim', A, ProgramRun(r), M)
    BY <1>5, <2>1, <2>4, <2>5, <2>6, <2>7, <2>8, TripleFive
  <2>10. {"whole"} \subseteq NewFacts
    BY DEF NewFacts
  <2> QED BY <1>3, <1>4, <2>2, <2>3, <2>9, <2>10, StartInv
<1>8. CASE ~r
  <2>1. ProgramRun(r) = <<Call("vivado")>> /\ h.limit # 1
    BY <1>2, <1>4, <1>8 DEF ProgramRun
  <2>2. PICK A, M : /\ A = Assert({"whole", "easy"}, {}, {})
                    /\ M = Assert({"whole", "verified"}, {}, {})
    OBVIOUS
  <2>3. /\ A.live /\ A.is = {"whole", "easy"} /\ A.mem = {} /\ A.win = {}
        /\ M.live /\ M.is = {"whole", "verified"} /\ M.mem = {} /\ M.win = {}
    BY <2>2, AssertIs
  <2>4. Step(Aim', A, Call("vivado"), M)
    BY <1>5, <1>6, <2>3 DEF Step
  <2>5. Triple(Aim', A, ProgramRun(r), M)
    BY <1>5, <2>1, <2>4, TripleOne
  <2>6. Goal(h.tool, 0) \subseteq M.is
    BY <1>4, <2>3 DEF Goal, Safe
  <2>7. {"whole", "easy"} \subseteq NewFacts \cup (IF h.limit # 1 THEN {"easy"} ELSE {})
    BY <2>1 DEF NewFacts
  <2> QED BY <1>3, <1>4, <2>2, <2>3, <2>5, <2>6, <2>7, StartInv
<1> QED BY <1>7, <1>8

LEMMA SmokeInv == ASSUME CardInv, Smoke PROVE CardInv'
<1>1. PICK h : h = Use("smoke")
  OBVIOUS
<1>2. Start(h, SmokeRun) /\ host' = h
  BY <1>1 DEF Smoke, Start
<1>3. New(h) /\ h.tool = "smoke"
  <2>1. h.tool = "smoke" /\ h.tool \in Tools
    BY <1>1, <1>2 DEF Use, NoHost, Start
  <2> QED BY <1>1, <2>1, UseIs
<1>4. Aim'.tool = "smoke" /\ Aim'.need \subseteq CodeOf("smoke")
  <2>1. Means(host)' = "smoke"
    BY <1>2, <1>3 DEF Means
  <2>2. Need(host)' \subseteq CodeOf("smoke")
    BY <1>2, <1>3, <2>1, CardAssumption DEF Need, UsesData
  <2> QED BY <1>2, <1>3, <2>2 DEF Aim, Needed
<1>5. /\ Call("open") \in Calls /\ Call("open").op = "open"
      /\ Call("ctrl") \in Calls /\ Call("ctrl").op = "ctrl"
      /\ Call("halt") \in Calls /\ Call("halt").op = "halt"
      /\ Call("pop") \in Calls /\ Call("pop").op = "pop"
  BY CallsAre DEF OpNames
<1> DEFINE I0 == {"whole", "quiet"}
           I1 == {"whole", "quiet", "still"}
           I2 == Ran(I1, "smoke")
<1>6. Triple(Aim', Assert(I0, {}, {}), <<Call("open"), Call("ctrl"), Call("halt")>>,
             Assert(I1, {}, {}))
  <2>1. PICK A, M : A = Assert(I0, {}, {}) /\ M = Assert(I1, {}, {})
    OBVIOUS
  <2>2. /\ A.live /\ A.is = I0 /\ A.mem = {} /\ A.win = {}
        /\ M.live /\ M.is = I1 /\ M.mem = {} /\ M.win = {}
    BY <2>1, AssertIs
  <2>3. Safe("smoke") = {"quiet"}
    BY DEF Safe
  <2>4. Step(Aim', A, Call("open"), A)
    BY <1>4, <1>5, <2>2, <2>3 DEF Step, Same
  <2>5. Step(Aim', A, Call("ctrl"), A)
    BY <1>4, <1>5, <2>2, <2>3 DEF Step, Same
  <2>6. Step(Aim', A, Call("halt"), M)
    BY <1>5, <2>2 DEF Step, HaltRule
  <2>7. Triple(Aim', A, <<Call("open"), Call("ctrl"), Call("halt")>>, M)
    BY <1>5, <2>4, <2>5, <2>6, TripleThree
  <2> QED BY <2>1, <2>7
<1>7. {"whole", "still"} \subseteq I1
  OBVIOUS
<1>8. "whole" \in I2
  BY DEF Ran
<1> HIDE DEF I1, I2
<1>9. Triple(Aim', Assert(I1, {}, {}), Zero("iccm"), Assert(I1, {}, {}))
  BY <1>7, ZeroTriple
<1>10. Triple(Aim', Assert(I1, {}, {}), LoadMem("iccm", "smoke"), Assert(I1, CodeOf("smoke"), {}))
  <2>1. CodeOf("smoke") \subseteq Wrote({}, "iccm", 0, Words - 1, Word("smoke", 0))
    <3>1. Range0("iccm") = 0..(Words - 1)
      BY Sizes DEF Range0
    <3> QED BY <3>1 DEF CodeOf, Wrote
  <2>2. "smoke" \in Names \cup {"none"}
    BY CardAssumption
  <2> QED BY <1>7, <2>1, <2>2, LoadTriple
<1>11. Triple(Aim', Assert(I1, CodeOf("smoke"), {}), RunWait,
              Assert(I2, Kept(CodeOf("smoke")), {}))
  <2>1. Triple(Aim', Assert(I1, CodeOf("smoke"), {}), RunWait,
               Assert(Ran(I1, Aim'.tool), Kept(CodeOf("smoke")), {}))
    BY <1>4, <1>7, RunTriple
  <2> QED BY <1>4, <2>1 DEF I2
<1>12. Triple(Aim', Assert(I2, Kept(CodeOf("smoke")), {}), <<Call("pop"), Call("halt")>>,
              Assert({"whole", "quiet"}, {}, {}))
  <2>1. PICK A, M, N : /\ A = Assert(I2, Kept(CodeOf("smoke")), {})
                       /\ M = Assert({"whole"}, {}, {})
                       /\ N = Assert({"whole", "quiet"}, {}, {})
    OBVIOUS
  <2>2. /\ A.live /\ A.is = I2 /\ A.win = {}
        /\ M.live /\ M.is = {"whole"} /\ M.mem = {} /\ M.win = {}
        /\ N.live /\ N.is = {"whole", "quiet"} /\ N.mem = {} /\ N.win = {}
    BY <2>1, AssertIs
  <2>3. Step(Aim', A, Call("pop"), M)
    BY <1>5, <1>8, <2>2 DEF Step, Same
  <2>4. Step(Aim', M, Call("halt"), N)
    BY <1>5, <2>2 DEF Step, HaltRule
  <2>5. Triple(Aim', A, <<Call("pop"), Call("halt")>>, N)
    BY <1>5, <2>3, <2>4, TripleTwo
  <2> QED BY <2>1, <2>5
<1> HIDE DEF I0
<1>13. Triple(Aim', Assert(I0, {}, {}),
              <<Call("open"), Call("ctrl"), Call("halt")>> \o Zero("iccm"), Assert(I1, {}, {}))
  BY <1>6, <1>9, TripleThen
<1>14. Triple(Aim', Assert(I0, {}, {}),
              <<Call("open"), Call("ctrl"), Call("halt")>> \o Zero("iccm")
                \o LoadMem("iccm", "smoke"), Assert(I1, CodeOf("smoke"), {}))
  BY <1>10, <1>13, TripleThen
<1>15. Triple(Aim', Assert(I0, {}, {}),
              <<Call("open"), Call("ctrl"), Call("halt")>> \o Zero("iccm")
                \o LoadMem("iccm", "smoke") \o RunWait,
              Assert(I2, Kept(CodeOf("smoke")), {}))
  BY <1>11, <1>14, TripleThen
<1>16. Triple(Aim', Assert(I0, {}, {}), SmokeRun, Assert({"whole", "quiet"}, {}, {}))
  BY <1>12, <1>15, TripleThen DEF SmokeRun
<1>17. Goal(h.tool, 0) \subseteq Assert({"whole", "quiet"}, {}, {}).is
  <2>1. Goal(h.tool, 0) = {"whole", "quiet"}
    BY <1>3 DEF Goal, Safe
  <2> QED BY <2>1, AssertIs
<1>18. I0 \subseteq NewFacts
  BY DEF NewFacts, I0
<1> QED BY <1>2, <1>3, <1>16, <1>17, <1>18, StartInv

LEMMA RunnerInv == ASSUME CardInv, Runner PROVE CardInv'
<1>1. PICK l \in Lists, skip \in {0, 1} :
        Start([Use("runner") EXCEPT !.tests = l, !.limit = skip],
              <<Call("open"), Call("ctrl"), Call("test")>>)
  BY DEF Runner
<1>2. PICK h : h = [Use("runner") EXCEPT !.tests = l, !.limit = skip]
  OBVIOUS
<1>3. Start(h, <<Call("open"), Call("ctrl"), Call("test")>>) /\ host' = h
  BY <1>1, <1>2 DEF Start
<1>4. New(h) /\ h.tool = "runner"
  <2>1. PICK u : u = [NoHost EXCEPT !.tool = "runner"]
    OBVIOUS
  <2>2. h = [u EXCEPT !.tests = l, !.limit = skip]
    BY <1>2, <2>1 DEF Use
  <2>3. u.tool = "runner" /\ h.tool = "runner"
    BY <2>1, <2>2 DEF NoHost
  <2>4. "runner" \in Tools
    BY <1>3, <2>3 DEF Start
  <2>5. New(u)
    BY <2>1, <2>4, UseIs DEF Use
  <2>6. l \in Seq(Names) /\ skip \in Nat
    BY CardAssumption
  <2>7. PICK g : g = [u EXCEPT !.tests = l]
    OBVIOUS
  <2>8. New(g) /\ g.tool = "runner"
    BY <2>3, <2>5, <2>6, <2>7 DEF New, Hosts
  <2>9. h = [g EXCEPT !.limit = skip]
    BY <2>2, <2>7
  <2> QED BY <2>6, <2>8, <2>9 DEF New, Hosts
<1>5. /\ Call("open") \in Calls /\ Call("open").op = "open"
      /\ Call("ctrl") \in Calls /\ Call("ctrl").op = "ctrl"
      /\ Call("test") \in Calls /\ Call("test").op = "test"
  BY CallsAre DEF OpNames
<1>6. Aim'.tool = "runner" /\ Safe("runner") = {"quiet"}
  BY <1>3, <1>4 DEF Aim, Safe
<1>7. PICK A, M, N :
        /\ A = Assert({"whole", "quiet", "listed", "unjudged"}, {}, {})
        /\ M = Assert({"whole", "quiet", "listed", "flat"}, {}, {})
        /\ N = [live |-> FALSE]
  OBVIOUS
<1>8. /\ A.live /\ A.is = {"whole", "quiet", "listed", "unjudged"} /\ A.mem = {} /\ A.win = {}
      /\ M.live /\ M.is = {"whole", "quiet", "listed", "flat"} /\ M.mem = {} /\ M.win = {}
      /\ ~N.live
  BY <1>7, AssertIs
<1>9. Step(Aim', A, Call("open"), M)
  BY <1>5, <1>6, <1>8 DEF Step, Same
<1>10. Step(Aim', M, Call("ctrl"), M)
  BY <1>5, <1>6, <1>8 DEF Step, Same
<1>11. Step(Aim', M, Call("test"), N)
  BY <1>5, <1>6, <1>8 DEF Step
<1>12. Triple(Aim', A, <<Call("open"), Call("ctrl"), Call("test")>>, N)
  BY <1>5, <1>9, <1>10, <1>11, TripleThree
<1>13. {"whole", "quiet", "listed", "unjudged"} \subseteq NewFacts
  BY DEF NewFacts
<1> QED BY <1>3, <1>4, <1>7, <1>8, <1>12, <1>13, StartInv

\* The two tools of card.py start alike.
LEMMA ModelStart ==
  ASSUME CardInv, NEW h, h.tool \in {"detect", "chunks"}, New(h),
         Start(h, <<Call("open"), Call("ensure"), Call("image")>>),
         h.want \in Names, Images[h.want].dram
  PROVE  CardInv'
<1>1. host' = h /\ Aim'.tool = h.tool
  BY DEF Start, Aim
<1>2. /\ Call("open") \in Calls /\ Call("open").op = "open"
      /\ Call("ensure") \in Calls /\ Call("ensure").op = "ensure"
      /\ Call("image") \in Calls /\ Call("image").op = "image"
  BY CallsAre DEF OpNames
<1>3. Safe(h.tool) \subseteq {"quiet", "shut"}
  BY DEF Safe
<1>4. PICK A, M, N :
        /\ A = Assert({"whole", "quiet", "shut", "unread"}, {}, {})
        /\ M = Assert(Built \cup {"quiet", "shut", "unread"}, {}, {})
        /\ N = [live |-> FALSE]
  OBVIOUS
<1>5. /\ A.live /\ A.is = {"whole", "quiet", "shut", "unread"} /\ A.mem = {} /\ A.win = {}
      /\ M.live /\ M.is = Built \cup {"quiet", "shut", "unread"} /\ M.mem = {} /\ M.win = {}
      /\ ~N.live
  BY <1>4, AssertIs
<1>6. Step(Aim', A, Call("open"), A)
  BY <1>1, <1>2, <1>3, <1>5 DEF Step, Same
<1>7. Step(Aim', A, Call("ensure"), M)
  BY <1>1, <1>2, <1>3, <1>5 DEF Step, Same, Built
<1>8. Step(Aim', M, Call("image"), N)
  BY <1>1, <1>2, <1>3, <1>5 DEF Step, Built
<1>9. Triple(Aim', A, <<Call("open"), Call("ensure"), Call("image")>>, N)
  BY <1>2, <1>6, <1>7, <1>8, TripleThree
<1>10. {"whole", "quiet", "shut", "unread"} \subseteq NewFacts
  BY DEF NewFacts
<1> QED BY <1>4, <1>5, <1>9, <1>10, StartInv

LEMMA DetectInv == ASSUME CardInv, Detect PROVE CardInv'
<1>1. PICK k \in DOMAIN Detects, x \in Inputs :
        Start([Use("detect") EXCEPT !.want = k, !.input = x],
              <<Call("open"), Call("ensure"), Call("image")>>)
  BY DEF Detect
<1>2. PICK u, g, h : /\ u = [NoHost EXCEPT !.tool = "detect"]
                     /\ g = [u EXCEPT !.want = k] /\ h = [g EXCEPT !.input = x]
  OBVIOUS
<1>3. Start(h, <<Call("open"), Call("ensure"), Call("image")>>)
  BY <1>1, <1>2 DEF Use
<1>4. h.tool = "detect" /\ "detect" \in Tools
  <2>1. h.tool = "detect"
    BY <1>2 DEF NoHost
  <2> QED BY <1>3, <2>1 DEF Start
<1>5. k \in Names /\ Images[k].dram /\ x \in Nat
  BY CardAssumption
<1>6. New(u) /\ u.tool = "detect"
  BY <1>2, <1>4, UseIs DEF Use
<1>7. New(g) /\ g.want = k
  BY <1>2, <1>5, <1>6 DEF New, Hosts
<1>8. New(h) /\ h.want = k
  BY <1>2, <1>5, <1>7 DEF New, Hosts
<1> QED BY <1>3, <1>4, <1>5, <1>8, ModelStart

LEMMA ChunksInv == ASSUME CardInv, Chunks PROVE CardInv'
<1>1. PICK k \in DOMAIN Detects :
        Start([Use("chunks") EXCEPT !.want = Detects[k]],
              <<Call("open"), Call("ensure"), Call("image")>>)
  BY DEF Chunks
<1>2. PICK u, h : u = [NoHost EXCEPT !.tool = "chunks"] /\ h = [u EXCEPT !.want = Detects[k]]
  OBVIOUS
<1>3. Start(h, <<Call("open"), Call("ensure"), Call("image")>>)
  BY <1>1, <1>2 DEF Use
<1>4. h.tool = "chunks" /\ "chunks" \in Tools
  <2>1. h.tool = "chunks"
    BY <1>2 DEF NoHost
  <2> QED BY <1>3, <2>1 DEF Start
<1>5. Detects[k] \in Names /\ Images[Detects[k]].dram
  BY CardAssumption
<1>6. New(u) /\ u.tool = "chunks"
  BY <1>2, <1>4, UseIs DEF Use
<1>7. New(h) /\ h.want = Detects[k]
  BY <1>2, <1>5, <1>6 DEF New, Hosts
<1> QED BY <1>3, <1>4, <1>5, <1>7, ModelStart

LEMMA KillInv == ASSUME CardInv, Kill PROVE CardInv'
<1>1. /\ todo # <<>> /\ host' = NoHost /\ todo' = <<>> /\ dev' = [dev EXCEPT !.posted = 0]
      /\ Top.op \in {"manifest", "link", "stamp"} => BuildBreaks
      /\ UNCHANGED <<board, mem, files, uses>>
  BY DEF Kill, Running
<1>2. PICK A, M, B : Turn(A, M, B)
  BY <1>1, TurnOf DEF CardInv
<1>3. Whole(host.dir)
  <2>1. CASE BuildBreaks
    BY <2>1 DEF Whole
  <2>2. CASE ~BuildBreaks
    <3>1. "whole" \in A.is /\ Holds(A)
      BY <1>1, <1>2, <2>2 DEF Turn, Step
    <3> QED BY <3>1 DEF Holds, Fact, OfFiles
  <2> QED BY <2>1, <2>2
<1>4. \A d \in {"main", "bb"} : Whole(d)'
  <2>1. \A d \in {"main", "bb"} : Whole(d)
    BY <1>3 DEF CardInv, Rest
  <2> QED BY <1>1, <2>1 DEF Whole
<1>5. /\ dev' \in Devices /\ dev'.run = dev.run /\ dev'.prog = dev.prog
      /\ dev'.said = dev.said /\ dev'.sel = dev.sel /\ dev'.uart = dev.uart
      /\ dev'.posted = 0
  <2>1. dev \in Devices
    BY DEF CardInv, Typed
  <2> QED BY <1>1, <2>1 DEF Devices
<1>6. New(host') /\ host'.tool = "none"
  BY <1>1, NoHostNew
<1>7. Going'
  <2>1. Goal(host'.tool, host'.code) \subseteq NewFacts
    BY <1>6 DEF Goal, Safe, NewFacts
  <2>2. \A f \in NewFacts : Fact(f)'
    BY <1>4, <1>6, NewKnows
  <2> QED BY <1>1, <2>1, <2>2, GoStop
<1>8. Typed'
  <2>1. <<>> \in Seq(Calls)
    OBVIOUS
  <2> QED BY <1>1, <1>5, <1>6, <2>1 DEF CardInv, Typed, MemOK, New
<1>9. Posting'
  BY <1>5, <1>8, NotPosting
<1>10. Rest'
  <2>1. UartOurs'
    BY <1>6 DEF UartOurs
  <2> QED BY <1>4, <1>6, <2>1 DEF Rest, New
<1>11. Registers'
  BY <1>1, <1>5 DEF CardInv, Registers
<1> QED BY <1>7, <1>8, <1>9, <1>10, <1>11 DEF CardInv

-----------------------------------------------------------------------------
(* The invariant holds.                                                    *)

LEMMA CardInit == ASSUME Init PROVE CardInv
<1>1. \A d \in {"main", "bb"} : Whole(d) /\ files[d] \in Dirs
  <2>1. NoFiles = [elf |-> "none", man |-> "none", dram |-> "none", stamp |-> "none"]
    BY DEF NoFiles
  <2> QED BY <2>1 DEF Init, Whole, Dirs
<1>2. New(host) /\ host.tool = "none"
  BY NoHostNew DEF Init
<1>3. Typed
  <2>1. <<>> \in Seq(Calls) /\ 0 \in 0..MaxUses
    BY CardAssumption
  <2>2. MemOK
    BY EmptyMemory DEF Init, MemOK
  <2>3. board \in Boards
    BY DEF Init, Boards
  <2>4. files \in [{"main", "bb"} -> Dirs]
    BY <1>1 DEF Init
  <2> QED BY <1>2, <2>1, <2>2, <2>3, <2>4, FreshCard DEF Init, Typed, New
<1>4. Registers
  <2>1. Len(<<>>) <= UartDepth
    BY CardAssumption
  <2> QED BY <2>1, FreshCard DEF Init, Registers
<1>5. Posting
  BY FreshCard DEF Init, Posting, Is
<1>6. Rest
  <2>1. UartOurs
    BY <1>2 DEF UartOurs
  <2> QED BY <1>1, <1>2, <2>1 DEF Rest, New
<1>7. Going
  <2>1. PICK A : A = Assert({"whole"}, {}, {})
    OBVIOUS
  <2>2. A.live /\ A.is = {"whole"} /\ A.mem = {} /\ A.win = {}
    BY <2>1, AssertIs
  <2>3. Fact("whole")
    <3>1. OfFiles("whole")
      BY <1>1, <1>2 DEF OfFiles, New
    <3> QED BY <3>1 DEF Fact, OfCore, OfRead, OfTests, OfBoard
  <2>4. Holds(A)
    BY <2>2, <2>3 DEF Holds
  <2>5. Triple(Aim, A, todo, A)
    BY TripleNil DEF Init
  <2>6. Goal(host.tool, host.code) \subseteq A.is
    BY <1>2, <2>2 DEF Goal, Safe
  <2> QED BY <2>2, <2>4, <2>5, <2>6 DEF Going
<1> QED BY <1>3, <1>4, <1>5, <1>6, <1>7 DEF CardInv

LEMMA CardStutter == ASSUME CardInv, UNCHANGED vars PROVE CardInv'
<1>1. UNCHANGED <<board, dev, mem, files, host>> /\ todo' = todo /\ uses' = uses
  BY DEF vars
<1>2. /\ Aim' = Aim
      /\ \A A : Holds(A) => Holds(A)'
      /\ Rest => Rest'
      /\ Registers => Registers'
  BY <1>1, AllSame
<1>3. Going'
  <2>1. PICK A, B : /\ A.live /\ Triple(Aim, A, todo, B) /\ Holds(A)
                    /\ B.live => Goal(host.tool, host.code) \subseteq B.is
    BY DEF CardInv, Going
  <2>2. Triple(Aim', A, todo', B) /\ Holds(A)'
    BY <1>1, <1>2, <2>1
  <2> QED BY <1>1, <2>1, <2>2, GoAfresh
<1>4. Typed'
  BY <1>1 DEF CardInv, Typed, MemOK
<1>5. Posting'
  BY <1>1 DEF CardInv, Posting, Is, Top
<1> QED BY <1>2, <1>3, <1>4, <1>5 DEF CardInv

LEMMA CardNext == ASSUME DrainCovers, CardInv, [Next]_vars PROVE CardInv'
<1>1. CASE Driver
  BY <1>1, OpenBarInv, CheckCtrlInv, CheckVersionInv, HasWindowInv, SetHaltInv, GuardInv,
     SetWindowInv, FillDramInv, WriteWordInv, ReadWordInv, ClearInv, RunCoreInv,
     SeeEotInv, TimeOutInv, PopUartInv DEF Driver
<1>2. CASE Tool
  BY <1>2, PrepareTestInv, JudgeInv, SummaryInv, EnsureInv, BuildInv, UseImageInv,
     RunChunkInv, UnloadDriverInv, VivadoInv, RescanInv, LoadDriverInv, VerifyInv DEF Tool
<1>3. CASE Core
  BY <1>3, CorePrintInv, CoreStoreInv, CoreEotInv DEF Core
<1>4. CASE User
  BY <1>4, ProgramInv, SmokeInv, RunnerInv, DetectInv, ChunksInv, KillInv DEF User
<1>5. CASE UNCHANGED vars
  BY <1>5, CardStutter
<1> QED BY <1>1, <1>2, <1>3, <1>4, <1>5 DEF Next

\* The inductive invariant.
THEOREM CardSafe == ASSUME DrainCovers PROVE Spec => []CardInv
<1>1. Init => CardInv
  BY CardInit
<1>2. CardInv /\ [Next]_vars => CardInv'
  BY CardNext
<1> QED BY <1>1, <1>2, PTL DEF Spec

-----------------------------------------------------------------------------
(* The properties.                                                         *)

\* Types, and no more posted writes than the card takes (write_bytes drains
\* after sixteen bytes).
THEOREM CardTypes == ASSUME DrainCovers PROVE Spec => []TypeOK
<1>1. CardInv => TypeOK
  <2> SUFFICES ASSUME CardInv PROVE TypeOK
    OBVIOUS
  <2>1. /\ board \in Boards /\ dev \in Devices /\ MemOK
        /\ files \in [{"main", "bb"} -> Dirs] /\ host \in Hosts
        /\ todo \in Seq(Calls) /\ uses \in 0..MaxUses
    BY DEF CardInv, Typed
  <2>2. dev.posted \in 0..Burst
    <3>1. dev.posted \in Nat
      BY <2>1 DEF Devices
    <3>2. CASE Is("write")
      <4>1. todo # <<>> /\ dev.posted <= Top.at % 4
        BY <3>2 DEF CardInv, Posting, Is
      <4>2. Top \in Calls
        BY <2>1, <4>1 DEF Top
      <4>3. PICK n \in Nat : n = Top.at
        BY <4>2 DEF Calls
      <4>4. n % 4 \in 0..3
        OBVIOUS
      <4> QED BY <3>1, <4>1, <4>3, <4>4, CardAssumption DEF DrainCovers
    <3>3. CASE ~Is("write")
      BY <3>3, CardAssumption DEF CardInv, Posting
    <3> QED BY <3>2, <3>3
  <2>3. dev.win \in Range0("dram") /\ dev.prog \in Names \cup {"none", "junk"}
    BY <2>1 DEF Devices
  <2>4. Len(dev.uart) <= UartDepth /\ (dev.run <=> dev.prog # "none")
    BY DEF CardInv, Registers
  <2>5. \A m \in DOMAIN Size : DOMAIN mem[m] = Range0(m)
    <3>1. DOMAIN Size = {"iccm", "dccm", "dram"}
      BY DEF Size
    <3>2. \A m \in {"iccm", "dccm", "dram"} : DOMAIN mem[m] = Range0(m)
      BY <2>1 DEF MemOK
    <3> QED BY <3>1, <3>2
  <2>6. \A d \in DOMAIN files : \A f \in DOMAIN NoFiles : files[d][f] \in Names \cup {"none"}
    <3> SUFFICES ASSUME NEW d \in DOMAIN files, NEW f \in DOMAIN NoFiles
        PROVE  files[d][f] \in Names \cup {"none"}
      OBVIOUS
    <3>1. files[d] \in Dirs /\ f \in {"elf", "man", "dram", "stamp"}
      BY <2>1 DEF NoFiles
    <3> QED BY <3>1 DEF Dirs
  <2>7. host.tool \in Tools \cup {"none"} /\ host.code \in 0..2
    BY <2>1 DEF Hosts
  <2>8. Len(host.got) <= 2
    BY DEF CardInv, Rest
  <2>9. board \in [bit : {"good", "old", "other"}, link : {"none", "live", "dead"},
                   driver : BOOLEAN]
    BY <2>1 DEF Boards
  <2> QED BY <2>1, <2>2, <2>3, <2>4, <2>5, <2>6, <2>7, <2>8, <2>9 DEF TypeOK
<1> QED BY <1>1, CardSafe, PTL

\* Whatever earlier tools left on the card, the core starts on the image, the
\* weights, the op limit and the picture its tool means, if builds are whole.
THEOREM RunsStartLoaded == ASSUME DrainCovers, ~BuildBreaks PROVE Spec => []StartsLoaded
<1>1. CardInv => StartsLoaded
  <2> SUFFICES ASSUME CardInv, Is("wait"), dev.run
      PROVE  CASE host.tool = "detect" -> dev.prog = host.want /\ dev.input = host.input
                                            /\ dev.limit = 0
               [] host.tool = "chunks" -> dev.prog = host.want /\ dev.limit = host.limit
               [] host.tool = "smoke"  -> dev.prog = "smoke"
               [] host.tool = "runner" ->
                    ~host.mapped /\ (Images[host.image].dram => board.bit = "good")
                      => dev.prog = host.image
    BY DEF StartsLoaded
  <2>1. PICK A, M, B : Turn(A, M, B)
    BY TurnOf DEF CardInv, Is
  <2>2. /\ "right" \in A.is /\ Holds(A)
        /\ host.tool \in {"detect", "chunks", "runner", "smoke"}
        /\ host.tool = "runner" => "current" \in A.is
    BY <2>1 DEF Turn, Step, Is, Aim
  <2>3. Sane => RunsRight
    BY <2>2 DEF Holds, Fact, OfCore
  <2>4. CASE host.tool \in {"detect", "chunks", "smoke"}
    <3>1. Sane
      BY <2>4 DEF Sane, Open
    <3>2. RunsRight
      BY <2>3, <3>1
    <3>3. CASE host.tool = "detect"
      BY <3>2, <3>3 DEF RunsRight, Means
    <3>4. CASE host.tool = "chunks"
      BY <3>2, <3>4 DEF RunsRight, Means
    <3>5. CASE host.tool = "smoke"
      BY <3>2, <3>5 DEF RunsRight, Means
    <3> QED BY <2>4, <3>3, <3>4, <3>5
  <2>5. CASE host.tool = "runner"
    <3>1. ~host.mapped /\ (Images[host.image].dram => board.bit = "good")
            => dev.prog = host.image
      <4> HAVE ~host.mapped /\ (Images[host.image].dram => board.bit = "good")
      <4>1. host.image # "none"
        <5>1. Judged < Len(host.tests) /\ host.image = host.tests[Judged + 1]
          BY <2>2, <2>5 DEF Holds, Fact, OfTests
        <5>2. host.tests \in Seq(Names) /\ Len(host.results) \in Nat
          BY DEF CardInv, Typed, Hosts, Verdicts
        <5>3. host.image \in Names
          BY <5>1, <5>2 DEF Judged
        <5> QED BY <5>3, CardAssumption
      <4>2. Sane
        BY <2>5, <4>1 DEF Sane, Open
      <4> QED BY <2>3, <2>5, <4>2 DEF RunsRight, Means
    <3> QED BY <2>5, <3>1
  <2> QED BY <2>2, <2>4, <2>5
<1> QED BY <1>1, CardSafe, PTL

\* What a tool knows when it has ended.
LEMMA AtEnd ==
  ASSUME CardInv, ~Running
  PROVE  \A f \in Goal(host.tool, host.code) : Fact(f)
<1>1. PICK A, B : /\ A.live /\ Triple(Aim, A, todo, B) /\ Holds(A)
                  /\ B.live => Goal(host.tool, host.code) \subseteq B.is
  BY DEF CardInv, Going
<1>2. A = B
  BY <1>1, TripleEnd DEF Running
<1> QED BY <1>1, <1>2 DEF Holds

\* The EOT, the UART and the detection a tool answers with are of its own run.
THEOREM AnswersAreOurs == ASSUME DrainCovers, ~BuildBreaks PROVE Spec => []AnswersOurs
<1>1. CardInv => AnswersOurs
  <2> SUFFICES ASSUME CardInv PROVE AnswersOurs
    OBVIOUS
  <2>1. EotOurs /\ UartOurs
    BY DEF CardInv, Rest, EotOurs
  <2>2. ASSUME Ended({"detect"}), host.code = 0
        PROVE  /\ host.got = <<Answer, Answer>>
               /\ Dir = [elf |-> host.want, man |-> host.want, dram |-> host.want,
                         stamp |-> host.want]
    <3>1. ~Running /\ host.tool = "detect"
      BY <2>2 DEF Ended
    <3>2. {"read2", "elf", "man", "dram", "stamped"} \subseteq Goal(host.tool, host.code)
      BY <2>2, <3>1 DEF Goal
    <3>3. \A f \in {"read2", "elf", "man", "dram", "stamped"} : Fact(f)
      BY <3>1, <3>2, AtEnd
    <3>4. Sane
      BY <3>1 DEF Sane, Open
    <3>5. host.got = <<Answer, Answer>>
      BY <3>3, <3>4 DEF Fact, OfRead
    <3>6. /\ Dir.elf = host.want /\ Dir.man = host.want /\ Dir.dram = host.want
          /\ Dir.stamp = host.want
      BY <3>3 DEF Fact, OfFiles
    <3>7. Dir \in Dirs
      BY DEF CardInv, Typed, Hosts, Dir
    <3> QED BY <3>5, <3>6, <3>7 DEF Dirs
  <2>3. ResultsOurs
    BY <2>2 DEF ResultsOurs, Answer
  <2> QED BY <2>1, <2>3 DEF AnswersOurs
<1> QED BY <1>1, CardSafe, PTL

\* What a tool says as it ends, and how it leaves the card, can be relied on:
\* also where a build broke.
THEOREM ExitsAreHonest == ASSUME DrainCovers PROVE Spec => []ExitHonest
<1>1. CardInv => ExitHonest
  <2> SUFFICES ASSUME CardInv PROVE ExitHonest
    OBVIOUS
  <2>1. ASSUME Ended({"detect", "runner", "smoke"}), host.started PROVE ~dev.run
    <3>1. ~Running /\ "quiet" \in Goal(host.tool, host.code)
      BY <2>1 DEF Ended, Goal, Safe
    <3> QED BY <2>1, <3>1, AtEnd DEF Fact, OfCore
  <2>2. ASSUME Ended({"detect", "chunks"}), host.started PROVE ~dev.sel
    <3>1. ~Running /\ "shut" \in Goal(host.tool, host.code)
      BY <2>2 DEF Ended, Goal, Safe
    <3> QED BY <2>2, <3>1, AtEnd DEF Fact, OfCore
  <2>3. ASSUME Ended({"runner"}), host.code = 0
        PROVE  /\ Len(host.results) = Len(host.tests)
               /\ \A k \in DOMAIN host.tests :
                    host.results[k] \in [test : {host.tests[k]}, how : {"ok", "skipped"}]
    <3>1. ~Running /\ "counted" \in Goal(host.tool, host.code)
      BY <2>3 DEF Ended, Goal
    <3> QED BY <3>1, AtEnd DEF Fact, OfTests, Judged
  <2>4. ASSUME Ended({"program"}), host.code = 0, host.limit = 1
        PROVE  Answers /\ board.driver
    <3>1. ~Running /\ "verified" \in Goal(host.tool, host.code)
      BY <2>4 DEF Ended, Goal
    <3> QED BY <2>4, <3>1, AtEnd DEF Fact, OfBoard
  <2> QED BY <2>1, <2>2, <2>3, <2>4
          DEF ExitHonest, LeavesCardQuiet, RunnerCounts, ProgramVerified
<1> QED BY <1>1, CardSafe, PTL

\* What ensure_card_elf leaves or reuses is all of one model, as long as no
\* build is killed or fails between two of its files.
THEOREM WholeBuildsMatch == ASSUME DrainCovers, ~BuildBreaks PROVE Spec => []BuildMatches
<1>1. CardInv => BuildMatches
  <2> SUFFICES ASSUME CardInv, Is("image")
      PROVE  Dir.elf = host.want /\ Dir.man = host.want /\ Dir.dram = host.want
    BY DEF BuildMatches
  <2>1. PICK A, M, B : Turn(A, M, B)
    BY TurnOf DEF CardInv, Is
  <2>2. {"elf", "man", "dram"} \subseteq A.is /\ Holds(A)
    BY <2>1 DEF Turn, Step, Is, Aim
  <2> QED BY <2>2 DEF Holds, Fact, OfFiles
<1> QED BY <1>1, CardSafe, PTL
=============================================================================
