------------------------------ MODULE Pipeline ------------------------------
(***************************************************************************)
(* The issue and writeback machinery of the RV32IM core: IDU0, IDU1, the   *)
(* register scoreboard, the register file and the latencies of the         *)
(* execution units (rtl/core_top.sv, rtl/idu, rtl/scalar).                 *)
(*                                                                         *)
(* One step is one clock cycle.  Data are abstracted to the one bit the    *)
(* hazards are about: a value is CURRENT when it was produced by the       *)
(* youngest issued writer of its register, and old otherwise.  `rfOld` is  *)
(* the set of registers whose cell of the register file is not current,    *)
(* and an in-flight result carries the flag `new`.                         *)
(*                                                                         *)
(* A register address is the set of its one bits, so that the AND-OR       *)
(* merge of the writeback buses (exu.sv) is a union, and x0 is {}.         *)
(***************************************************************************)
EXTENDS Naturals, FiniteSets

CONSTANTS
  Bits,      \* the bits of a register address (REG_FILE_ADDR_WIDTH of them)
  Kinds,     \* the kinds of instruction the program holds
  Dests,     \* the destination registers the program uses
  MaxSrcs,   \* source registers of one instruction (2 read ports)
  MulLat,    \* MUL_LAT of exu_mul.sv
  DivLat,    \* bound on the cycles the divider is away from IDLE
  Refill,    \* cycles before IDU0 holds an instruction after a redirect
  Accel,     \* TRUE: the accelerator may hold the core (accel_hold)
  SlowMem    \* TRUE: the LSU may hold its own pipeline (DRAM, line cross)

Addr == SUBSET Bits
x0 == {}

AllKinds == {"alu", "jal", "br", "nop", "mul", "div", "load", "store",
             "vset", "vec"}

ASSUME PipelineAssumption ==
  /\ Kinds \subseteq AllKinds
  /\ Dests \subseteq Addr
  /\ MulLat \in Nat \ {0}
  /\ DivLat \in Nat \ {0}
  /\ Refill \in Nat
  /\ MaxSrcs \in Nat
  /\ Accel \in BOOLEAN
  /\ SlowMem \in BOOLEAN

VARIABLES
  idu0,     \* idu0_out: the instruction being read from the register file
  idu1,     \* idu1_out_before_fwd, with its legal bit
  stale,    \* the sources of idu1 whose captured operand is not current
  last,     \* last_issued_instr: the kind of the previous content of idu1
  rfOld,    \* registers whose register file cell is not current
  rsb,      \* the register scoreboard
  alu,      \* the ALU's writeback register
  vec,      \* the writeback register of vset and vector CSR reads
  mul,      \* the multiplier's sideband pipeline, stages 1..MulLat
  div,      \* cycles the divider still has to run, and its result
  divOut,   \* the divider's writeback register
  dc,       \* the LSU stages dc1, dc2, dc3
  pcLoad,   \* the registered redirect of the ALU
  refill,   \* cycles until the front end delivers again
  vbusy,    \* the vector unit is away from V_IDLE
  hold,     \* accel_hold in this cycle
  mem,      \* what holds the LSU in this cycle: "go" when nothing does
  taint     \* history: one of the hazards below has happened

vars == <<idu0, idu1, stale, last, rfOld, rsb, alu, vec, mul, div, divOut,
          dc, pcLoad, refill, vbusy, hold, mem, taint>>

-----------------------------------------------------------------------------
(* Instructions, results and stages.                                       *)

\* The kinds that write a general purpose register, and those of them whose
\* result the scoreboard tracks.
Writers == {"alu", "jal", "mul", "div", "load", "vset"}
Tracked == {"mul", "load"}

Bubble == [kind |-> "none", rd |-> x0, srcs |-> {}]

\* A kind that writes nothing has no destination, and a nop reads nothing.
Program ==
  {i \in [kind : Kinds, rd : Dests \cup {x0},
          srcs : {S \in SUBSET Addr : Cardinality(S) <= MaxSrcs}] :
     /\ IF i.kind \in Writers THEN i.rd \in Dests ELSE i.rd = x0
     /\ i.kind = "nop" => i.srcs = {}}

Result == [rd : Addr, new : BOOLEAN]
None == [rd |-> x0, new |-> FALSE, none |-> TRUE]
Slot == Result \cup {None}

\* A stage of the LSU holds a load's result or a store, or nothing.
Empty == [kind |-> "none", res |-> None]
LsuStage == [kind : {"load", "store", "none"}, res : Slot]

Idle == [left |-> 0, res |-> None]

-----------------------------------------------------------------------------
(* The writeback port: the buses of the four scalar units are ANDed with   *)
(* their valids and ORed; a vector unit writeback replaces all of them.    *)

Scalar == {u \in {alu, mul[MulLat], divOut, dc.dc3.res} : u # None}

\* How many scalar units drive the port in this cycle.
Drivers ==
  (IF alu # None THEN 1 ELSE 0) + (IF mul[MulLat] # None THEN 1 ELSE 0) +
  (IF divOut # None THEN 1 ELSE 0) + (IF dc.dc3.res # None THEN 1 ELSE 0)

WbValid == vec # None \/ Drivers > 0

WbRd == IF vec # None THEN vec.rd ELSE UNION {u.rd : u \in Scalar}

\* The data on the port are the current value of WbRd.
WbCurrent ==
  /\ WbRd # x0
  /\ IF vec # None THEN vec.new ELSE Drivers = 1 /\ \A u \in Scalar : u.new

WbHits(s) == WbValid /\ WbRd = s

-----------------------------------------------------------------------------
(* Hazard control (idu1.sv).  A redirect masks the outputs of IDU0, IDU1   *)
(* and last_issued_instr in the cycle it is seen.                          *)

Legal == idu1.legal /\ ~pcLoad
Kind  == idu1.op.kind
LastKind == IF pcLoad THEN "none" ELSE last

MulBusy == \E k \in 1..(MulLat - 1) : mul[k] # None
DivBusy == div # Idle
LsuBusy == dc.dc1.kind # "none" \/ dc.dc2.kind # "none"

\* engine_stall: a load cannot read in the cycle an older store writes.
EngineStall ==
  \/ dc.dc1.kind = "load" /\ dc.dc2.kind = "store"
  \/ mem # "go"

PipeStallNoDiv ==
  \/ LastKind = "mul" /\ Legal /\ Kind \notin {"mul", "nop"} /\ MulBusy
  \/ LastKind = "load" /\ Legal /\ Kind # "load" /\ LsuBusy
  \/ LastKind = "store" /\ Legal /\ Kind # "store" /\ LsuBusy
  \/ LastKind \in {"vset", "vec"} /\ vbusy
  \/ EngineStall \/ hold

PipeStallNoStore ==
  \/ LastKind = "div" /\ DivBusy
  \/ LastKind = "load" /\ Legal /\ Kind # "load" /\ LsuBusy
  \/ LastKind \in {"vset", "vec"} /\ vbusy
  \/ EngineStall \/ hold

\* Mutant: the wait behind a division does not end with the division.
PipeStallEndless ==
  \/ LastKind = "mul" /\ Legal /\ Kind \notin {"mul", "nop"} /\ MulBusy
  \/ LastKind = "div"
  \/ LastKind = "load" /\ Legal /\ Kind # "load" /\ LsuBusy
  \/ LastKind = "store" /\ Legal /\ Kind # "store" /\ LsuBusy
  \/ LastKind \in {"vset", "vec"} /\ vbusy
  \/ EngineStall
  \/ hold

PipeStall ==
  \/ LastKind = "mul" /\ Legal /\ Kind \notin {"mul", "nop"} /\ MulBusy
  \/ LastKind = "div" /\ DivBusy
  \/ LastKind = "load" /\ Legal /\ Kind # "load" /\ LsuBusy
  \/ LastKind = "store" /\ Legal /\ Kind # "store" /\ LsuBusy
  \/ LastKind \in {"vset", "vec"} /\ vbusy
  \/ EngineStall
  \/ hold

RsbStall == \E s \in idu0.srcs : s \in rsb /\ ~WbHits(s)

\* The bit IDU0 sets for an instruction that moves on to IDU1.
RsbSet ==
  IF idu0.kind \in Tracked /\ ~PipeStall /\ ~RsbStall THEN {idu0.rd} ELSE {}

\* The instruction in IDU1 leaves for its execution unit in this cycle.
Issue == Legal /\ ~PipeStall

IssueWrites == Issue /\ Kind \in Writers /\ ~(Kind = "vset" /\ idu1.op.rd = x0)

\* The sources the execution unit sees with a value that is not current:
\* the writeback port overrides the captured operand.
WrongOperands ==
  {s \in idu1.op.srcs : IF WbHits(s) THEN ~WbCurrent ELSE s \in stale}

-----------------------------------------------------------------------------
(* The hazards that the interlocks of this pipeline do not cover.          *)

\* Two units drive the writeback port in one cycle.
Clash == Drivers + (IF vec # None THEN 1 ELSE 0) > 1

\* A writeback clears the bit that another, unfinished writer has set.
EarlyRelease ==
  /\ WbValid /\ WbRd \in rsb
  /\ \/ ~WbCurrent
     \/ idu1.legal /\ Kind \in Tracked /\ idu1.op.rd = WbRd

\* A result for x0 is forwarded to a reader of x0.
ZeroForward == WbHits(x0) /\ x0 \in idu0.srcs \cup idu1.op.srcs

\* An older result replaces a younger one in the register file.
Overwrite == WbValid /\ WbRd # x0 /\ ~WbCurrent /\ WbRd \notin rfOld

Hazard == Clash \/ EarlyRelease \/ ZeroForward \/ Overwrite

-----------------------------------------------------------------------------
(* The back end: execution units, writeback and scoreboard.                *)

Age(r) ==
  IF r # None /\ IssueWrites /\ r.rd = idu1.op.rd
  THEN [r EXCEPT !.new = FALSE] ELSE r

AgeStage(g) == [g EXCEPT !.res = Age(g.res)]

Fresh == [rd |-> idu1.op.rd, new |-> TRUE]

Unit(kinds) == IF Issue /\ Kind \in kinds THEN Fresh ELSE None

Alu == alu' = Unit({"alu", "jal"})

\* A conditional branch is taken or not; a jump always redirects.
Branch ==
  \/ pcLoad' = (Issue /\ Kind = "jal")
  \/ Issue /\ Kind = "br" /\ pcLoad' = TRUE

Vector ==
  /\ vec' = IF IssueWrites /\ Kind = "vset" THEN Fresh ELSE None
  /\ \/ vbusy' = FALSE
     \/ vbusy /\ vbusy' = TRUE
     \/ Issue /\ Kind = "vec" /\ vbusy' = TRUE

Mul ==
  mul' = [k \in 1..MulLat |-> IF k = 1 THEN Unit({"mul"}) ELSE Age(mul[k - 1])]

\* IDLE accepts an operand pair; DONE is the last cycle away from IDLE.
Div ==
  /\ \/ /\ div = Idle /\ Issue /\ Kind = "div"
        /\ \E n \in 1..DivLat : div' = [left |-> n, res |-> Fresh]
     \/ div = Idle /\ ~(Issue /\ Kind = "div") /\ div' = Idle
     \/ div.left = 1 /\ div' = Idle
     \/ div.left > 1 /\ div' = [left |-> div.left - 1, res |-> Age(div.res)]
  /\ divOut' = IF div.left = 1 THEN Age(div.res) ELSE None

LsuIn ==
  IF Issue /\ Kind = "load" THEN [kind |-> "load", res |-> Fresh]
  ELSE IF Issue /\ Kind = "store" THEN [kind |-> "store", res |-> None]
  ELSE Empty

\* engine_stall holds dc1 and sends a bubble to dc2; a store that crosses a
\* line also holds dc2; a load waiting for DRAM in dc2 holds dc3 too.
LsuDropped ==
  dc' = [dc1 |-> LsuIn,
         dc2 |-> IF EngineStall THEN Empty ELSE AgeStage(dc.dc1),
         dc3 |-> AgeStage(dc.dc2)]
Lsu ==
  dc' = [dc1 |-> IF EngineStall THEN AgeStage(dc.dc1) ELSE LsuIn,
         dc2 |-> IF mem \in {"dram", "store_cross"} THEN AgeStage(dc.dc2)
                 ELSE IF EngineStall THEN Empty ELSE AgeStage(dc.dc1),
         dc3 |-> IF mem = "dram" THEN AgeStage(dc.dc3) ELSE AgeStage(dc.dc2)]

\* The environment of the next cycle: a job starts, and holds the core, when
\* a store to its START register is in dc2; memory is slow for the access in
\* the stage that waits.
Environment ==
  /\ \/ hold' \in {FALSE, hold}
     \/ Accel /\ hold' = TRUE /\ dc'.dc2.kind = "store"
  /\ \/ mem' = "go"
     \/ SlowMem /\ mem' = "dram" /\ dc'.dc2.kind = "load"
     \/ SlowMem /\ mem' = "store_cross" /\ dc'.dc2.kind = "store"
     \/ SlowMem /\ mem' = "load_cross" /\ dc'.dc1.kind = "load"

\* The register file takes what is on the port, and the destination of the
\* instruction that leaves IDU1 is old until its result arrives.
RegFile ==
  LET written == IF ~WbValid THEN rfOld
                 ELSE IF WbCurrent THEN rfOld \ {WbRd} ELSE rfOld \cup {WbRd}
  IN  rfOld' = (written \cup (IF IssueWrites THEN {idu1.op.rd} ELSE {})) \ {x0}

\* The flush clears every bit; a bit set and cleared at once stays set, and
\* x0 has none.
ScoreboardUnflushed ==
  rsb' = ((IF WbValid THEN rsb \ {WbRd} ELSE rsb) \cup RsbSet) \ {x0}
Scoreboard ==
  rsb' = IF pcLoad THEN {}
         ELSE ((IF WbValid THEN rsb \ {WbRd} ELSE rsb) \cup RsbSet) \ {x0}

BackEnd ==
  /\ Alu /\ Branch /\ Vector /\ Mul /\ Div /\ Lsu /\ RegFile /\ Scoreboard
  /\ Environment
  /\ taint' = (taint \/ Hazard)

-----------------------------------------------------------------------------
(* The front end.                                                          *)

\* The operands IDU1 captures for idu0: the writeback port is forwarded,
\* otherwise the register file is read, before this cycle's write.
CapturedUnforwarded ==
  {s \in idu0.srcs : s \in rfOld \/ (IssueWrites /\ idu1.op.rd = s /\ s # x0)}
Captured ==
  {s \in idu0.srcs :
     \/ IF WbHits(s) THEN ~WbCurrent ELSE s \in rfOld
     \/ IssueWrites /\ idu1.op.rd = s /\ s # x0}

FetchUnderrun ==
  \/ refill' = refill - 1 /\ idu0' = Bubble
  \/ refill = 0 /\ refill' = 0 /\ idu0' \in Program
Fetch ==
  \/ refill > 0 /\ refill' = refill - 1 /\ idu0' = Bubble
  \/ refill = 0 /\ refill' = 0 /\ idu0' \in Program

\* The redirect of a taken branch or jump clears the front end and the
\* scoreboard.
Redirect ==
  /\ pcLoad
  /\ idu0' = Bubble
  /\ idu1' = [op |-> Bubble, legal |-> FALSE]
  /\ stale' = {}
  /\ last' = "none"
  /\ refill' = Refill
  /\ BackEnd

\* pipe_stall: IDU0 and IDU1 hold their instructions.
Stall ==
  /\ ~pcLoad /\ PipeStall
  /\ UNCHANGED <<idu0, idu1, stale, last>>
  /\ refill' \in {refill, IF refill > 0 THEN refill - 1 ELSE 0}
  /\ BackEnd

\* idu0_rsb_hit_stall: IDU0 waits for a pending source; its decoded flags
\* enter IDU1 as an illegal instruction.
Interlock ==
  /\ ~pcLoad /\ ~PipeStall /\ RsbStall
  /\ UNCHANGED idu0
  /\ idu1' = [op |-> idu0, legal |-> FALSE]
  /\ stale' = Captured
  /\ last' = Kind
  /\ refill' \in {refill, IF refill > 0 THEN refill - 1 ELSE 0}
  /\ BackEnd

Advance ==
  /\ ~pcLoad /\ ~PipeStall /\ ~RsbStall
  /\ Fetch
  /\ idu1' = [op |-> idu0, legal |-> idu0 # Bubble]
  /\ stale' = Captured
  /\ last' = Kind
  /\ BackEnd

Init ==
  /\ idu0 = Bubble
  /\ idu1 = [op |-> Bubble, legal |-> FALSE]
  /\ stale = {} /\ last = "none"
  /\ rfOld = {} /\ rsb = {}
  /\ alu = None /\ vec = None /\ divOut = None
  /\ mul = [k \in 1..MulLat |-> None]
  /\ div = Idle
  /\ dc = [dc1 |-> Empty, dc2 |-> Empty, dc3 |-> Empty]
  /\ pcLoad = FALSE /\ refill = Refill
  /\ vbusy = FALSE /\ hold = FALSE /\ mem = "go" /\ taint = FALSE

Next == Redirect \/ Stall \/ Interlock \/ Advance

Spec == Init /\ [][Next]_vars

-----------------------------------------------------------------------------
(* Properties.                                                             *)

\* Every register of the pipeline holds a value of its type.
TypeOK ==
  /\ idu0 \in Program \cup {Bubble}
  /\ idu1 \in [op : Program \cup {Bubble}, legal : BOOLEAN]
  /\ stale \subseteq Addr
  /\ last \in AllKinds \cup {"none"}
  /\ rfOld \subseteq Addr \ {x0}
  /\ rsb \subseteq Addr \ {x0}
  /\ alu \in Slot /\ vec \in Slot /\ divOut \in Slot
  /\ mul \in [1..MulLat -> Slot]
  /\ div \in [left : 0..DivLat, res : Slot]
  /\ dc \in [dc1 : LsuStage, dc2 : LsuStage, dc3 : LsuStage]
  /\ pcLoad \in BOOLEAN /\ refill \in 0..Refill
  /\ vbusy \in BOOLEAN /\ hold \in BOOLEAN /\ taint \in BOOLEAN
  /\ mem \in {"go", "dram", "store_cross", "load_cross"}

\* No instruction is issued with an operand that is not the value its
\* youngest older writer produced (forwarding, idu1.sv and reg_file.sv).
OperandsCurrent == Issue => WrongOperands = {}

\* The same, for programs that may meet a hazard: as long as none of the
\* four has happened, forwarding, scoreboard and stalls deliver every operand.
OperandsCovered == Issue /\ ~taint /\ ~Hazard => WrongOperands = {}

\* None of the hazards happens (for the kinds of instruction of a run).
HazardFree == ~Hazard

\* While the divider runs nothing is issued, so its result cannot be
\* overtaken and no second division is lost in a busy divider.
DivBlocks == DivBusy => ~Issue

InFlight ==
  {r \in {alu, vec, divOut, div.res} \cup {mul[k] : k \in 1..MulLat}
         \cup {dc[g].res : g \in DOMAIN dc} : r # None}

\* Every stale cell of the register file has its youngest result on the way.
NothingLost ==
  ~taint /\ ~Hazard => \A r \in rfOld : \E e \in InFlight : e.rd = r /\ e.new

\* Every bit of the scoreboard has an owner that will clear it: a multiply or
\* a load in IDU1 or in its unit.  A bit without one stalls its readers forever.
BitsOwned ==
  ~taint /\ ~Hazard =>
    \A r \in rsb :
      \/ Legal /\ Kind \in Tracked /\ idu1.op.rd = r
      \/ pcLoad
      \/ \E k \in 1..MulLat : mul[k] # None /\ mul[k].rd = r
      \/ \E g \in DOMAIN dc : dc[g].res # None /\ dc[g].res.rd = r

\* Loads and stores never share the first two stages of the LSU: the single
\* memory port has no conflict, and a load finds every older store in memory.
NoMixing == {dc.dc1.kind, dc.dc2.kind} # {"load", "store"}

\* The writeback port is forwarded to IDU1 for one cycle only and the captured
\* operand is not updated: an instruction that lacks a value is never stalled
\* in the very cycle the value is on the port.  (An older value of the register
\* may pass in that cycle.)
ForwardKept ==
  ~taint /\ ~Hazard /\ PipeStall /\ Legal =>
    \A s \in stale : ~(WbHits(s) /\ WbCurrent)

-----------------------------------------------------------------------------
(* Liveness: the job that holds the core ends, the memory answers and the  *)
(* vector unit finishes, so quiet cycles keep coming.                      *)

Quiet == ~hold /\ mem = "go" /\ ~vbusy

FairSpec == Spec /\ WF_vars(Next /\ Quiet')

\* The front of the pipeline always moves again, unless a hazard happened.
KeepsMoving == []<>(taint \/ pcLoad \/ ~(PipeStall \/ RsbStall))
=============================================================================
