--------------------------- MODULE PipelineProofs ---------------------------
(***************************************************************************)
(* Theorems about Pipeline, for every register width, program and latency. *)
(***************************************************************************)
EXTENDS Pipeline, TLAPS

-----------------------------------------------------------------------------
(* Types.                                                                  *)

\* A result that is aged, or taken from IDU1, is a result.
LEMMA SlotTypes ==
  ASSUME TypeOK
  PROVE  /\ Fresh \in Result
         /\ \A kinds : Unit(kinds) \in Slot
         /\ \A r \in Slot : Age(r) \in Slot
         /\ \A g \in LsuStage : AgeStage(g) \in LsuStage
         /\ Empty \in LsuStage
         /\ LsuIn \in LsuStage
<1>1. idu1.op.rd \in Addr
  BY PipelineAssumption DEF TypeOK, Program, Bubble, Addr, x0
<1>2. Fresh \in Result
  BY <1>1 DEF Fresh, Result
<1>3. \A kinds : Unit(kinds) \in Slot
  BY <1>2 DEF Unit, Slot
<1>4. \A r \in Slot : Age(r) \in Slot
  BY DEF Age, Slot, Result, None
<1>5. \A g \in LsuStage : AgeStage(g) \in LsuStage
  BY <1>4 DEF AgeStage, LsuStage
<1>6. Empty \in LsuStage
  BY DEF Empty, LsuStage, Slot
<1>7. LsuIn \in LsuStage
  BY <1>2, <1>6 DEF LsuIn, LsuStage, Slot
<1> QED BY <1>2, <1>3, <1>4, <1>5, <1>6, <1>7

\* The instruction handed on by the front end keeps its type.
FrontTypes ==
  /\ idu0 \in Program \cup {Bubble}
  /\ idu1 \in [op : Program \cup {Bubble}, legal : BOOLEAN]
  /\ stale \subseteq Addr
  /\ last \in AllKinds \cup {"none"}
  /\ refill \in 0..Refill

\* Every execution unit and the environment keep their types.
LEMMA BackEndTypes ==
  ASSUME TypeOK, BackEnd, FrontTypes'
  PROVE  TypeOK'
<1>1. alu' \in Slot /\ vec' \in Slot
  BY SlotTypes DEF BackEnd, Alu, Vector, Slot
<1>2. mul' \in [1..MulLat -> Slot]
  <2>1. \A k \in 1..MulLat : (IF k = 1 THEN Unit({"mul"}) ELSE Age(mul[k - 1])) \in Slot
    BY SlotTypes, PipelineAssumption DEF TypeOK
  <2> QED BY <2>1 DEF BackEnd, Mul
<1>3. div' \in [left : 0..DivLat, res : Slot] /\ divOut' \in Slot
  <2>1. div.left \in 0..DivLat /\ div.res \in Slot
    BY DEF TypeOK
  <2>2. Age(div.res) \in Slot /\ Fresh \in Slot /\ None \in Slot
    BY <2>1, SlotTypes DEF Slot
  <2>3. Idle \in [left : 0..DivLat, res : Slot]
    BY <2>2, PipelineAssumption DEF Idle
  <2>4. divOut' \in Slot
    BY <2>2 DEF BackEnd, Div
  <2>5. Div
    BY DEF BackEnd
  <2>6. CASE div = Idle /\ Issue /\ Kind = "div"
    BY <2>1, <2>2, <2>3, <2>5, <2>6, PipelineAssumption DEF Div, Idle
  <2>7. CASE ~(div = Idle /\ Issue /\ Kind = "div")
    BY <2>1, <2>2, <2>3, <2>5, <2>7, PipelineAssumption DEF Div
  <2> QED BY <2>4, <2>6, <2>7
<1>4. dc' \in [dc1 : LsuStage, dc2 : LsuStage, dc3 : LsuStage]
  <2>1. AgeStage(dc.dc1) \in LsuStage /\ AgeStage(dc.dc2) \in LsuStage
          /\ AgeStage(dc.dc3) \in LsuStage
    BY SlotTypes DEF TypeOK
  <2> QED BY <2>1, SlotTypes DEF BackEnd, Lsu
<1>5. WbValid => WbRd \in Addr
  <2>1. alu \in Slot /\ mul[MulLat] \in Slot /\ divOut \in Slot /\ dc.dc3.res \in Slot
    BY PipelineAssumption DEF TypeOK, LsuStage
  <2>2. Scalar \subseteq Result
    BY <2>1 DEF Scalar, Slot
  <2>3. UNION {u.rd : u \in Scalar} \subseteq Bits
    BY <2>2 DEF Result, Addr
  <2>4. vec # None => vec.rd \in Addr
    BY DEF TypeOK, Slot, Result
  <2> QED BY <2>3, <2>4 DEF WbRd, Addr
<1>6. idu1.op.rd \in Addr /\ idu0.rd \in Addr
  BY PipelineAssumption DEF TypeOK, Program, Bubble, Addr, x0
<1>7. rfOld' \subseteq Addr \ {x0}
  BY <1>5, <1>6 DEF TypeOK, BackEnd, RegFile
<1>8. rsb' \subseteq Addr \ {x0}
  BY <1>6 DEF TypeOK, BackEnd, Scoreboard, RsbSet
<1>9. pcLoad' \in BOOLEAN /\ vbusy' \in BOOLEAN
  BY DEF BackEnd, Branch, Vector
<1>10. hold' \in BOOLEAN /\ mem' \in {"go", "dram", "store_cross", "load_cross"}
  BY DEF TypeOK, BackEnd, Environment
<1>11. taint' \in BOOLEAN
  BY DEF TypeOK, BackEnd
<1> QED BY <1>1, <1>2, <1>3, <1>4, <1>7, <1>8, <1>9, <1>10, <1>11 DEF TypeOK, FrontTypes

\* The front end keeps its types in every kind of cycle.
LEMMA FrontEndTypes ==
  ASSUME TypeOK, Next
  PROVE  FrontTypes'
<1>1. Captured \subseteq Addr
  BY DEF Captured, TypeOK, Program, Bubble
<1>2. Kind \in AllKinds \cup {"none"}
  BY PipelineAssumption DEF TypeOK, Kind, Program, Bubble
<1>3. Bubble \in Program \cup {Bubble} /\ Refill \in 0..Refill
  BY PipelineAssumption
<1>4. CASE Redirect
  BY <1>3, <1>4 DEF Redirect, FrontTypes
<1>5. CASE Stall
  BY <1>5, PipelineAssumption DEF Stall, FrontTypes, TypeOK
<1>6. CASE Interlock
  BY <1>1, <1>2, <1>6, PipelineAssumption DEF Interlock, FrontTypes, TypeOK
<1>7. CASE Advance
  BY <1>1, <1>2, <1>3, <1>7, PipelineAssumption DEF Advance, Fetch, FrontTypes, TypeOK
<1> QED BY <1>4, <1>5, <1>6, <1>7 DEF Next

\* The initial state is well typed.
LEMMA TypeInit == Init => TypeOK
<1> SUFFICES ASSUME Init PROVE TypeOK
  OBVIOUS
<1>1. None \in Slot /\ Empty \in LsuStage
  BY DEF Slot, Empty, LsuStage
<1>2. Idle \in [left : 0..DivLat, res : Slot]
  BY <1>1, PipelineAssumption DEF Idle
<1>3. mul \in [1..MulLat -> Slot]
  BY <1>1 DEF Init
<1>4. idu1 \in [op : Program \cup {Bubble}, legal : BOOLEAN]
  BY DEF Init
<1>5. stale \subseteq Addr /\ rfOld \subseteq Addr \ {x0} /\ rsb \subseteq Addr \ {x0}
  BY DEF Init
<1>6. dc \in [dc1 : LsuStage, dc2 : LsuStage, dc3 : LsuStage]
  BY <1>1 DEF Init
<1>7. refill \in 0..Refill
  BY PipelineAssumption DEF Init
<1> QED BY <1>1, <1>2, <1>3, <1>4, <1>5, <1>6, <1>7 DEF Init, TypeOK

\* Every cycle keeps the types.
LEMMA TypeStep == TypeOK /\ [Next]_vars => TypeOK'
<1> SUFFICES ASSUME TypeOK, [Next]_vars PROVE TypeOK'
  OBVIOUS
<1>1. CASE Next
  <2>1. BackEnd
    BY <1>1 DEF Next, Redirect, Stall, Interlock, Advance
  <2> QED BY <1>1, <2>1, FrontEndTypes, BackEndTypes
<1>2. CASE UNCHANGED vars
  BY <1>2 DEF vars, TypeOK
<1> QED BY <1>1, <1>2

\* Type correctness, for every register width, program and latency.
THEOREM PipelineTypes == Spec => []TypeOK
BY TypeInit, TypeStep, PTL DEF Spec

-----------------------------------------------------------------------------
(* The divider blocks issue.  DivBlocks is not inductive: what keeps the   *)
(* pipe stalled is that last_issued_instr still names the division, and    *)
(* that no redirect of an older instruction can mask it.                   *)

DivInv == DivBusy => last = "div" /\ ~pcLoad

\* A running divider, with the division in last_issued_instr, stalls IDU1.
LEMMA DivInvBlocks == DivInv => DivBlocks
BY DEF DivInv, DivBlocks, Issue, PipeStall, LastKind

\* The stall keeps the division in last_issued_instr until the divider is IDLE.
LEMMA DivInvStep == TypeOK /\ DivInv /\ [Next]_vars => DivInv'
<1> SUFFICES ASSUME TypeOK, DivInv, [Next]_vars PROVE DivInv'
  OBVIOUS
<1>1. CASE UNCHANGED vars
  BY <1>1 DEF vars, DivInv, DivBusy
<1>2. ASSUME BackEnd, DivBusy' PROVE (DivBusy /\ ~Issue) \/ (Issue /\ Kind = "div")
  BY <1>2, DivInvBlocks DEF BackEnd, Div, DivBusy, DivBlocks, Idle
<1>3. ASSUME BackEnd, ~Issue \/ Kind = "div" PROVE ~pcLoad'
  BY <1>3 DEF BackEnd, Branch
<1>4. CASE Redirect
  <2>1. ~Issue /\ ~DivBusy
    BY <1>4 DEF Redirect, DivInv, Issue, Legal
  <2> QED BY <1>2, <1>4, <2>1 DEF Redirect, DivInv
<1>5. CASE Stall
  BY <1>2, <1>3, <1>5 DEF Stall, DivInv, Issue
<1>6. CASE Interlock \/ Advance
  <2>1. BackEnd /\ ~PipeStall /\ ~pcLoad /\ last' = Kind
    BY <1>6 DEF Interlock, Advance
  <2>2. ~DivBusy
    BY <2>1 DEF DivInv, PipeStall, LastKind
  <2> QED BY <1>2, <1>3, <2>1, <2>2 DEF DivInv
<1> QED BY <1>1, <1>4, <1>5, <1>6 DEF Next

\* Nothing is issued while the divider is away from IDLE, for every program
\* and every divider latency.
THEOREM DividerBlocksIssue == Spec => []DivBlocks
<1>1. Init => DivInv
  BY DEF Init, DivInv, DivBusy
<1> QED BY <1>1, DivInvStep, DivInvBlocks, PipelineTypes, PTL DEF Spec

-----------------------------------------------------------------------------
(* Loads and stores in the LSU.  Only neighbours could mix, and the        *)
(* interlock knows the older neighbour: while an operation is in DC1,      *)
(* last_issued_instr is its kind and no redirect has cleared it.           *)

MixInv ==
  /\ NoMixing
  /\ dc.dc1.kind # "none" => last = dc.dc1.kind /\ ~pcLoad

\* What enters DC1 in a cycle is of the kind that has just been issued, and
\* never the other kind than the operation that is in DC1.
LEMMA MixIn ==
  ASSUME TypeOK, MixInv
  PROVE  /\ LsuIn.kind # "none" => Issue /\ Kind = LsuIn.kind
         /\ {dc.dc1.kind, LsuIn.kind} # {"load", "store"}
<1>1. LsuIn.kind # "none" => Issue /\ Kind = LsuIn.kind /\ Kind \in {"load", "store"}
  BY DEF LsuIn, Empty
<1>2. ASSUME Issue, dc.dc1.kind # "none", Kind # dc.dc1.kind PROVE FALSE
  <2>1. LastKind = dc.dc1.kind /\ Legal /\ LsuBusy
    BY <1>2 DEF MixInv, LastKind, Issue, LsuBusy
  <2>2. dc.dc1.kind \in {"load", "store"}
    BY <1>2 DEF TypeOK, LsuStage
  <2> QED BY <1>2, <2>1, <2>2 DEF PipeStall, Issue
<1> QED BY <1>1, <1>2

\* Every cycle keeps loads and stores apart.
LEMMA MixStep == TypeOK /\ MixInv /\ [Next]_vars => MixInv'
<1> SUFFICES ASSUME TypeOK, MixInv, [Next]_vars PROVE MixInv'
  OBVIOUS
<1>1. CASE UNCHANGED vars
  BY <1>1 DEF vars, MixInv, NoMixing
<1>2. CASE Next
  <2>1. BackEnd
    BY <1>2 DEF Next, Redirect, Stall, Interlock, Advance
  <2>2. pcLoad' => Issue /\ Kind \in {"br", "jal"}
    BY <2>1 DEF BackEnd, Branch
  <2>3. Issue => ~EngineStall /\ last' = Kind
    <3>1. Issue => ~PipeStall /\ ~pcLoad
      BY DEF Issue, Legal
    <3> QED BY <1>2, <3>1 DEF Next, Redirect, Stall, Interlock, Advance, PipeStall
  <2>4. EngineStall => last' = last \/ pcLoad
    BY <1>2 DEF Next, Redirect, Stall, Interlock, Advance, PipeStall
  <2>. /\ AgeStage(dc.dc1).kind = dc.dc1.kind
       /\ AgeStage(dc.dc2).kind = dc.dc2.kind
    BY DEF TypeOK, LsuStage, AgeStage
  <2>5. CASE EngineStall
    <3>1. dc'.dc1.kind = dc.dc1.kind /\ dc'.dc2.kind \in {dc.dc2.kind, "none"}
      BY <2>1, <2>5 DEF BackEnd, Lsu, Empty
    <3>2. ~Issue
      BY <2>3, <2>5
    <3> QED BY <2>2, <2>4, <2>5, <3>1, <3>2 DEF MixInv, NoMixing
  <2>6. CASE ~EngineStall
    <3>1. mem = "go"
      BY <2>6 DEF EngineStall
    <3>2. dc'.dc1 = LsuIn /\ dc'.dc2.kind = dc.dc1.kind
      BY <2>1, <2>6, <3>1 DEF BackEnd, Lsu
    <3>3. dc'.dc1.kind # "none" => Issue /\ Kind = dc'.dc1.kind /\ Kind \notin {"br", "jal"}
      BY <3>2, MixIn DEF LsuIn, Empty
    <3> QED BY <2>2, <2>3, <3>2, <3>3, MixIn DEF MixInv, NoMixing
  <2> QED BY <2>5, <2>6
<1> QED BY <1>1, <1>2

\* Loads and stores never share DC1 and DC2, whatever the program does and
\* however long the memory holds the engine: the single port of the memory
\* has no conflict, and no load meets an older store on its way.
THEOREM LoadsAndStoresApart == Spec => []NoMixing
<1>1. Init => MixInv
  BY DEF Init, MixInv, NoMixing, Empty
<1>2. TypeOK /\ MixInv /\ [Next]_vars => MixInv'
  BY MixStep
<1>3. MixInv => NoMixing
  BY DEF MixInv
<1> QED BY <1>1, <1>2, <1>3, PipelineTypes, PTL DEF Spec

-----------------------------------------------------------------------------
(* Programs without multiplies and loads, on a core nothing holds: the     *)
(* forwarding paths alone deliver every operand.  At most one result is    *)
(* outstanding at any time, and it is the one the register file lacks.     *)

Plain ==
  /\ Kinds \cap Tracked = {}
  /\ x0 \notin Dests
  /\ ~Accel
  /\ ~SlowMem

\* The units such a program does not use stay empty.
Unused ==
  /\ \A k \in 1..MulLat : mul[k] = None
  /\ dc.dc1.kind # "load" /\ dc.dc2.kind # "load"
  /\ dc.dc1.res = None /\ dc.dc2.res = None /\ dc.dc3.res = None
  /\ rsb = {} /\ ~hold /\ mem = "go"
  /\ last \notin Tracked

Outstanding == {r \in {alu, vec, divOut, div.res} : r # None}

\* One result at most, never old, and it explains what the register file lacks.
OneResult ==
  /\ alu # None => vec = None /\ divOut = None /\ div.res = None
  /\ vec # None => divOut = None /\ div.res = None
  /\ divOut # None => div.res = None
  /\ \A r \in Outstanding : r.new /\ r.rd # x0
  /\ rfOld = {r.rd : r \in Outstanding}
  /\ DivBusy <=> div.res # None

\* What IDU1 lacks is on the port now, or comes from the running division.
StaleExplained ==
  \A s \in stale :
    \/ DivBusy /\ div.res.rd = s
    \/ WbHits(s) /\ last \notin {"store", "vec"}

VectorBlocks == vbusy => last = "vec" /\ ~pcLoad

PlainInv ==
  TypeOK /\ DivInv /\ Unused /\ OneResult /\ StaleExplained /\ VectorBlocks

\* What the writeback port carries in such a program.
LEMMA PlainPort ==
  ASSUME Plain, PlainInv
  PROVE  /\ WbValid <=> alu # None \/ vec # None \/ divOut # None
         /\ WbValid => WbCurrent /\ ~DivBusy /\ rfOld = {WbRd} /\ WbRd # x0
         /\ ~WbValid /\ ~DivBusy => rfOld = {}
         /\ ~Clash
<1>1. mul[MulLat] = None /\ dc.dc3.res = None
  BY PipelineAssumption DEF PlainInv, Unused
<1>2. alu \in Slot /\ vec \in Slot /\ divOut \in Slot
  BY DEF PlainInv, TypeOK
<1>3. OneResult
  BY DEF PlainInv
<1>4. CASE alu # None
  <2>1. Scalar = {alu} /\ Drivers = 1 /\ vec = None /\ WbValid
    BY <1>1, <1>3, <1>4 DEF Scalar, Drivers, OneResult, WbValid
  <2>2. WbRd = alu.rd
    BY <2>1 DEF WbRd
  <2>3. Outstanding = {alu} /\ ~DivBusy
    BY <1>3, <1>4 DEF Outstanding, OneResult
  <2>4. rfOld = {WbRd} /\ alu.new /\ WbRd # x0
    BY <1>3, <2>2, <2>3 DEF OneResult
  <2> QED BY <1>4, <2>1, <2>3, <2>4 DEF WbCurrent, Clash
<1>5. CASE vec # None
  <2>1. Drivers = 0 /\ alu = None /\ WbValid /\ WbRd = vec.rd
    BY <1>1, <1>3, <1>5 DEF Drivers, OneResult, WbValid, WbRd
  <2>2. Outstanding = {vec} /\ ~DivBusy
    BY <1>3, <1>5, <2>1 DEF Outstanding, OneResult
  <2>3. rfOld = {WbRd} /\ vec.new /\ WbRd # x0
    BY <1>3, <2>1, <2>2 DEF OneResult
  <2> QED BY <1>5, <2>1, <2>2, <2>3 DEF WbCurrent, Clash
<1>6. CASE divOut # None
  <2>1. Scalar = {divOut} /\ Drivers = 1 /\ vec = None /\ alu = None /\ WbValid
    BY <1>1, <1>3, <1>6 DEF Scalar, Drivers, OneResult, WbValid
  <2>2. WbRd = divOut.rd
    BY <2>1 DEF WbRd
  <2>3. Outstanding = {divOut} /\ ~DivBusy
    BY <1>3, <1>6, <2>1 DEF Outstanding, OneResult
  <2>4. rfOld = {WbRd} /\ divOut.new /\ WbRd # x0
    BY <1>3, <2>2, <2>3 DEF OneResult
  <2> QED BY <1>6, <2>1, <2>3, <2>4 DEF WbCurrent, Clash
<1>7. CASE alu = None /\ vec = None /\ divOut = None
  <2>1. Drivers = 0 /\ ~WbValid
    BY <1>1, <1>7 DEF Drivers, WbValid
  <2>2. ~DivBusy => Outstanding = {}
    BY <1>3, <1>7 DEF Outstanding, OneResult
  <2> QED BY <1>3, <1>7, <2>1, <2>2 DEF OneResult, Clash
<1> QED BY <1>4, <1>5, <1>6, <1>7

\* A stalled instruction of such a program lacks nothing that is on the port.
LEMMA PlainStall ==
  ASSUME Plain, PlainInv, PipeStall, ~pcLoad, NEW s \in stale
  PROVE  DivBusy /\ div.res.rd = s
<1>1. ~MulBusy
  BY PipelineAssumption DEF PlainInv, Unused, MulBusy
<1>2. ~EngineStall /\ ~hold /\ last \notin Tracked
  BY DEF PlainInv, Unused, EngineStall
<1>3. ASSUME WbHits(s), last \notin {"store", "vec"} PROVE FALSE
  <2>1. ~DivBusy
    BY <1>3, PlainPort DEF WbHits
  <2>2. ~vbusy
    BY <1>3 DEF PlainInv, VectorBlocks
  <2> QED BY <1>1, <1>2, <1>3, <2>1, <2>2 DEF PipeStall, LastKind, Tracked
<1> QED BY <1>3 DEF PlainInv, StaleExplained

\* What the invariant says of the current state.
LEMMA PlainSafe ==
  ASSUME Plain, PlainInv
  PROVE  OperandsCurrent /\ HazardFree /\ ForwardKept
<1>1. OperandsCurrent
  <2> SUFFICES ASSUME Issue, NEW s \in idu1.op.srcs,
                      IF WbHits(s) THEN ~WbCurrent ELSE s \in stale
               PROVE  FALSE
    BY DEF OperandsCurrent, WrongOperands
  <2>1. ~WbHits(s) /\ s \in stale
    BY PlainPort DEF WbHits
  <2>2. DivBusy
    BY <2>1 DEF PlainInv, StaleExplained
  <2> QED BY <2>2, DivInvBlocks DEF PlainInv, DivBlocks
<1>2. ~EarlyRelease /\ ~Overwrite /\ ~ZeroForward
  BY PlainPort DEF PlainInv, Unused, EarlyRelease, Overwrite, ZeroForward, WbHits
<1>3. ForwardKept
  <2> SUFFICES ASSUME PipeStall, Legal, NEW s \in stale, WbHits(s) PROVE FALSE
    BY DEF ForwardKept
  <2>1. DivBusy
    BY PlainStall DEF Legal
  <2> QED BY <2>1, PlainPort DEF WbHits
<1> QED BY <1>1, <1>2, <1>3, PlainPort DEF HazardFree, Hazard

\* Every cycle runs the back end and keeps the unused units empty.
LEMMA PlainUnused ==
  ASSUME Plain, PlainInv, Next
  PROVE  Unused' /\ Kind \notin Tracked
<1>1. BackEnd
  BY DEF Next, Redirect, Stall, Interlock, Advance
<1>2. Kind \notin Tracked /\ idu0.kind \notin Tracked
  BY DEF Plain, PlainInv, TypeOK, Kind, Program, Bubble, Tracked
<1>3. \A k \in 1..MulLat : mul'[k] = None
  <2> SUFFICES ASSUME NEW k \in 1..MulLat PROVE mul'[k] = None
    OBVIOUS
  <2>1. mul'[k] = IF k = 1 THEN Unit({"mul"}) ELSE Age(mul[k - 1])
    BY <1>1 DEF BackEnd, Mul
  <2>2. Unit({"mul"}) = None
    BY <1>2 DEF Unit, Tracked
  <2>3. k # 1 => mul[k - 1] = None
    BY PipelineAssumption DEF PlainInv, Unused
  <2> QED BY <2>1, <2>2, <2>3 DEF Age
<1>4. LsuIn.kind # "load" /\ LsuIn.res = None
  BY <1>2 DEF LsuIn, Empty, Tracked
<1>5. /\ dc'.dc1.kind # "load" /\ dc'.dc2.kind # "load"
      /\ dc'.dc1.res = None /\ dc'.dc2.res = None /\ dc'.dc3.res = None
  <2>1. AgeStage(dc.dc1) = dc.dc1 /\ AgeStage(dc.dc2) = dc.dc2
    BY DEF AgeStage, Age, PlainInv, TypeOK, LsuStage, Unused
  <2>2. mem = "go" /\ ~EngineStall
    BY DEF PlainInv, Unused, EngineStall
  <2> QED BY <1>1, <1>4, <2>1, <2>2 DEF BackEnd, Lsu, PlainInv, Unused
<1>6. rsb' = {}
  BY <1>1, <1>2 DEF BackEnd, Scoreboard, RsbSet, PlainInv, Unused
<1>7. ~hold' /\ mem' = "go"
  <2>1. hold = FALSE
    BY DEF PlainInv, Unused, TypeOK
  <2> QED BY <1>1, <2>1 DEF BackEnd, Environment, Plain
<1>8. last' \notin Tracked
  BY <1>2 DEF Next, Redirect, Stall, Interlock, Advance, PlainInv, Unused, Tracked
<1> QED BY <1>2, <1>3, <1>5, <1>6, <1>7, <1>8 DEF Unused

\* An issued instruction is the only one with an outstanding result after
\* the cycle, and a running division runs alone.
LEMMA PlainResult ==
  ASSUME Plain, PlainInv, Next
  PROVE  /\ OneResult'
         /\ IssueWrites => WbValid' \/ DivBusy'
         /\ IssueWrites /\ ~DivBusy' => WbRd' = idu1.op.rd
         /\ DivBusy' => \/ DivBusy /\ div.res.rd = div'.res.rd
                        \/ IssueWrites /\ Kind = "div" /\ div'.res.rd = idu1.op.rd
         /\ DivBusy /\ ~DivBusy' => WbValid' /\ WbRd' = div.res.rd
<1>1. BackEnd
  BY DEF Next, Redirect, Stall, Interlock, Advance
<1>2. DivBusy => ~Issue
  BY DivInvBlocks DEF PlainInv, DivBlocks
<1>3. Unused' /\ Kind \notin Tracked
  BY PlainUnused
<1>4. mul'[MulLat] = None /\ dc'.dc3.res = None
  BY <1>3, PipelineAssumption DEF Unused
<1>5. Kind \in Writers /\ Issue => idu1.op.rd \in Dests
  BY DEF PlainInv, TypeOK, Kind, Program, Bubble, Issue, Legal, Writers
<1>6. IssueWrites <=> Issue /\ Kind \in Writers
  BY <1>5 DEF IssueWrites, Plain
<1>7. IssueWrites => idu1.op.rd # x0
  BY <1>5, <1>6 DEF Plain
<1>8. CASE DivBusy
  <2>1. ~Issue /\ ~IssueWrites /\ ~WbValid
    BY <1>2, <1>6, <1>8, PlainPort
  <2>2. alu' = None /\ vec' = None
    BY <1>1, <2>1 DEF BackEnd, Alu, Vector, Unit
  <2>3. Age(div.res) = div.res /\ div.res # None /\ div.res.new /\ div.res.rd # x0
    BY <1>8, <2>1 DEF Age, PlainInv, OneResult, Outstanding
  <2>4. rfOld' = {div.res.rd}
    <3>1. Outstanding = {div.res}
      BY <2>1, <2>3, PlainPort DEF Outstanding
    <3> QED BY <1>1, <2>1, <2>3, <3>1 DEF BackEnd, RegFile, PlainInv, OneResult
  <2>5. CASE div.left = 1
    <3>1. div' = Idle /\ divOut' = div.res
      BY <1>1, <1>8, <2>3, <2>5 DEF BackEnd, Div, DivBusy
    <3>2. Outstanding' = {div.res} /\ ~DivBusy' /\ div'.res = None
      BY <2>2, <2>3, <3>1 DEF Outstanding, DivBusy, Idle
    <3>3. Scalar' = {div.res} /\ Drivers' = 1 /\ WbValid'
      BY <1>4, <2>2, <2>3, <3>1 DEF Scalar, Drivers, WbValid
    <3>4. WbRd' = div.res.rd
      BY <2>2, <3>3 DEF WbRd
    <3> QED BY <2>1, <2>2, <2>3, <2>4, <3>1, <3>2, <3>3, <3>4 DEF OneResult
  <2>6. CASE div.left # 1
    <3>1. div' = [left |-> div.left - 1, res |-> div.res] /\ div.left > 1 /\ divOut' = None
      BY <1>1, <1>8, <2>3, <2>6 DEF BackEnd, Div, DivBusy
    <3>2. Outstanding' = {div.res} /\ div'.res = div.res
      BY <2>2, <2>3, <3>1 DEF Outstanding
    <3>3. DivBusy'
      BY <2>3, <3>1 DEF DivBusy, Idle
    <3> QED BY <1>8, <2>1, <2>2, <2>3, <2>4, <3>1, <3>2, <3>3 DEF OneResult
  <2> QED BY <2>5, <2>6
<1>9. CASE ~DivBusy
  <2>1. div = Idle /\ div.left # 1 /\ divOut' = None
    BY <1>1, <1>9 DEF DivBusy, BackEnd, Div, Idle
  <2>2. rfOld' = IF IssueWrites THEN {idu1.op.rd} ELSE {}
    <3>1. WbValid => WbCurrent /\ rfOld = {WbRd}
      BY PlainPort
    <3>2. ~WbValid => rfOld = {}
      BY <1>9, PlainPort
    <3> QED BY <1>1, <1>7, <3>1, <3>2 DEF BackEnd, RegFile
  <2>3. Fresh # None /\ Fresh.new /\ Fresh.rd = idu1.op.rd
    BY DEF Fresh, None
  <2>4. alu' = (IF IssueWrites /\ Kind \in {"alu", "jal"} THEN Fresh ELSE None)
    BY <1>1, <1>6 DEF BackEnd, Alu, Unit, Writers
  <2>5. vec' = (IF IssueWrites /\ Kind = "vset" THEN Fresh ELSE None)
    BY <1>1 DEF BackEnd, Vector
  <2>6. IssueWrites => Kind \in {"alu", "jal", "vset", "div"}
    BY <1>3, <1>6 DEF Writers, Tracked
  <2>7. CASE IssueWrites /\ Kind = "div"
    <3>1. \E n \in 1..DivLat : div' = [left |-> n, res |-> Fresh]
      BY <1>1, <1>6, <2>1, <2>7 DEF BackEnd, Div, Idle
    <3>2. div'.res = Fresh /\ DivBusy'
      BY <2>3, <3>1 DEF DivBusy, Idle
    <3>3. alu' = None /\ vec' = None /\ Outstanding' = {Fresh}
      BY <2>1, <2>3, <2>4, <2>5, <2>7, <3>2 DEF Outstanding
    <3> QED BY <1>7, <1>9, <2>1, <2>2, <2>3, <2>7, <3>2, <3>3 DEF OneResult
  <2>8. CASE ~(IssueWrites /\ Kind = "div")
    <3>1. div' = Idle /\ ~DivBusy' /\ div'.res = None
      BY <1>1, <1>6, <2>1, <2>8 DEF BackEnd, Div, Idle, DivBusy, Writers
    <3>2. CASE ~IssueWrites
      <4>1. alu' = None /\ vec' = None /\ Outstanding' = {}
        BY <2>1, <2>4, <2>5, <3>1, <3>2 DEF Outstanding
      <4> QED BY <1>9, <2>1, <2>2, <3>1, <3>2, <4>1 DEF OneResult
    <3>3. CASE IssueWrites /\ Kind = "vset"
      <4>1. alu' = None /\ vec' = Fresh /\ Outstanding' = {Fresh}
        BY <2>1, <2>3, <2>4, <2>5, <3>1, <3>3 DEF Outstanding
      <4>2. WbValid' /\ WbRd' = idu1.op.rd
        BY <2>3, <4>1 DEF WbValid, WbRd
      <4> QED BY <1>7, <1>9, <2>1, <2>2, <2>3, <3>1, <3>3, <4>1, <4>2 DEF OneResult
    <3>4. CASE IssueWrites /\ Kind \in {"alu", "jal"}
      <4>1. alu' = Fresh /\ vec' = None /\ Outstanding' = {Fresh}
        BY <2>1, <2>3, <2>4, <2>5, <3>1, <3>4 DEF Outstanding
      <4>2. Scalar' = {Fresh} /\ Drivers' = 1 /\ WbValid'
        BY <1>4, <2>1, <2>3, <4>1 DEF Scalar, Drivers, WbValid
      <4>3. WbRd' = idu1.op.rd
        BY <2>3, <4>1, <4>2 DEF WbRd
      <4> QED BY <1>7, <1>9, <2>1, <2>2, <2>3, <3>1, <3>4, <4>1, <4>2, <4>3 DEF OneResult
    <3> QED BY <2>6, <2>8, <3>2, <3>3, <3>4
  <2> QED BY <2>7, <2>8
<1> QED BY <1>8, <1>9

\* Every cycle keeps the strengthened invariant.
LEMMA PlainStep == Plain /\ PlainInv /\ [Next]_vars => PlainInv'
<1> SUFFICES ASSUME Plain, PlainInv, [Next]_vars PROVE PlainInv'
  OBVIOUS
<1>1. CASE UNCHANGED vars
  <2>1. TypeOK' /\ DivInv'
    BY <1>1, TypeStep, DivInvStep DEF PlainInv
  <2>2. Unused'
    BY <1>1 DEF vars, PlainInv, Unused
  <2>3. OneResult'
    BY <1>1 DEF vars, PlainInv, OneResult, Outstanding, DivBusy
  <2>4. VectorBlocks'
    BY <1>1 DEF vars, PlainInv, VectorBlocks
  <2>5. StaleExplained'
    BY <1>1 DEF vars, PlainInv, StaleExplained, DivBusy, WbHits, WbValid, WbRd,
                Scalar, Drivers
  <2> QED BY <2>1, <2>2, <2>3, <2>4, <2>5 DEF PlainInv
<1>2. CASE Next
  <2>1. TypeOK' /\ DivInv'
    BY <1>2, TypeStep, DivInvStep DEF PlainInv
  <2>2. Unused' /\ Kind \notin Tracked
    BY <1>2, PlainUnused
  <2>3. OneResult'
    BY <1>2, PlainResult
  <2>4. BackEnd
    BY <1>2 DEF Next, Redirect, Stall, Interlock, Advance
  <2>5. VectorBlocks'
    <3>1. CASE vbusy
      <4>1. last = "vec" /\ ~pcLoad /\ PipeStall
        BY <3>1 DEF PlainInv, VectorBlocks, PipeStall, LastKind
      <4>2. last' = "vec" /\ ~pcLoad'
        BY <1>2, <2>4, <4>1 DEF Next, Redirect, Stall, Interlock, Advance,
                               BackEnd, Branch, Issue
      <4> QED BY <4>2 DEF VectorBlocks
    <3>2. CASE ~vbusy
      <4> SUFFICES ASSUME vbusy' PROVE last' = "vec" /\ ~pcLoad'
        BY DEF VectorBlocks
      <4>1. Issue /\ Kind = "vec"
        BY <2>4, <3>2 DEF BackEnd, Vector
      <4> QED BY <1>2, <2>4, <4>1 DEF Next, Redirect, Stall, Interlock, Advance,
                                     BackEnd, Branch, Issue, Legal
    <3> QED BY <3>1, <3>2
  <2>6. StaleExplained'
    <3> SUFFICES ASSUME NEW s \in stale'
                 PROVE  \/ DivBusy' /\ div'.res.rd = s
                        \/ WbValid' /\ WbRd' = s /\ last' \notin {"store", "vec"}
      BY DEF StaleExplained, WbHits
    <3>1. CASE Redirect
      BY <3>1 DEF Redirect
    <3>2. CASE Stall
      <4>1. DivBusy /\ div.res.rd = s /\ last' = last
        BY <3>2, PlainStall DEF Stall
      <4>2. last = "div"
        BY <4>1 DEF PlainInv, DivInv
      <4>3. ~Issue
        BY <3>2 DEF Stall, Issue
      <4>4. CASE DivBusy'
        BY <1>2, <4>1, <4>3, <4>4, PlainResult DEF IssueWrites
      <4>5. CASE ~DivBusy'
        BY <1>2, <4>1, <4>2, <4>5, PlainResult
      <4> QED BY <4>4, <4>5
    <3>3. CASE Interlock \/ Advance
      <4>1. s \in Captured /\ last' = Kind /\ ~PipeStall /\ ~pcLoad
        BY <3>3 DEF Interlock, Advance
      <4>2. ~DivBusy
        BY <4>1 DEF PlainInv, DivInv, PipeStall, LastKind
      <4>3. WbHits(s) \/ s \in rfOld => WbHits(s) /\ WbCurrent
        BY <4>2, PlainPort DEF WbHits
      <4>4. IssueWrites /\ idu1.op.rd = s
        BY <4>1, <4>3 DEF Captured
      <4>5. Kind \notin {"store", "vec"}
        BY <4>4 DEF IssueWrites, Writers
      <4>6. CASE DivBusy'
        BY <1>2, <4>2, <4>4, <4>6, PlainResult
      <4>7. CASE ~DivBusy'
        BY <1>2, <4>1, <4>4, <4>5, <4>7, PlainResult
      <4> QED BY <4>6, <4>7
    <3> QED BY <1>2, <3>1, <3>2, <3>3 DEF Next
  <2> QED BY <2>1, <2>2, <2>3, <2>5, <2>6 DEF PlainInv
<1> QED BY <1>1, <1>2

\* The strengthened invariant holds initially.
LEMMA PlainStart == Plain /\ Init => PlainInv
<1> SUFFICES ASSUME Plain, Init PROVE PlainInv
  OBVIOUS
<1>1. TypeOK
  BY TypeInit
<1>2. ~DivBusy /\ Outstanding = {} /\ div.res = None
  BY DEF Init, DivBusy, Outstanding, Idle
<1>3. Unused
  BY DEF Init, Unused, Empty, Tracked
<1>4. OneResult
  BY <1>2 DEF Init, OneResult
<1> QED BY <1>1, <1>2, <1>3, <1>4 DEF PlainInv, Init, DivInv, StaleExplained, VectorBlocks

\* Every operand is current, without any scoreboard, in a program of ALU
\* operations, branches, divisions, stores and vector instructions.
THEOREM PlainOperands ==
  ASSUME Plain
  PROVE  Spec => []OperandsCurrent
<1>1. Init => PlainInv
  BY PlainStart
<1>2. PlainInv /\ [Next]_vars => PlainInv'
  BY PlainStep
<1>3. PlainInv => OperandsCurrent
  BY PlainSafe
<1> QED BY <1>1, <1>2, <1>3, PTL DEF Spec

\* None of the hazards happens in such a program: in particular one unit at
\* a time writes back, and results are written in program order.
THEOREM PlainHazards ==
  ASSUME Plain
  PROVE  Spec => []HazardFree
<1>1. Init => PlainInv
  BY PlainStart
<1>2. PlainInv /\ [Next]_vars => PlainInv'
  BY PlainStep
<1>3. PlainInv => HazardFree
  BY PlainSafe
<1> QED BY <1>1, <1>2, <1>3, PTL DEF Spec

\* In such a program an instruction that lacks a value never stalls in the
\* one cycle the value is forwarded.
THEOREM PlainForward ==
  ASSUME Plain
  PROVE  Spec => []ForwardKept
<1>1. Init => PlainInv
  BY PlainStart
<1>2. PlainInv /\ [Next]_vars => PlainInv'
  BY PlainStep
<1>3. PlainInv => ForwardKept
  BY PlainSafe
<1> QED BY <1>1, <1>2, <1>3, PTL DEF Spec

-----------------------------------------------------------------------------
(***************************************************************************)
(* From here on results are followed from their unit to the register file. *)
(***************************************************************************)

-----------------------------------------------------------------------------
(* Results move on, one stage a cycle.                                     *)

LEMMA NoneIsNoResult == None \notin Result
<1> SUFFICES ASSUME None \in Result PROVE FALSE
  OBVIOUS
<1>1. DOMAIN None = {"rd", "new"}
  BY DEF Result
<1>2. "none" \in DOMAIN None
  BY DEF None
<1> QED BY <1>1, <1>2

\* Aging keeps the destination, and what is not overtaken stays new.
LEMMA AgeKeeps ==
  ASSUME NEW r \in Result
  PROVE  /\ Age(r) \in Result /\ Age(r) # None /\ Age(r).rd = r.rd
         /\ ~(IssueWrites /\ idu1.op.rd = r.rd) => Age(r) = r
<1>1. Age(r) \in Result /\ Age(r).rd = r.rd
  BY DEF Age, Result
<1>2. Age(r) # None
  BY <1>1, NoneIsNoResult
<1>3. ~(IssueWrites /\ idu1.op.rd = r.rd) => Age(r) = r
  BY DEF Age
<1> QED BY <1>1, <1>2, <1>3

LEMMA SlotResult == \A r \in Slot : r # None => r \in Result
BY DEF Slot

\* A unit that drives the port alone is what the port shows.
LEMMA PortShows ==
  ASSUME TypeOK, ~Clash,
         NEW e \in {alu, vec, mul[MulLat], divOut, dc.dc3.res}, e # None
  PROVE  /\ WbValid /\ WbRd = e.rd
         /\ e.new /\ e.rd # x0 => WbCurrent
<1>1. CASE vec # None
  <2>1. e = vec
    BY <1>1 DEF Clash, Drivers
  <2> QED BY <1>1, <2>1 DEF WbValid, WbRd, WbCurrent
<1>2. CASE vec = None
  <2>1. Drivers = 1
    BY <1>2 DEF Clash, Drivers
  <2>2. Scalar = {e}
    BY <1>2, <2>1 DEF Drivers, Scalar
  <2>3. WbRd = e.rd
    BY <1>2, <2>2 DEF WbRd
  <2> QED BY <1>2, <2>1, <2>2, <2>3 DEF WbValid, WbCurrent
<1> QED BY <1>1, <1>2

\* The multiplier's stages are those of the last cycle, one further.
LEMMA MulMoves ==
  ASSUME TypeOK, BackEnd, NEW k \in 1..MulLat, k # MulLat
  PROVE  k + 1 \in 1..MulLat /\ mul'[k + 1] = Age(mul[k])
<1>1. k \in Nat /\ k > 0 /\ k + 1 \in 1..MulLat /\ k + 1 # 1 /\ (k + 1) - 1 = k
  BY PipelineAssumption
<1> QED BY <1>1 DEF BackEnd, Mul

\* What is in the first two stages of the LSU waits there or moves on.
LEMMA LsuMoves ==
  ASSUME TypeOK, BackEnd, NEW g \in {"dc1", "dc2"}
  PROVE  \E h \in DOMAIN dc' : dc'[h].res = Age(dc[g].res)
<1>1. /\ AgeStage(dc.dc1).res = Age(dc.dc1.res)
      /\ AgeStage(dc.dc2).res = Age(dc.dc2.res)
  BY DEF TypeOK, LsuStage, AgeStage
<1>2. DOMAIN dc' = {"dc1", "dc2", "dc3"}
  BY DEF BackEnd, Lsu
<1>3. CASE g = "dc1"
  <2>1. CASE EngineStall
    <3>1. dc'.dc1 = AgeStage(dc.dc1)
      BY <2>1 DEF BackEnd, Lsu
    <3> QED BY <1>1, <1>2, <1>3, <3>1
  <2>2. CASE ~EngineStall
    <3>1. dc'.dc2 = AgeStage(dc.dc1)
      BY <2>2 DEF EngineStall, BackEnd, Lsu
    <3> QED BY <1>1, <1>2, <1>3, <3>1
  <2> QED BY <2>1, <2>2
<1>4. CASE g = "dc2"
  <2>1. CASE mem = "dram"
    <3>1. dc'.dc2 = AgeStage(dc.dc2)
      BY <2>1 DEF BackEnd, Lsu
    <3> QED BY <1>1, <1>2, <1>4, <3>1
  <2>2. CASE mem # "dram"
    <3>1. dc'.dc3 = AgeStage(dc.dc2)
      BY <2>2 DEF BackEnd, Lsu
    <3> QED BY <1>1, <1>2, <1>4, <3>1
  <2> QED BY <2>1, <2>2
<1> QED BY <1>3, <1>4

\* What is issued is in its unit in the next cycle.
LEMMA IssueEnters ==
  ASSUME TypeOK, DivBlocks, BackEnd, Issue
  PROVE  /\ Kind \in {"alu", "jal"} => alu' = Fresh
         /\ Kind = "mul" => mul'[1] = Fresh
         /\ Kind = "load" => dc'.dc1.res = Fresh
         /\ Kind = "div" => div'.res = Fresh
         /\ Kind = "vset" /\ IssueWrites => vec' = Fresh
<1>1. ~EngineStall
  BY DEF Issue, PipeStall
<1>2. 1 \in 1..MulLat
  BY PipelineAssumption
<1>3. div = Idle
  BY DEF DivBlocks, DivBusy
<1>4. Kind \in {"alu", "jal"} => alu' = Fresh
  BY DEF BackEnd, Alu, Unit
<1>5. Kind = "mul" => mul'[1] = Fresh
  BY <1>2 DEF BackEnd, Mul, Unit
<1>6. Kind = "load" => dc'.dc1.res = Fresh
  BY <1>1 DEF BackEnd, Lsu, LsuIn
<1>7. Kind = "div" => div'.res = Fresh
  BY <1>3, PipelineAssumption DEF BackEnd, Div, Idle
<1>8. Kind = "vset" /\ IssueWrites => vec' = Fresh
  BY DEF BackEnd, Vector
<1> QED BY <1>4, <1>5, <1>6, <1>7, <1>8

-----------------------------------------------------------------------------
(* No result is lost.                                                      *)

\* A result stays on its way until the port has shown it.
LEMMA ResultsMove ==
  ASSUME TypeOK, ~Clash, BackEnd, NEW e \in InFlight,
         ~(WbValid /\ WbRd = e.rd /\ (e.new /\ e.rd # x0 => WbCurrent))
  PROVE  Age(e) \in InFlight'
<1>1. e # None
  BY DEF InFlight
<1>2. e \notin {alu, vec, mul[MulLat], divOut, dc.dc3.res}
  BY <1>1, PortShows
<1>3. div.res \in Slot /\ (\A k \in 1..MulLat : mul[k] \in Slot)
        /\ \A g \in DOMAIN dc : dc[g].res \in Slot
  BY DEF TypeOK, LsuStage
<1>4. e \in Result
  BY <1>1, <1>2, <1>3, SlotResult DEF InFlight
<1>5. Age(e) # None
  BY <1>4, AgeKeeps
<1>6. CASE e = div.res
  <2>1. div # Idle
    BY <1>1, <1>6 DEF Idle
  <2>2. divOut' = Age(e) \/ div'.res = Age(e)
    BY <1>6, <2>1 DEF BackEnd, Div
  <2> QED BY <1>5, <2>2 DEF InFlight
<1>7. ASSUME NEW k \in 1..MulLat, e = mul[k] PROVE Age(e) \in InFlight'
  <2>1. k # MulLat
    BY <1>2, <1>7
  <2>2. k + 1 \in 1..MulLat /\ mul'[k + 1] = Age(e)
    BY <1>7, <2>1, MulMoves
  <2> QED BY <1>5, <2>2 DEF InFlight
<1>8. ASSUME NEW g \in DOMAIN dc, e = dc[g].res PROVE Age(e) \in InFlight'
  <2>1. DOMAIN dc = {"dc1", "dc2", "dc3"}
    BY DEF TypeOK
  <2>2. g \in {"dc1", "dc2"}
    BY <1>2, <1>8, <2>1
  <2>3. PICK h \in DOMAIN dc' : dc'[h].res = Age(e)
    BY <1>8, <2>2, LsuMoves
  <2> QED BY <1>5, <2>3 DEF InFlight
<1> QED BY <1>1, <1>2, <1>6, <1>7, <1>8 DEF InFlight

\* A register whose writer has just been issued waits for that writer.
LEMMA IssuedInFlight ==
  ASSUME TypeOK, DivBlocks, BackEnd, IssueWrites
  PROVE  Fresh \in InFlight'
<1>1. Issue /\ Kind \in Writers
  BY DEF IssueWrites
<1>2. Fresh # None
  BY SlotTypes, NoneIsNoResult
<1>3. 1 \in 1..MulLat
  BY PipelineAssumption
<1>4. "dc1" \in DOMAIN dc'
  BY DEF BackEnd, Lsu
<1>5. \/ alu' = Fresh \/ mul'[1] = Fresh \/ dc'["dc1"].res = Fresh
      \/ div'.res = Fresh \/ vec' = Fresh
  BY <1>1, IssueEnters DEF Writers
<1> QED BY <1>2, <1>3, <1>4, <1>5 DEF InFlight

\* What the register file lacks after a cycle it lacked before, and the port
\* did not bring it, or its writer is leaving IDU1.
LEMMA RegFileStep ==
  ASSUME TypeOK, BackEnd, ~Overwrite, NEW r \in rfOld'
  PROVE  \/ IssueWrites /\ r = idu1.op.rd
         \/ r \in rfOld /\ ~(WbValid /\ WbRd = r /\ WbCurrent)
BY DEF BackEnd, RegFile, Overwrite

LEMMA HazardStays == UNCHANGED vars => Hazard' = Hazard
BY DEF vars, Hazard, Clash, EarlyRelease, ZeroForward, Overwrite, Drivers, WbHits,
       WbValid, WbCurrent, WbRd, Scalar, Kind

LEMMA NothingLostStep ==
  TypeOK /\ DivBlocks /\ NothingLost /\ [Next]_vars => NothingLost'
<1> SUFFICES ASSUME TypeOK, DivBlocks, NothingLost, [Next]_vars,
                    ~taint', ~Hazard', NEW r \in rfOld'
             PROVE  \E e \in InFlight' : e.rd = r /\ e.new
  BY DEF NothingLost
<1>1. CASE UNCHANGED vars
  <2>1. InFlight' = InFlight
    BY <1>1 DEF vars, InFlight
  <2>2. ~taint /\ ~Hazard /\ rfOld' = rfOld
    BY <1>1, HazardStays DEF vars
  <2> QED BY <2>1, <2>2 DEF NothingLost
<1>2. CASE Next
  <2>1. BackEnd
    BY <1>2 DEF Next, Redirect, Stall, Interlock, Advance
  <2>2. ~taint /\ ~Hazard /\ ~Clash /\ ~Overwrite
    BY <2>1 DEF BackEnd, Hazard
  <2>3. CASE IssueWrites /\ r = idu1.op.rd
    BY <2>1, <2>3, IssuedInFlight DEF Fresh
  <2>4. CASE /\ ~(IssueWrites /\ r = idu1.op.rd)
             /\ r \in rfOld /\ ~(WbValid /\ WbRd = r /\ WbCurrent)
    <3>1. PICK e \in InFlight : e.rd = r /\ e.new
      BY <2>2, <2>4 DEF NothingLost
    <3>2. r # x0
      BY <2>4 DEF TypeOK
    <3>3. Age(e) \in InFlight'
      BY <2>1, <2>2, <2>4, <3>1, <3>2, ResultsMove
    <3>4. Age(e) = e
      BY <2>4, <3>1 DEF Age
    <3> QED BY <3>1, <3>3, <3>4
  <2> QED BY <2>1, <2>2, <2>3, <2>4, RegFileStep
<1> QED BY <1>1, <1>2

\* As long as no hazard has happened, the youngest result of every register
\* that the register file lacks is on its way: in a unit, in the LSU, or on
\* the port.  Stalls, redirects and a slow memory lose none.
THEOREM ResultsArrive == Spec => []NothingLost
<1>1. Init => NothingLost
  BY DEF Init, NothingLost
<1> QED
  BY <1>1, NothingLostStep, PipelineTypes, DividerBlocksIssue, PTL DEF Spec
-----------------------------------------------------------------------------
(* Every bit of the scoreboard is cleared.                                 *)

Owned(r) ==
  \/ Legal /\ Kind \in Tracked /\ idu1.op.rd = r
  \/ pcLoad
  \/ \E k \in 1..MulLat : mul[k] # None /\ mul[k].rd = r
  \/ \E g \in DOMAIN dc : dc[g].res # None /\ dc[g].res.rd = r

\* A unit that the scoreboard tracks keeps its result, or the port shows it.
LEMMA OwnersMove ==
  ASSUME TypeOK, ~Clash, BackEnd, NEW r, ~(WbValid /\ WbRd = r),
         \/ \E k \in 1..MulLat : mul[k] # None /\ mul[k].rd = r
         \/ \E g \in DOMAIN dc : dc[g].res # None /\ dc[g].res.rd = r
  PROVE  Owned(r)'
<1>1. (\A k \in 1..MulLat : mul[k] \in Slot) /\ \A g \in DOMAIN dc : dc[g].res \in Slot
  BY DEF TypeOK, LsuStage
<1>2. ASSUME NEW k \in 1..MulLat, mul[k] # None, mul[k].rd = r PROVE Owned(r)'
  <2>1. k # MulLat
    BY <1>2, PortShows
  <2>2. k + 1 \in 1..MulLat /\ mul'[k + 1] = Age(mul[k])
    BY <2>1, MulMoves
  <2>3. Age(mul[k]) # None /\ Age(mul[k]).rd = r
    BY <1>1, <1>2, SlotResult, AgeKeeps
  <2> QED BY <2>2, <2>3 DEF Owned
<1>3. ASSUME NEW g \in DOMAIN dc, dc[g].res # None, dc[g].res.rd = r
      PROVE  Owned(r)'
  <2>1. DOMAIN dc = {"dc1", "dc2", "dc3"}
    BY DEF TypeOK
  <2>2. g \in {"dc1", "dc2"}
    BY <1>3, <2>1, PortShows
  <2>3. PICK h \in DOMAIN dc' : dc'[h].res = Age(dc[g].res)
    BY <2>2, LsuMoves
  <2>4. Age(dc[g].res) # None /\ Age(dc[g].res).rd = r
    BY <1>1, <1>3, SlotResult, AgeKeeps
  <2> QED BY <2>3, <2>4 DEF Owned
<1> QED BY <1>2, <1>3

\* A tracked instruction in IDU1 stays there or enters its unit.
LEMMA TrackedMoves ==
  ASSUME TypeOK, DivBlocks, Next, Legal, Kind \in Tracked,
         NEW r, idu1.op.rd = r
  PROVE  Owned(r)'
<1>1. BackEnd /\ ~pcLoad
  BY DEF Next, Redirect, Stall, Interlock, Advance, Legal
<1>2. CASE PipeStall
  <2>1. idu1' = idu1
    BY <1>1, <1>2 DEF Next, Redirect, Stall, Interlock, Advance
  <2> QED BY <2>1 DEF Owned, Legal, Kind
<1>3. CASE ~PipeStall
  <2>1. Issue /\ Fresh # None /\ Fresh.rd = r
    BY <1>3, SlotTypes, NoneIsNoResult DEF Issue, Fresh
  <2>2. mul'[1] = Fresh \/ dc'["dc1"].res = Fresh
    BY <1>1, <2>1, IssueEnters DEF Tracked
  <2>3. 1 \in 1..MulLat /\ "dc1" \in DOMAIN dc'
    BY <1>1, PipelineAssumption DEF BackEnd, Lsu
  <2> QED BY <2>1, <2>2, <2>3 DEF Owned
<1> QED BY <1>2, <1>3

\* The bit that IDU0 sets is that of the instruction which enters IDU1.
LEMMA SetOwned ==
  ASSUME TypeOK, Next, ~pcLoad, NEW r \in RsbSet
  PROVE  Owned(r)'
<1>1. idu0.kind \in Tracked /\ r = idu0.rd /\ ~PipeStall /\ ~RsbStall
  BY DEF RsbSet
<1>2. idu1' = [op |-> idu0, legal |-> idu0 # Bubble]
  BY <1>1 DEF Next, Redirect, Stall, Interlock, Advance
<1>3. idu0 # Bubble
  BY <1>1 DEF Bubble, Tracked
<1> QED BY <1>1, <1>2, <1>3 DEF Owned, Legal, Kind

LEMMA BitsOwnedStep ==
  TypeOK /\ DivBlocks /\ BitsOwned /\ [Next]_vars => BitsOwned'
<1> SUFFICES ASSUME TypeOK, DivBlocks, BitsOwned, [Next]_vars,
                    ~taint', ~Hazard', NEW r \in rsb'
             PROVE  Owned(r)'
  BY DEF BitsOwned, Owned
<1>1. CASE UNCHANGED vars
  <2>1. ~taint /\ ~Hazard /\ r \in rsb
    BY <1>1, HazardStays DEF vars
  <2>2. Owned(r)
    BY <2>1 DEF BitsOwned, Owned
  <2> QED BY <1>1, <2>2 DEF vars, Owned, Legal, Kind
<1>2. CASE Next
  <2>1. BackEnd
    BY <1>2 DEF Next, Redirect, Stall, Interlock, Advance
  <2>2. ~taint /\ ~Hazard /\ ~Clash
    BY <2>1 DEF BackEnd, Hazard
  <2>3. ~pcLoad
    BY <2>1 DEF BackEnd, Scoreboard
  <2>4. CASE r \in RsbSet
    BY <1>2, <2>3, <2>4, SetOwned
  <2>5. CASE r \in rsb /\ ~(WbValid /\ WbRd = r)
    <3>1. Owned(r)
      BY <2>2, <2>5 DEF BitsOwned, Owned
    <3> QED BY <1>2, <2>1, <2>2, <2>3, <2>5, <3>1, OwnersMove, TrackedMoves DEF Owned
  <2> QED BY <2>1, <2>3, <2>4, <2>5 DEF BackEnd, Scoreboard
<1> QED BY <1>1, <1>2

\* As long as no hazard has happened, every bit of the scoreboard has a
\* multiply or load that will clear it: a reader in IDU0 waits for a result
\* that comes, never for one that a redirect or a stall has dropped.
THEOREM BitsAlwaysOwned == Spec => []BitsOwned
<1>1. Init => BitsOwned
  BY DEF Init, BitsOwned
<1> QED
  BY <1>1, BitsOwnedStep, PipelineTypes, DividerBlocksIssue, PTL DEF Spec

-----------------------------------------------------------------------------
(* Where results are.  A result is new until a younger writer of its       *)
(* register is issued, so that no two places hold a new result of one.     *)

Places ==
  ({"alu", "vec", "div", "divOut", "dc1", "dc2", "dc3"} \X {0})
    \cup ({"mul"} \X (1..MulLat))

Held(p) ==
  IF p[1] = "alu" THEN alu
  ELSE IF p[1] = "vec" THEN vec
  ELSE IF p[1] = "div" THEN div.res
  ELSE IF p[1] = "divOut" THEN divOut
  ELSE IF p[1] = "dc1" THEN dc.dc1.res
  ELSE IF p[1] = "dc2" THEN dc.dc2.res
  ELSE IF p[1] = "dc3" THEN dc.dc3.res
  ELSE mul[p[2]]

New(r) == r # None /\ r.new

OneNew ==
  \A p, q \in Places :
    New(Held(p)) /\ New(Held(q)) /\ Held(p).rd = Held(q).rd => p = q

\* What holds the LSU is in the stage it holds, and a store has no result.
MemHeld ==
  /\ mem = "dram" => dc.dc2.kind = "load"
  /\ mem = "store_cross" => dc.dc2.kind = "store"
  /\ mem = "load_cross" => dc.dc1.kind = "load"
  /\ dc.dc1.kind # "load" => dc.dc1.res = None
  /\ dc.dc2.kind # "load" => dc.dc2.res = None
  /\ dc.dc3.kind # "load" => dc.dc3.res = None

\* Where the instruction in IDU1 enters, and where a result comes from.
Entry ==
  IF Kind \in {"alu", "jal"} THEN <<"alu", 0>>
  ELSE IF Kind = "vset" THEN <<"vec", 0>>
  ELSE IF Kind = "div" THEN <<"div", 0>>
  ELSE IF Kind = "load" THEN <<"dc1", 0>>
  ELSE <<"mul", 1>>
From(p) ==
  IF p[1] \in {"div", "divOut"} THEN <<"div", 0>>
  ELSE IF p[1] = "dc1" THEN <<"dc1", 0>>
  ELSE IF p[1] = "dc2"
       THEN IF mem \in {"dram", "store_cross"} THEN <<"dc2", 0>> ELSE <<"dc1", 0>>
  ELSE IF p[1] = "dc3"
       THEN IF mem = "dram" THEN <<"dc3", 0>> ELSE <<"dc2", 0>>
  ELSE <<"mul", p[2] - 1>>

LEMMA PlaceCases ==
  ASSUME NEW p \in Places
  PROVE  \/ p = <<"alu", 0>> \/ p = <<"vec", 0>> \/ p = <<"div", 0>>
         \/ p = <<"divOut", 0>> \/ p = <<"dc1", 0>> \/ p = <<"dc2", 0>>
         \/ p = <<"dc3", 0>> \/ \E k \in 1..MulLat : p = <<"mul", k>>
BY DEF Places

LEMMA HeldSlot ==
  ASSUME TypeOK, NEW p \in Places
  PROVE  Held(p) \in Slot
BY PlaceCases DEF Held, TypeOK, LsuStage

\* An aged result that still is new was not overtaken.
LEMMA AgeNew ==
  ASSUME NEW r \in Slot, New(Age(r))
  PROVE  /\ New(r) /\ Age(r) = r /\ ~(IssueWrites /\ idu1.op.rd = r.rd)
<1>1. r # None
  BY DEF New, Age
<1>2. r \in Result
  BY <1>1 DEF Slot
<1>3. ~(IssueWrites /\ idu1.op.rd = r.rd)
  BY <1>1, <1>2 DEF New, Age, Result
<1> QED BY <1>1, <1>3 DEF New, Age

\* A new result was issued in the last cycle, or was new in the place before.
LEMMA NewComes ==
  ASSUME TypeOK, MemHeld, DivBlocks, BackEnd, NEW p \in Places, New(Held(p)')
  PROVE  \/ IssueWrites /\ p = Entry /\ Held(p)' = Fresh
         \/ /\ From(p) \in Places /\ New(Held(From(p))) /\ Held(p)' = Held(From(p))
            /\ ~(IssueWrites /\ idu1.op.rd = Held(From(p)).rd)
            /\ p \notin {<<"alu", 0>>, <<"vec", 0>>, <<"mul", 1>>}
<1> DEFINE Came ==
      /\ From(p) \in Places /\ New(Held(From(p))) /\ Held(p)' = Held(From(p))
      /\ ~(IssueWrites /\ idu1.op.rd = Held(From(p)).rd)
<1>1. ASSUME From(p) \in Places, Held(p)' = Age(Held(From(p)))
      PROVE  Came
  <2>1. Held(From(p)) \in Slot
    BY <1>1, HeldSlot
  <2> QED BY <1>1, <2>1, AgeNew
<1>2. ~New(None)
  BY DEF New
<1>3. CASE p = <<"alu", 0>>
  BY <1>2, <1>3 DEF Held, BackEnd, Alu, Unit, IssueWrites, Writers, Entry
<1>4. CASE p = <<"vec", 0>>
  BY <1>2, <1>4 DEF Held, BackEnd, Vector, Entry
<1>5. CASE p = <<"div", 0>>
  <2>1. Held(p)' = div'.res
    BY <1>5 DEF Held
  <2>2. From(p) = p /\ Held(From(p)) = div.res
    BY <1>5 DEF From, Held
  <2>3. CASE div = Idle /\ Issue /\ Kind = "div"
    BY <1>5, <2>1, <2>3 DEF BackEnd, Div, IssueWrites, Writers, Entry, Idle
  <2>4. CASE ~(div = Idle /\ Issue /\ Kind = "div")
    <3>1. div'.res # None => div'.res = Age(div.res)
      BY <2>4 DEF BackEnd, Div, Idle
    <3> QED BY <1>1, <1>2, <1>5, <2>1, <2>2, <3>1
  <2> QED BY <2>3, <2>4
<1>6. CASE p = <<"divOut", 0>>
  <2>1. From(p) \in Places /\ Held(From(p)) = div.res
    BY <1>6 DEF From, Held, Places
  <2>2. Held(p)' = Age(div.res)
    BY <1>2, <1>6 DEF Held, BackEnd, Div
  <2> QED BY <1>1, <1>6, <2>1, <2>2
<1>7. /\ AgeStage(dc.dc1).res = Age(dc.dc1.res)
      /\ AgeStage(dc.dc2).res = Age(dc.dc2.res)
      /\ AgeStage(dc.dc3).res = Age(dc.dc3.res)
      /\ Empty.res = None
  BY DEF TypeOK, LsuStage, AgeStage, Empty
<1>8. CASE p = <<"dc1", 0>>
  <2>1. From(p) \in Places /\ Held(From(p)) = dc.dc1.res /\ Held(p)' = dc'.dc1.res
    BY <1>8 DEF From, Held, Places
  <2>2. CASE EngineStall
    <3>1. Held(p)' = Age(dc.dc1.res)
      BY <1>7, <2>1, <2>2 DEF BackEnd, Lsu
    <3> QED BY <1>1, <1>8, <2>1, <3>1
  <2>3. CASE ~EngineStall
    <3>1. dc'.dc1 = LsuIn
      BY <2>3 DEF BackEnd, Lsu
    <3> QED BY <1>2, <1>7, <1>8, <2>1, <3>1 DEF LsuIn, IssueWrites, Writers, Entry
  <2> QED BY <2>2, <2>3
<1>9. CASE p = <<"dc2", 0>>
  <2>1. From(p) \in Places /\ Held(p)' = dc'.dc2.res
    BY <1>9 DEF From, Held, Places
  <2>2. Held(p)' = Age(Held(From(p)))
    BY <1>2, <1>7, <1>9, <2>1 DEF BackEnd, Lsu, From, Held
  <2> QED BY <1>1, <1>9, <2>1, <2>2
<1>10. CASE p = <<"dc3", 0>>
  <2>1. From(p) \in Places /\ Held(p)' = dc'.dc3.res
    BY <1>10 DEF From, Held, Places
  <2>2. Held(p)' = Age(Held(From(p)))
    BY <1>7, <1>10, <2>1 DEF BackEnd, Lsu, From, Held
  <2> QED BY <1>1, <1>10, <2>1, <2>2
<1>11. ASSUME NEW k \in 1..MulLat, p = <<"mul", k>>
       PROVE  \/ IssueWrites /\ p = Entry /\ Held(p)' = Fresh
              \/ Came /\ k # 1
  <2>1. Held(p)' = mul'[k]
    BY <1>11 DEF Held
  <2>2. CASE k = 1
    <3>1. mul'[k] = Unit({"mul"})
      BY <2>2 DEF BackEnd, Mul
    <3> QED BY <1>2, <1>11, <2>1, <2>2, <3>1 DEF Unit, IssueWrites, Writers, Entry
  <2>3. CASE k # 1
    <3>1. k - 1 \in 1..MulLat
      BY <2>3, PipelineAssumption
    <3>2. From(p) = <<"mul", k - 1>> /\ From(p) \in Places /\ Held(From(p)) = mul[k - 1]
      BY <1>11, <3>1 DEF From, Places, Held
    <3>3. Held(p)' = Age(mul[k - 1])
      BY <2>1, <2>3 DEF BackEnd, Mul
    <3> QED BY <1>1, <2>3, <3>2, <3>3
  <2> QED BY <2>2, <2>3
<1> HIDE DEF Came
<1>12. ASSUME Came, p \notin {<<"alu", 0>>, <<"vec", 0>>, <<"mul", 1>>}
       PROVE  \/ IssueWrites /\ p = Entry /\ Held(p)' = Fresh
              \/ /\ From(p) \in Places /\ New(Held(From(p))) /\ Held(p)' = Held(From(p))
                 /\ ~(IssueWrites /\ idu1.op.rd = Held(From(p)).rd)
                 /\ p \notin {<<"alu", 0>>, <<"vec", 0>>, <<"mul", 1>>}
  BY <1>12 DEF Came
<1> QED BY <1>3, <1>4, <1>5, <1>6, <1>8, <1>9, <1>10, <1>11, <1>12, PlaceCases DEF Came

\* What is issued is in its entry.
LEMMA EntryFresh ==
  ASSUME TypeOK, DivBlocks, BackEnd, IssueWrites, NEW p, p = Entry
  PROVE  Held(p)' = Fresh
<1>1. Issue /\ Kind \in Writers
  BY DEF IssueWrites
<1> QED BY <1>1, IssueEnters DEF Writers, Entry, Held

\* Two results of one cycle do not come from one place.
LEMMA FromApart ==
  ASSUME TypeOK, MemHeld, BackEnd, NEW p \in Places, NEW q \in Places,
         New(Held(p)'), New(Held(q)'), From(p) = From(q), New(Held(From(p))),
         p \notin {<<"alu", 0>>, <<"vec", 0>>, <<"mul", 1>>},
         q \notin {<<"alu", 0>>, <<"vec", 0>>, <<"mul", 1>>},
         ~IssueWrites \/ (p # Entry /\ q # Entry)
  PROVE  p = q
<1>1. ~New(None) /\ Empty.res = None
  BY DEF New, Empty
<1>2. ~(p = <<"div", 0>> /\ q = <<"divOut", 0>>) /\ ~(p = <<"divOut", 0>> /\ q = <<"div", 0>>)
  <2>1. divOut' # None => div'.res = None
    BY DEF BackEnd, Div, Idle
  <2> QED BY <1>1, <2>1 DEF Held
<1>3. ASSUME New(dc'.dc1.res), New(dc'.dc2.res), mem \notin {"dram", "store_cross"},
             ~IssueWrites \/ Entry # <<"dc1", 0>>
      PROVE  FALSE
  <2>1. ~EngineStall
    BY <1>1, <1>3 DEF BackEnd, Lsu
  <2>2. dc'.dc1 = LsuIn
    BY <2>1 DEF BackEnd, Lsu
  <2> QED BY <1>1, <1>3, <2>2 DEF LsuIn, IssueWrites, Writers, Entry
<1>4. ASSUME New(dc'.dc2.res), New(dc'.dc3.res), mem \in {"dram", "store_cross"},
             mem # "dram", New(dc.dc2.res)
      PROVE  FALSE
  BY <1>1, <1>4 DEF MemHeld
<1>5. ASSUME NEW k \in 1..MulLat, NEW j \in 1..MulLat, k - 1 = j - 1 PROVE k = j
  BY <1>5, PipelineAssumption
<1>6. CASE p[1] = "mul"
  <2>1. PICK k \in 1..MulLat : p = <<"mul", k>>
    BY <1>6, PlaceCases
  <2>2. From(p) = <<"mul", k - 1>>
    BY <2>1 DEF From
  <2>3. PICK j \in 1..MulLat : q = <<"mul", j>>
    BY <2>2, PlaceCases DEF From
  <2>4. From(q) = <<"mul", j - 1>>
    BY <2>3 DEF From
  <2> QED BY <1>5, <2>1, <2>2, <2>3, <2>4
<1>7. CASE p[1] \in {"div", "divOut"}
  <2>1. From(p) = <<"div", 0>>
    BY <1>7 DEF From
  <2>2. q[1] \in {"div", "divOut"}
    BY <2>1, PlaceCases DEF From
  <2> QED BY <1>2, <1>7, <2>2, PlaceCases
<1>8. CASE p[1] \in {"dc1", "dc2", "dc3"}
  <2>1. From(p) \in {<<"dc1", 0>>, <<"dc2", 0>>, <<"dc3", 0>>}
    BY <1>8 DEF From
  <2>2. q[1] \in {"dc1", "dc2", "dc3"}
    BY <2>1, PlaceCases DEF From
  <2>3. Held(<<"dc1", 0>>)' = dc'.dc1.res /\ Held(<<"dc2", 0>>)' = dc'.dc2.res
          /\ Held(<<"dc3", 0>>)' = dc'.dc3.res /\ Held(<<"dc2", 0>>) = dc.dc2.res
    BY DEF Held
  <2>4. ~(p = <<"dc1", 0>> /\ q = <<"dc2", 0>>) /\ ~(p = <<"dc2", 0>> /\ q = <<"dc1", 0>>)
    BY <1>3, <2>3 DEF From
  <2>5. ~(p = <<"dc2", 0>> /\ q = <<"dc3", 0>>) /\ ~(p = <<"dc3", 0>> /\ q = <<"dc2", 0>>)
    BY <1>4, <2>3 DEF From
  <2>6. ~(p = <<"dc1", 0>> /\ q = <<"dc3", 0>>) /\ ~(p = <<"dc3", 0>> /\ q = <<"dc1", 0>>)
    BY DEF From
  <2> QED BY <1>8, <2>2, <2>4, <2>5, <2>6, PlaceCases
<1> QED BY <1>6, <1>7, <1>8, PlaceCases

LEMMA OneNewStep ==
  ASSUME TypeOK, MemHeld, DivBlocks, BackEnd, OneNew
  PROVE  OneNew'
<1> SUFFICES ASSUME NEW p \in Places, NEW q \in Places, New(Held(p)'), New(Held(q)'),
                    Held(p)'.rd = Held(q)'.rd
             PROVE  p = q
  BY DEF OneNew, Places, New
<1>1. CASE IssueWrites /\ p = Entry /\ Held(p)' = Fresh
  BY <1>1, NewComes DEF Fresh
<1>2. CASE IssueWrites /\ q = Entry /\ Held(q)' = Fresh
  BY <1>2, NewComes DEF Fresh
<1>3. CASE /\ ~(IssueWrites /\ p = Entry /\ Held(p)' = Fresh)
           /\ ~(IssueWrites /\ q = Entry /\ Held(q)' = Fresh)
  <2>1. /\ From(p) \in Places /\ New(Held(From(p))) /\ Held(p)' = Held(From(p))
        /\ p \notin {<<"alu", 0>>, <<"vec", 0>>, <<"mul", 1>>}
    BY <1>3, NewComes
  <2>2. /\ From(q) \in Places /\ New(Held(From(q))) /\ Held(q)' = Held(From(q))
        /\ q \notin {<<"alu", 0>>, <<"vec", 0>>, <<"mul", 1>>}
    BY <1>3, NewComes
  <2>3. From(p) = From(q)
    BY <2>1, <2>2 DEF OneNew
  <2>4. IssueWrites => p # Entry /\ q # Entry
    BY <1>3, EntryFresh
  <2> QED BY <2>1, <2>2, <2>3, <2>4, FromApart
<1> QED BY <1>1, <1>2, <1>3

LEMMA MemHeldStep ==
  ASSUME TypeOK, MemHeld, BackEnd
  PROVE  MemHeld'
<1>1. /\ \A g \in LsuStage : AgeStage(g).kind = g.kind
      /\ \A g \in LsuStage : g.res = None => AgeStage(g).res = None
  BY DEF LsuStage, AgeStage, Age
<1>2. LsuIn.kind # "load" => LsuIn.res = None
  BY DEF LsuIn, Empty
<1>3. Empty.res = None
  BY DEF Empty
<1>4. dc.dc1 \in LsuStage /\ dc.dc2 \in LsuStage /\ dc.dc3 \in LsuStage
  BY DEF TypeOK
<1>5. /\ dc'.dc1.kind # "load" => dc'.dc1.res = None
      /\ dc'.dc2.kind # "load" => dc'.dc2.res = None
      /\ dc'.dc3.kind # "load" => dc'.dc3.res = None
  BY <1>1, <1>2, <1>3, <1>4 DEF BackEnd, Lsu, MemHeld
<1> QED BY <1>5 DEF BackEnd, Environment, MemHeld

-----------------------------------------------------------------------------
(* Forwarding lasts one cycle.  In the cycle in which the ALU, the divider *)
(* or vset brings a result, nothing stalls: the LSU has let go before, and *)
(* nothing that could hold the core again has been issued since.           *)

Calm ==
  /\ dc.dc1.kind = "none" /\ dc.dc2.kind = "none"
  /\ ~hold /\ mem = "go" /\ ~vbusy

UnitsAlone ==
  /\ alu # None => Calm /\ last \in {"alu", "jal"} /\ ~DivBusy
  /\ vec # None => Calm /\ last = "vset" /\ ~DivBusy
  /\ divOut # None => Calm /\ last = "div" /\ ~DivBusy
  /\ DivBusy => Calm
  /\ mul[1] # None => last = "mul" /\ ~pcLoad
  /\ pcLoad => /\ dc.dc1.kind = "none" /\ dc.dc2.kind = "none"
               /\ \A k \in 1..MulLat : k < 3 => mul[k] = None

\* Whatever is issued, and in particular behind a vector instruction, nothing
\* overtakes it.
LEMMA VectorStep ==
  ASSUME TypeOK, VectorBlocks, Next
  PROVE  VectorBlocks'
<1>1. BackEnd
  BY DEF Next, Redirect, Stall, Interlock, Advance
<1>2. CASE vbusy
  <2>1. PipeStall /\ last = "vec" /\ ~pcLoad
    BY <1>2 DEF VectorBlocks, PipeStall, LastKind
  <2>2. last' = last /\ ~Issue
    BY <2>1 DEF Next, Redirect, Stall, Interlock, Advance, Issue
  <2> QED BY <1>1, <2>1, <2>2 DEF BackEnd, Branch, VectorBlocks
<1>3. CASE ~vbusy
  <2>1. vbusy' => Issue /\ Kind = "vec"
    BY <1>1, <1>3 DEF BackEnd, Vector
  <2>2. Issue /\ Kind = "vec" => last' = "vec" /\ ~pcLoad'
    BY <1>1 DEF Next, Redirect, Stall, Interlock, Advance, Issue, Legal, BackEnd, Branch
  <2> QED BY <2>1, <2>2 DEF VectorBlocks
<1> QED BY <1>2, <1>3

LEMMA IssueAlone ==
  ASSUME TypeOK, MixInv, VectorBlocks, Issue
  PROVE  /\ ~EngineStall /\ ~hold /\ ~vbusy
         /\ Kind \notin {"load", "store"} => dc.dc1.kind = "none"
<1>1. ~PipeStall /\ Legal /\ ~pcLoad
  BY DEF Issue, Legal
<1>2. ~vbusy
  BY <1>1 DEF VectorBlocks, PipeStall, LastKind
<1>3. ASSUME Kind \notin {"load", "store"}, dc.dc1.kind # "none" PROVE FALSE
  <2>1. LastKind = dc.dc1.kind /\ LsuBusy
    BY <1>1, <1>3 DEF MixInv, LastKind, LsuBusy
  <2>2. dc.dc1.kind \in {"load", "store"}
    BY <1>3 DEF TypeOK, LsuStage
  <2> QED BY <1>1, <1>3, <2>1, <2>2 DEF PipeStall
<1> QED BY <1>1, <1>2, <1>3 DEF PipeStall

LEMMA CalmNext ==
  ASSUME TypeOK, BackEnd, dc.dc1.kind = "none", ~EngineStall, ~hold, ~vbusy,
         ~(Issue /\ Kind \in {"load", "store", "vec"})
  PROVE  Calm'
<1>1. mem = "go"
  BY DEF EngineStall
<1>2. AgeStage(dc.dc1).kind = "none"
  BY DEF TypeOK, LsuStage, AgeStage
<1>3. LsuIn.kind = "none"
  BY DEF LsuIn, Empty
<1>4. dc'.dc1.kind = "none" /\ dc'.dc2.kind = "none"
  BY <1>1, <1>2, <1>3 DEF BackEnd, Lsu
<1>5. ~hold' /\ mem' = "go"
  <2>1. mem' = "go"
    BY <1>4 DEF BackEnd, Environment
  <2>2. hold' \in {FALSE, hold}
    BY <1>4 DEF BackEnd, Environment
  <2>3. hold' = FALSE \/ hold' = hold
    BY <2>2
  <2>4. ~hold'
    BY <2>3
  <2> QED BY <2>1, <2>4
<1>6. ~vbusy'
  BY DEF BackEnd, Vector
<1> QED BY <1>4, <1>5, <1>6 DEF Calm

LEMMA IssueNext ==
  ASSUME Next, Issue
  PROVE  last' = Kind /\ BackEnd /\ ~pcLoad /\ ~PipeStall
BY DEF Next, Redirect, Stall, Interlock, Advance, Issue, Legal

LEMMA UnitsAloneStep ==
  ASSUME TypeOK, MixInv, VectorBlocks, DivInv, UnitsAlone, Next
  PROVE  UnitsAlone'
<1>1. BackEnd
  BY DEF Next, Redirect, Stall, Interlock, Advance
<1>2. DivBusy => ~Issue
  BY DivInvBlocks DEF DivBlocks
<1>3. ASSUME Issue, Kind \in {"alu", "jal", "div", "vset", "br"} PROVE Calm' /\ last' = Kind
  BY <1>1, <1>3, IssueAlone, CalmNext, IssueNext
<1>4. DivBusy => Calm'
  <2> SUFFICES ASSUME DivBusy PROVE Calm'
    OBVIOUS
  <2>1. Calm
    BY DEF UnitsAlone
  <2> QED BY <1>1, <1>2, <2>1, CalmNext DEF Calm, EngineStall
<1>5. DivBusy => last' = "div"
  <2> SUFFICES ASSUME DivBusy PROVE last' = "div"
    OBVIOUS
  <2>1. PipeStall /\ ~pcLoad /\ last = "div"
    BY DEF DivInv, PipeStall, LastKind
  <2> QED BY <2>1 DEF Next, Redirect, Stall, Interlock, Advance
<1>6. DivBusy' => DivBusy \/ (Issue /\ Kind = "div")
  <2> SUFFICES ASSUME div = Idle, ~(Issue /\ Kind = "div") PROVE div' = Idle
    BY DEF DivBusy
  <2> QED BY <1>1 DEF BackEnd, Div, Idle
<1>7. alu' # None => Issue /\ Kind \in {"alu", "jal"}
  BY <1>1 DEF BackEnd, Alu, Unit
<1>8. vec' # None => Issue /\ Kind = "vset"
  BY <1>1 DEF BackEnd, Vector, IssueWrites
<1>9. divOut' # None => DivBusy /\ ~DivBusy'
  BY <1>1 DEF BackEnd, Div, DivBusy, Idle
<1>10. mul'[1] # None => Issue /\ Kind = "mul"
  BY <1>1, PipelineAssumption DEF BackEnd, Mul, Unit
<1>11. pcLoad' => Issue /\ Kind \in {"br", "jal"}
  BY <1>1 DEF BackEnd, Branch
<1>12. pcLoad' => \A k \in 1..MulLat : k < 3 => mul'[k] = None
  <2> SUFFICES ASSUME pcLoad', NEW k \in 1..MulLat, k < 3 PROVE mul'[k] = None
    OBVIOUS
  <2>1. Issue /\ Kind \in {"br", "jal"} /\ ~PipeStall /\ ~pcLoad
    BY <1>11, IssueNext
  <2>2. CASE k = 1
    BY <1>10, <2>1, <2>2
  <2>3. CASE k = 2
    <3>1. 1 \in 1..(MulLat - 1) /\ mul'[k] = Age(mul[1])
      BY <1>1, <2>3, PipelineAssumption DEF BackEnd, Mul
    <3>2. mul[1] = None
      BY <2>1, <3>1 DEF UnitsAlone, PipeStall, LastKind, MulBusy, Issue
    <3> QED BY <3>1, <3>2 DEF Age
  <2> QED BY <2>2, <2>3, PipelineAssumption
<1>13. alu' # None => Calm' /\ last' \in {"alu", "jal"} /\ ~DivBusy'
  BY <1>2, <1>3, <1>6, <1>7
<1>14. vec' # None => Calm' /\ last' = "vset" /\ ~DivBusy'
  BY <1>2, <1>3, <1>6, <1>8
<1>15. divOut' # None => Calm' /\ last' = "div" /\ ~DivBusy'
  BY <1>4, <1>5, <1>9
<1>16. DivBusy' => Calm'
  BY <1>3, <1>4, <1>6
<1>17. mul'[1] # None => last' = "mul" /\ ~pcLoad'
  BY <1>10, <1>11, IssueNext
<1>18. pcLoad' => dc'.dc1.kind = "none" /\ dc'.dc2.kind = "none"
  BY <1>3, <1>11 DEF Calm
<1> QED BY <1>12, <1>13, <1>14, <1>15, <1>16, <1>17, <1>18 DEF UnitsAlone

-----------------------------------------------------------------------------
(* The scoreboard knows every multiply and load on its way.  A redirect    *)
(* makes it forget them, but those that are left arrive before the front   *)
(* end delivers the next instruction, if the multiplier is not too deep.   *)

\* MUL_LAT of exu_mul.sv is 5: the build meets this whatever its refill.
RefillCovers == MulLat <= Refill + 5

Refilling == idu0 = Bubble /\ ~idu1.legal

Unread(r) == New(r) /\ r.rd # x0 /\ r.rd \notin rsb

BitsSet ==
  /\ Legal /\ Kind \in Tracked /\ idu1.op.rd # x0 => idu1.op.rd \in rsb
  /\ ~Unread(dc.dc1.res) /\ ~Unread(dc.dc2.res)
  /\ \A k \in 1..(MulLat - 1) :
       Unread(mul[k]) => pcLoad \/ (Refilling /\ k + refill >= 4 + Refill)

PortPlaces ==
  {<<"alu", 0>>, <<"vec", 0>>, <<"divOut", 0>>, <<"dc3", 0>>, <<"mul", MulLat>>}

\* A current value on the port is a new result in one of the places that drive it.
LEMMA PortPlace ==
  ASSUME TypeOK, WbValid, WbCurrent, ~Clash
  PROVE  \E q \in PortPlaces : q \in Places /\ New(Held(q)) /\ Held(q).rd = WbRd
<1>1. MulLat \in 1..MulLat
  BY PipelineAssumption
<1>2. /\ Held(<<"alu", 0>>) = alu /\ Held(<<"vec", 0>>) = vec
      /\ Held(<<"divOut", 0>>) = divOut /\ Held(<<"dc3", 0>>) = dc.dc3.res
      /\ Held(<<"mul", MulLat>>) = mul[MulLat]
  BY DEF Held
<1>3. PortPlaces \subseteq Places
  BY <1>1 DEF PortPlaces, Places
<1>4. CASE vec # None
  BY <1>2, <1>3, <1>4 DEF WbRd, WbCurrent, New, PortPlaces
<1>5. CASE vec = None
  <2>0. alu # None \/ mul[MulLat] # None \/ divOut # None \/ dc.dc3.res # None
    BY <1>5 DEF WbValid, Drivers
  <2>1. PICK e \in Scalar : TRUE
    BY <2>0 DEF Scalar
  <2>2. e # None /\ e.new
    BY <1>5, <2>1 DEF WbCurrent, Scalar
  <2>3. e \in {alu, mul[MulLat], divOut, dc.dc3.res}
    BY <2>1 DEF Scalar
  <2>4. WbRd = e.rd
    BY <2>2, <2>3, PortShows
  <2> QED BY <1>2, <1>3, <2>2, <2>3, <2>4 DEF New, PortPlaces
<1> QED BY <1>4, <1>5

\* A place that still holds the new result of a register: the port does not
\* bring a current value of that register.
LEMMA NotOnPort ==
  ASSUME TypeOK, OneNew, ~Clash, NEW p \in Places, p \notin PortPlaces, New(Held(p)),
         WbHits(Held(p).rd)
  PROVE  ~WbCurrent
<1> SUFFICES ASSUME WbCurrent PROVE FALSE
  OBVIOUS
<1>1. PICK q \in PortPlaces : q \in Places /\ New(Held(q)) /\ Held(q).rd = WbRd
  BY PortPlace DEF WbHits
<1> QED BY <1>1 DEF OneNew, WbHits

\* A bit is cleared by a current value of its register, or by a redirect.
LEMMA BitStays ==
  ASSUME TypeOK, BackEnd, ~Hazard, ~pcLoad, NEW r \in rsb, r \notin rsb'
  PROVE  /\ WbHits(r) /\ WbCurrent
         /\ ~(idu1.legal /\ Kind \in Tracked /\ idu1.op.rd = r)
<1>1. WbValid /\ WbRd = r
  BY DEF BackEnd, Scoreboard, TypeOK
<1> QED BY <1>1 DEF Hazard, EarlyRelease, WbHits

LEMMA TrackedSet ==
  ASSUME TypeOK, BitsSet, Next, ~Hazard
  PROVE  (Legal /\ Kind \in Tracked /\ idu1.op.rd # x0 => idu1.op.rd \in rsb)'
<1>1. BackEnd
  BY DEF Next, Redirect, Stall, Interlock, Advance
<1>2. CASE Redirect
  BY <1>2 DEF Redirect, Legal
<1>3. CASE Stall
  <2> SUFFICES ASSUME Legal', Kind \in Tracked, idu1.op.rd # x0
               PROVE  idu1.op.rd \in rsb'
    BY <1>3 DEF Stall, Kind
  <2>1. Legal /\ ~pcLoad
    BY <1>3 DEF Stall, Legal
  <2>2. idu1.op.rd \in rsb
    BY <2>1 DEF BitsSet
  <2> QED BY <1>1, <2>1, <2>2, BitStays DEF Legal
<1>4. CASE Interlock
  BY <1>4 DEF Interlock, Legal
<1>5. CASE Advance
  <2>1. idu1' = [op |-> idu0, legal |-> idu0 # Bubble] /\ ~pcLoad /\ ~PipeStall /\ ~RsbStall
    BY <1>5 DEF Advance
  <2>2. idu0.kind \in Tracked /\ idu0.rd # x0 => idu0.rd \in rsb'
    BY <1>1, <2>1 DEF BackEnd, Scoreboard, RsbSet
  <2> QED BY <2>1, <2>2 DEF Kind
<1> QED BY <1>2, <1>3, <1>4, <1>5 DEF Next

\* What is issued, or moves on with its bit set, keeps the bit.
LEMMA BitMoves ==
  ASSUME TypeOK, MemHeld, DivBlocks, OneNew, BitsSet, BackEnd, ~Hazard, ~pcLoad,
         NEW p \in Places, p \notin PortPlaces, Unread(Held(p))',
         p[1] \in {"dc1", "dc2", "mul"}
  PROVE  /\ From(p) \in Places /\ Unread(Held(From(p)))
         /\ Held(p)' = Held(From(p)) /\ p # <<"mul", 1>>
<1>1. New(Held(p)') /\ Held(p)'.rd # x0 /\ Held(p)'.rd \notin rsb'
  BY DEF Unread, New
<1>2. ~Clash
  BY DEF Hazard
<1>3. CASE IssueWrites /\ p = Entry /\ Held(p)' = Fresh
  <2>1. Legal /\ Kind \in Tracked /\ Held(p)'.rd = idu1.op.rd
    BY <1>3 DEF IssueWrites, Issue, Entry, Fresh, Writers, Tracked
  <2>2. idu1.op.rd \in rsb
    BY <1>1, <2>1 DEF BitsSet
  <2> QED BY <1>1, <2>1, <2>2, BitStays DEF Legal
<1>4. CASE /\ From(p) \in Places /\ New(Held(From(p))) /\ Held(p)' = Held(From(p))
           /\ p \notin {<<"alu", 0>>, <<"vec", 0>>, <<"mul", 1>>}
  <2>1. From(p) \notin PortPlaces
    <3>1. CASE p[1] = "mul"
      <4>1. PICK k \in 1..MulLat : p = <<"mul", k>>
        BY <3>1, PlaceCases
      <4>2. From(p) = <<"mul", k - 1>> /\ k - 1 # MulLat
        BY <4>1, PipelineAssumption DEF From
      <4> QED BY <4>2 DEF PortPlaces
    <3>2. CASE p[1] \in {"dc1", "dc2"}
      BY <3>2 DEF From, PortPlaces
    <3> QED BY <3>1, <3>2
  <2>2. ASSUME Held(From(p)).rd \in rsb PROVE FALSE
    <3>1. WbHits(Held(From(p)).rd) /\ WbCurrent
      BY <1>1, <1>4, <2>2, BitStays
    <3> QED BY <1>2, <1>4, <2>1, <3>1, NotOnPort
  <2> QED BY <1>1, <1>4, <2>2 DEF Unread
<1> QED BY <1>1, <1>3, <1>4, NewComes

LEMMA BitsSetStep ==
  ASSUME RefillCovers, TypeOK, MemHeld, DivBlocks, UnitsAlone, OneNew, BitsSet, Next, ~Hazard
  PROVE  BitsSet'
<1>1. BackEnd
  BY DEF Next, Redirect, Stall, Interlock, Advance
<1>2. /\ <<"dc1", 0>> \in Places \ PortPlaces /\ <<"dc2", 0>> \in Places \ PortPlaces
      /\ \A k \in 1..(MulLat - 1) : <<"mul", k>> \in Places \ PortPlaces
  BY PipelineAssumption DEF Places, PortPlaces
<1>3. /\ Held(<<"dc1", 0>>) = dc.dc1.res /\ Held(<<"dc2", 0>>) = dc.dc2.res
      /\ Held(<<"dc1", 0>>)' = dc'.dc1.res /\ Held(<<"dc2", 0>>)' = dc'.dc2.res
  BY DEF Held
<1>4. ~Unread(dc.dc1.res)' /\ ~Unread(dc.dc2.res)'
  <2>1. CASE ~pcLoad
    <3>1. /\ From(<<"dc1", 0>>) = <<"dc1", 0>>
          /\ From(<<"dc2", 0>>) \in {<<"dc1", 0>>, <<"dc2", 0>>}
      BY DEF From
    <3>2. /\ Unread(Held(<<"dc1", 0>>))' => Unread(Held(<<"dc1", 0>>))
          /\ Unread(Held(<<"dc2", 0>>))' => Unread(Held(From(<<"dc2", 0>>)))
      <4>1. ASSUME NEW p \in {<<"dc1", 0>>, <<"dc2", 0>>}, Unread(Held(p))'
            PROVE  Unread(Held(From(p)))
        <5>1. p \in Places /\ p \notin PortPlaces /\ p[1] \in {"dc1", "dc2", "mul"}
          BY <1>2, <4>1
        <5> QED BY <1>1, <2>1, <4>1, <5>1, BitMoves
      <4> QED BY <3>1, <4>1
    <3>3. ~Unread(Held(<<"dc1", 0>>)) /\ ~Unread(Held(<<"dc2", 0>>))
      BY <1>3 DEF BitsSet
    <3> QED BY <1>3, <3>1, <3>2, <3>3 DEF Unread, New
  <2>2. CASE pcLoad
    <3>1. dc.dc1.kind = "none" /\ dc.dc2.kind = "none" /\ ~Issue
      BY <2>2 DEF UnitsAlone, Issue, Legal
    <3>2. dc.dc1.res = None /\ dc.dc2.res = None
      BY <3>1 DEF MemHeld
    <3>3. dc'.dc1.res = None /\ dc'.dc2.res = None
      BY <1>1, <3>1, <3>2 DEF BackEnd, Lsu, LsuIn, Empty, AgeStage, Age, TypeOK, LsuStage
    <3> QED BY <3>3 DEF Unread, New
  <2> QED BY <2>1, <2>2
<1>5. ASSUME NEW k \in 1..(MulLat - 1), Unread(mul[k])'
      PROVE  (pcLoad \/ (Refilling /\ k + refill >= 4 + Refill))'
  <2>1. Held(<<"mul", k>>)' = mul'[k]
    BY DEF Held
  <2>2. CASE pcLoad
    <3>1. Redirect
      BY <2>2 DEF Next, Redirect, Stall, Interlock, Advance
    <3>2. mul'[k] # None
      BY <1>5 DEF Unread, New
    <3>3. k # 1 /\ k - 1 \in 1..MulLat /\ mul'[k] = Age(mul[k - 1])
      BY <1>1, <2>2, <3>2, PipelineAssumption DEF BackEnd, Mul, Unit, Issue, Legal
    <3>4. mul[k - 1] # None
      BY <3>2, <3>3 DEF Age
    <3>5. k - 1 >= 3
      BY <2>2, <3>3, <3>4, PipelineAssumption DEF UnitsAlone
    <3> QED BY <3>1, <3>5, PipelineAssumption DEF Redirect, Refilling
  <2>3. CASE ~pcLoad
    <3>1. /\ From(<<"mul", k>>) \in Places /\ Unread(Held(From(<<"mul", k>>))) /\ k # 1
      BY <1>1, <1>2, <1>5, <2>1, <2>3, BitMoves DEF Unread, New
    <3>2. From(<<"mul", k>>) = <<"mul", k - 1>> /\ Held(<<"mul", k - 1>>) = mul[k - 1]
      BY DEF From, Held
    <3>3. k - 1 \in 1..(MulLat - 1)
      BY <3>1, PipelineAssumption
    <3>4. Refilling /\ k - 1 + refill >= 4 + Refill
      BY <2>3, <3>1, <3>2, <3>3 DEF BitsSet
    <3>5. ~RsbStall
      BY <3>4 DEF Refilling, RsbStall, Bubble
    <3>6. refill \in Nat /\ MulLat <= Refill + 5 /\ k < MulLat /\ k \in Nat
      BY PipelineAssumption DEF TypeOK, RefillCovers
    <3>7. CASE Stall
      <4>1. idu0' = idu0 /\ idu1' = idu1
        BY <3>7 DEF Stall
      <4>2. Refilling'
        BY <3>4, <4>1 DEF Refilling, Bubble
      <4>3. refill' = refill \/ (refill > 0 /\ refill' = refill - 1)
        BY <3>6, <3>7 DEF Stall
      <4>4. k + refill' >= 4 + Refill
        BY <3>4, <3>6, <4>3, PipelineAssumption
      <4> QED BY <4>2, <4>4
    <3>8. CASE Advance
      <4>1. refill > 0
        BY <3>4, <3>6, PipelineAssumption
      <4>2. idu0' = Bubble /\ refill' = refill - 1
        BY <3>8, <4>1 DEF Advance, Fetch
      <4>3. ~idu1.legal'
        BY <3>4, <3>8 DEF Advance, Refilling
      <4> QED BY <3>4, <3>6, <4>2, <4>3, PipelineAssumption DEF Refilling
    <3> QED BY <2>3, <3>5, <3>7, <3>8 DEF Next, Redirect, Interlock
  <2> QED BY <2>2, <2>3
<1>6. (Legal /\ Kind \in Tracked /\ idu1.op.rd # x0 => idu1.op.rd \in rsb)'
  BY TrackedSet
<1> QED BY <1>4, <1>5, <1>6 DEF BitsSet

-----------------------------------------------------------------------------
(* What IDU1 lacks arrives while it waits: a captured operand that is not  *)
(* current is the result of a unit that brings it in the next cycle, or of *)
(* the divider, whose end is the end of the stall.                         *)

Brings(e, s) == New(e) /\ e.rd = s

Arrives(s) ==
  \/ Brings(alu, s) \/ Brings(vec, s) \/ Brings(divOut, s)
  \/ DivBusy /\ Brings(div.res, s)

Explained ==
  /\ stale \subseteq idu1.op.srcs
  /\ Legal => \A s \in idu1.op.srcs :
                IF s \in stale THEN Arrives(s) ELSE s \notin rfOld

\* In the cycle in which one of these units brings its result nothing stalls.
LEMMA BringsFree ==
  ASSUME UnitsAlone, ~pcLoad, alu # None \/ vec # None \/ divOut # None
  PROVE  ~PipeStall
<1>1. Calm /\ ~DivBusy /\ last \in {"alu", "jal", "vset", "div"}
  BY DEF UnitsAlone
<1>2. ~EngineStall
  BY <1>1 DEF Calm, EngineStall
<1> QED BY <1>1, <1>2 DEF Calm, PipeStall, LastKind

\* Such a unit alone on the port shows a current value of its register.
LEMMA BringsShown ==
  ASSUME TypeOK, ~Clash, NEW s, Brings(alu, s) \/ Brings(vec, s) \/ Brings(divOut, s)
  PROVE  WbHits(s) /\ (s # x0 => WbCurrent)
<1>1. PICK e \in {alu, vec, divOut} : Brings(e, s)
  OBVIOUS
<1> QED BY <1>1, PortShows DEF Brings, New, WbHits

\* The divider keeps its result, as long as nothing is issued.
LEMMA DividerBrings ==
  ASSUME TypeOK, BackEnd, ~Issue, NEW s, DivBusy, Brings(div.res, s)
  PROVE  Arrives(s)'
<1>1. Age(div.res) = div.res
  BY DEF Age, IssueWrites
<1>2. div.left = 1 => divOut' = div.res
  BY <1>1 DEF BackEnd, Div
<1>3. div.left # 1 => div'.res = div.res /\ div' # Idle
  <2>1. div.left # 1 => div'.res = div.res
    BY <1>1 DEF BackEnd, Div, DivBusy
  <2> QED BY <2>1 DEF Brings, New, Idle
<1>4. Brings(div.res, s) => (div.res # None /\ div.res.new /\ div.res.rd = s)
  BY DEF Brings, New
<1> QED BY <1>2, <1>3, <1>4 DEF Arrives, Brings, New, DivBusy

LEMMA ExplainedStall ==
  ASSUME TypeOK, UnitsAlone, Explained, ~Hazard, Stall
  PROVE  Explained'
<1>1. BackEnd /\ ~pcLoad /\ PipeStall /\ ~Issue
  BY DEF Stall, Issue
<1>2. idu1' = idu1 /\ stale' = stale
  BY DEF Stall
<1>3. ASSUME Legal', NEW s \in idu1.op.srcs
      PROVE  IF s \in stale THEN Arrives(s)' ELSE s \notin rfOld'
  <2>1. Legal
    BY <1>1, <1>2, <1>3 DEF Legal
  <2>2. CASE s \in stale
    <3>1. Arrives(s)
      BY <2>1, <2>2 DEF Explained
    <3>2. ~Brings(alu, s) /\ ~Brings(vec, s) /\ ~Brings(divOut, s)
      BY <1>1, BringsFree DEF Brings, New
    <3> QED BY <1>1, <2>2, <3>1, <3>2, DividerBrings DEF Arrives
  <2>3. CASE s \notin stale
    <3>1. s \notin rfOld
      BY <2>1, <2>3 DEF Explained
    <3> QED BY <1>1, <2>3, <3>1, RegFileStep DEF Hazard, IssueWrites
  <2> QED BY <2>2, <2>3
<1>4. stale' \subseteq idu1'.op.srcs
  BY <1>2 DEF Explained
<1> QED BY <1>2, <1>3, <1>4 DEF Explained

\* A register that waits for a result in a unit the scoreboard tracks has its
\* bit set: its reader does not leave IDU0.
LEMMA ReaderWaits ==
  ASSUME TypeOK, DivInv, NothingLost, BitsSet, ~taint, ~Hazard, Advance,
         NEW s \in idu0.srcs, s \in rfOld, ~(WbHits(s) /\ WbCurrent)
  PROVE  FALSE
<1>1. ~pcLoad /\ ~PipeStall /\ ~RsbStall /\ ~Clash
  BY DEF Advance, Hazard
<1>2. PICK e \in InFlight : e.rd = s /\ e.new
  BY DEF NothingLost
<1>3. s # x0 /\ New(e)
  BY <1>2 DEF TypeOK, InFlight, New
<1>4. e \notin {alu, vec, mul[MulLat], divOut, dc.dc3.res}
  BY <1>1, <1>2, <1>3, PortShows DEF New, WbHits
<1>5. e # div.res
  <2> SUFFICES ASSUME e = div.res PROVE FALSE
    OBVIOUS
  <2>1. DivBusy
    BY <1>3 DEF DivBusy, Idle, New
  <2> QED BY <1>1, <2>1 DEF DivInv, PipeStall, LastKind
<1>6. s \notin rsb
  <2> SUFFICES ASSUME s \in rsb PROVE FALSE
    OBVIOUS
  <2>1. WbHits(s) /\ ~WbCurrent
    BY <1>1 DEF RsbStall
  <2> QED BY <2>1 DEF WbHits, Hazard, EarlyRelease
<1>7. Unread(e)
  BY <1>2, <1>3, <1>6 DEF Unread
<1>8. ~Refilling
  BY DEF Refilling, Bubble
<1>9. e \notin {mul[k] : k \in 1..MulLat}
  <2> SUFFICES ASSUME NEW k \in 1..MulLat, e = mul[k] PROVE FALSE
    OBVIOUS
  <2>1. k \in 1..(MulLat - 1)
    BY <1>4, PipelineAssumption
  <2> QED BY <1>1, <1>7, <1>8, <2>1 DEF BitsSet
<1>10. e \notin {dc[g].res : g \in DOMAIN dc}
  <2>1. DOMAIN dc = {"dc1", "dc2", "dc3"}
    BY DEF TypeOK
  <2> QED BY <1>4, <1>7, <2>1 DEF BitsSet
<1> QED BY <1>4, <1>5, <1>9, <1>10 DEF InFlight

\* The instruction that is issued brings its result to the one behind it in
\* the next cycle, unless the scoreboard holds that one back.
LEMMA NeighbourBrings ==
  ASSUME TypeOK, DivInv, BitsSet, ~Hazard, Advance,
         NEW s \in idu0.srcs, IssueWrites, idu1.op.rd = s, s # x0
  PROVE  Arrives(s)'
<1>1. BackEnd /\ ~RsbStall /\ Issue /\ Legal /\ idu1.legal /\ Kind \in Writers
  BY DEF Advance, IssueWrites, Issue, Legal
<1>2. DivBlocks
  BY DivInvBlocks
<1>3. Kind \notin Tracked
  <2> SUFFICES ASSUME Kind \in Tracked PROVE FALSE
    OBVIOUS
  <2>1. s \in rsb
    BY <1>1 DEF BitsSet
  <2>2. WbHits(s)
    BY <1>1, <2>1 DEF RsbStall
  <2> QED BY <1>1, <2>1, <2>2 DEF WbHits, Hazard, EarlyRelease
<1>4. Brings(Fresh, s) /\ Fresh # None
  BY SlotTypes, NoneIsNoResult DEF Brings, New, Fresh
<1>5. alu' = Fresh \/ vec' = Fresh \/ div'.res = Fresh
  BY <1>1, <1>2, <1>3, IssueEnters DEF Writers, Tracked
<1>6. div'.res = Fresh => div' # Idle
  BY <1>4 DEF Idle
<1> QED BY <1>4, <1>5, <1>6 DEF Arrives, Brings, New, DivBusy

LEMMA ExplainedAdvance ==
  ASSUME TypeOK, DivInv, NothingLost, BitsSet, ~taint, ~Hazard, Advance
  PROVE  Explained'
<1>1. BackEnd /\ idu1' = [op |-> idu0, legal |-> idu0 # Bubble] /\ stale' = Captured
  BY DEF Advance
<1>2. ASSUME NEW s \in Captured PROVE Arrives(s)'
  <2>1. s \in idu0.srcs
    BY <1>2 DEF Captured
  <2>2. CASE IssueWrites /\ idu1.op.rd = s /\ s # x0
    BY <2>1, <2>2, NeighbourBrings
  <2>3. CASE IF WbHits(s) THEN ~WbCurrent ELSE s \in rfOld
    <3>1. s \in rfOld
      <4> SUFFICES ASSUME WbHits(s), ~WbCurrent PROVE s \in rfOld
        BY <2>3
      <4> QED BY <2>1 DEF WbHits, Hazard, Overwrite, ZeroForward
    <3> QED BY <2>1, <2>3, <3>1, ReaderWaits
  <2> QED BY <1>2, <2>2, <2>3 DEF Captured
<1>3. ASSUME NEW s \in idu0.srcs, s \notin Captured PROVE s \notin rfOld'
  <2> SUFFICES ASSUME s \in rfOld' PROVE FALSE
    OBVIOUS
  <2>1. s # x0
    BY <1>1 DEF BackEnd, RegFile
  <2> QED BY <1>1, <1>3, <2>1, RegFileStep DEF Hazard, Captured, WbHits
<1>4. Captured \subseteq idu0.srcs
  BY DEF Captured
<1> QED BY <1>1, <1>2, <1>3, <1>4 DEF Explained

LEMMA ExplainedStep ==
  ASSUME TypeOK, DivInv, UnitsAlone, NothingLost, BitsSet, Explained, ~taint, ~Hazard, Next
  PROVE  Explained'
<1>1. CASE Redirect
  BY <1>1 DEF Redirect, Explained, Legal
<1>2. CASE Interlock
  BY <1>2 DEF Interlock, Explained, Legal, Captured
<1> QED BY <1>1, <1>2, ExplainedStall, ExplainedAdvance DEF Next

CoverInv ==
  /\ DivInv /\ MixInv /\ VectorBlocks /\ MemHeld /\ OneNew /\ UnitsAlone
  /\ NothingLost
  /\ ~taint => BitsSet /\ Explained

LEMMA CoverInit == Init => CoverInv
<1> SUFFICES ASSUME Init PROVE CoverInv
  OBVIOUS
<1>1. \A p \in Places : Held(p) = None
  <2> TAKE p \in Places
  <2>1. /\ alu = None /\ vec = None /\ divOut = None /\ div.res = None
        /\ dc.dc1.res = None /\ dc.dc2.res = None /\ dc.dc3.res = None
        /\ \A k \in 1..MulLat : mul[k] = None
    BY DEF Init, Idle, Empty
  <2> QED BY <2>1, PlaceCases DEF Held
<1>2. OneNew
  BY <1>1 DEF OneNew, New
<1>3. DivInv /\ ~DivBusy
  BY DEF Init, DivInv, DivBusy
<1>4. MixInv /\ VectorBlocks /\ MemHeld
  BY DEF Init, MixInv, NoMixing, VectorBlocks, MemHeld, Empty
<1>5. UnitsAlone
  BY <1>3, PipelineAssumption DEF Init, UnitsAlone
<1>6. NothingLost
  BY DEF Init, NothingLost
<1>7. BitsSet
  BY PipelineAssumption DEF Init, BitsSet, Empty, Unread, New, Legal
<1>8. Explained
  BY DEF Init, Explained, Legal
<1> QED BY <1>2, <1>3, <1>4, <1>5, <1>6, <1>7, <1>8 DEF CoverInv

LEMMA CoverStep ==
  RefillCovers /\ TypeOK /\ CoverInv /\ [Next]_vars => CoverInv'
<1> SUFFICES ASSUME RefillCovers, TypeOK, CoverInv, [Next]_vars PROVE CoverInv'
  OBVIOUS
<1>1. DivBlocks
  BY DivInvBlocks DEF CoverInv
<1>2. DivInv' /\ MixInv' /\ NothingLost'
  BY <1>1, DivInvStep, MixStep, NothingLostStep DEF CoverInv
<1>3. CASE Next
  <2>1. BackEnd
    BY <1>3 DEF Next, Redirect, Stall, Interlock, Advance
  <2>2. VectorBlocks' /\ MemHeld' /\ OneNew' /\ UnitsAlone'
    BY <1>1, <1>3, <2>1, VectorStep, MemHeldStep, OneNewStep, UnitsAloneStep DEF CoverInv
  <2>3. ASSUME ~taint' PROVE BitsSet' /\ Explained'
    <3>1. ~taint /\ ~Hazard
      BY <2>1, <2>3 DEF BackEnd
    <3> QED BY <1>1, <1>3, <3>1, BitsSetStep, ExplainedStep DEF CoverInv
  <2> QED BY <1>2, <2>2, <2>3 DEF CoverInv
<1>4. CASE UNCHANGED vars
  <2>1. VectorBlocks' /\ MemHeld'
    BY <1>4 DEF vars, CoverInv, VectorBlocks, MemHeld
  <2>2. OneNew'
    <3>1. \A p : Held(p)' = Held(p)
      BY <1>4 DEF vars, Held
    <3> QED BY <1>4, <3>1 DEF CoverInv, OneNew, New, Places
  <2>3. UnitsAlone'
    BY <1>4 DEF vars, CoverInv, UnitsAlone, Calm, DivBusy
  <2>4. ~taint' => BitsSet'
    BY <1>4 DEF vars, CoverInv, BitsSet, Unread, New, Legal, Kind, Refilling
  <2>5. ~taint' => Explained'
    BY <1>4 DEF vars, CoverInv, Explained, Arrives, Brings, New, Legal, DivBusy
  <2> QED BY <1>2, <2>1, <2>2, <2>3, <2>4, <2>5 DEF CoverInv
<1> QED BY <1>3, <1>4

LEMMA CoverOperands == TypeOK /\ CoverInv => OperandsCovered
<1> SUFFICES ASSUME TypeOK, CoverInv, Issue, ~taint, ~Hazard, NEW s \in WrongOperands
             PROVE  FALSE
  BY DEF OperandsCovered
<1>1. s \in idu1.op.srcs /\ Legal /\ Explained /\ ~Clash /\ ~DivBusy
  BY DivInvBlocks DEF WrongOperands, Issue, CoverInv, Hazard, DivBlocks
<1>2. s \in stale
  <2> SUFFICES ASSUME s \notin stale PROVE FALSE
    OBVIOUS
  <2>1. WbHits(s) /\ ~WbCurrent
    BY DEF WrongOperands
  <2>2. s \notin rfOld
    BY <1>1 DEF Explained
  <2> QED BY <1>1, <2>1, <2>2 DEF WbHits, Hazard, Overwrite, ZeroForward
<1>3. Brings(alu, s) \/ Brings(vec, s) \/ Brings(divOut, s)
  BY <1>1, <1>2 DEF Explained, Arrives
<1>4. WbHits(s) /\ (s # x0 => WbCurrent)
  BY <1>1, <1>3, BringsShown
<1>5. s # x0
  BY <1>1, <1>4 DEF Hazard, ZeroForward
<1> QED BY <1>4, <1>5 DEF WrongOperands

LEMMA CoverForward == TypeOK /\ CoverInv => ForwardKept
<1> SUFFICES ASSUME TypeOK, CoverInv, ~taint, ~Hazard, PipeStall, Legal,
                    NEW s \in stale, WbHits(s), WbCurrent
             PROVE  FALSE
  BY DEF ForwardKept
<1>1. Explained /\ UnitsAlone /\ OneNew /\ ~pcLoad /\ ~Clash
  BY DEF CoverInv, Legal, Hazard
<1>2. ~Brings(alu, s) /\ ~Brings(vec, s) /\ ~Brings(divOut, s)
  BY <1>1, BringsFree DEF Brings, New
<1>3. Brings(div.res, s)
  BY <1>1, <1>2 DEF Explained, Arrives
<1>4. <<"div", 0>> \in Places /\ <<"div", 0>> \notin PortPlaces
        /\ Held(<<"div", 0>>) = div.res
  BY DEF Places, PortPlaces, Held
<1> QED BY <1>1, <1>3, <1>4, NotOnPort DEF Brings

\* As long as none of the four hazards of Pipeline has happened, no program
\* issues an instruction with an operand that is not current: what the
\* register file lacks, the scoreboard waits for or a forwarding path brings.
\* The multiplier may not be deeper than what the refill after a redirect
\* covers, because the redirect clears its bits of the scoreboard.
THEOREM OperandsAlwaysCovered ==
  ASSUME RefillCovers
  PROVE  Spec => []OperandsCovered
<1>1. TypeOK /\ CoverInv /\ [Next]_vars => CoverInv'
  BY CoverStep
<1> QED BY <1>1, CoverInit, CoverOperands, PipelineTypes, PTL DEF Spec

\* The one cycle in which IDU1 can pick up a missing operand is never a cycle
\* in which it is stalled, for every program that has met no hazard.
THEOREM ForwardsKept ==
  ASSUME RefillCovers
  PROVE  Spec => []ForwardKept
<1>1. TypeOK /\ CoverInv /\ [Next]_vars => CoverInv'
  BY CoverStep
<1> QED BY <1>1, CoverInit, CoverForward, PipelineTypes, PTL DEF Spec
=============================================================================
