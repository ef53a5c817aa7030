------------------------------ MODULE LsuEngine ------------------------------
(***************************************************************************)
(* The load/store engine (rtl/scalar/lsu/lsu_engine.sv), the store CAM it  *)
(* forwards from (lsu_store_queue.sv, wired by lsu_top.sv) and the memory  *)
(* behind its two ports: one DCCM line per cycle through lsu_dccm_bridge,  *)
(* or the DRAM stub, a word per port (rtl/soc_top.sv, axi4_dram.sv).       *)
(*                                                                         *)
(* One step is one clock cycle.  As in Pipeline, data are abstracted to    *)
(* whether they are CURRENT: a copy of a byte is current when it was       *)
(* written by the youngest store accepted so far.  `old` is the set of the *)
(* bytes of the memory that are not, and every buffer is the set of the    *)
(* bytes it holds current.  A load that finishes must have collected only  *)
(* current bytes; data nobody requested are never current.                 *)
(*                                                                         *)
(* The queues of lsu_top are never pushed (lsu_top.sv, 328 to 335), so     *)
(* requests stream into DC1.  A lookup of the CAM uses a word address,     *)
(* whose index is 0: slot 0 is the only one ever read, and the only one    *)
(* kept here.                                                              *)
(***************************************************************************)
EXTENDS Naturals, FiniteSets

CONSTANTS
  Width,        \* bytes of a word (4)
  Words,        \* words of the address space, which wraps around
  LineWords,    \* words of a memory line (4)
  Sizes,        \* the sizes of an access in bytes (1, 2, 4)
  Dram,         \* the words that are in DRAM, the others in the DCCM
  Serial,       \* TRUE: loads and stores never share DC1 and DC2, as the core
                \* guarantees (NoMixing of Pipeline)
  OtherClients  \* TRUE: the vector unit or the accelerator writes memory too

ASSUME LsuAssumption ==
  /\ Width \in Nat \ {0} /\ Words \in Nat /\ Words > 1
  /\ LineWords \in Nat \ {0} /\ Words % LineWords = 0
  /\ Sizes \subseteq 1..Width
  /\ Dram \subseteq 0..(Words - 1)
  /\ Serial \in BOOLEAN /\ OtherClients \in BOOLEAN

VARIABLES
  dc1, dc2,    \* the operations in the first two stages
  dc3,         \* the load that is written back: "none", "good" or "bad"
  fwd,         \* what dc2 was forwarded for its first and second word
  cross,       \* dc2_line_cross
  loadBeat,    \* load_cross_beat
  storeBeat,   \* store_cross_beat
  line0,       \* line_cross_word0
  port,        \* the answers on the two memory ports
  cam,         \* slot 0 of the store CAM
  old          \* bytes of the memory that are not current

vars == <<dc1, dc2, dc3, fwd, cross, loadBeat, storeBeat, line0, port, cam, old>>

-----------------------------------------------------------------------------
(* Operations.  An access covers the bytes `lo` of its word and, when it   *)
(* is unaligned, the bytes `hi` of the word after it.                      *)

Word == 0..(Words - 1)
Lane == 0..(Width - 1)
Byte == Word \X Lane
AfterUnwrapped(w) == w + 1
After(w) == (w + 1) % Words
SameLine(v, w) == v \div LineWords = w \div LineWords

Shapes ==
  {[lo |-> {i \in Lane : o <= i /\ i < o + s},
    hi |-> {i \in Lane : i + Width < o + s}] : o \in Lane, s \in Sizes}

Op == [kind : {"load", "store", "none"}, word : Word, lo : SUBSET Lane,
       hi : SUBSET Lane, cur : SUBSET Byte]

Empty == [kind |-> "none", word |-> 0, lo |-> {}, hi |-> {}, cur |-> {}]

First(op)  == {op.word} \X op.lo
Second(op) == {After(op.word)} \X op.hi
Bytes(op)  == First(op) \cup Second(op)
Unaligned(op) == op.hi # {}
LineCross(op) == Unaligned(op) /\ op.word % LineWords = LineWords - 1

\* The accesses the core sends: none leaves its memory at the end.
Requests ==
  {r \in
     {[kind |-> k, word |-> w, lo |-> s.lo, hi |-> s.hi,
       cur |-> IF k = "store" THEN ({w} \X s.lo) \cup ({After(w)} \X s.hi)
               ELSE {}] : k \in {"load", "store"}, w \in Word, s \in Shapes} :
   Unaligned(r) => (r.word \in Dram <=> After(r.word) \in Dram)}

NoFwd == [hit |-> FALSE, strb |-> {}, cur |-> {}]
Forward == [hit : BOOLEAN, strb : SUBSET Byte, cur : SUBSET Byte]
Quiet == [valid |-> FALSE, cur |-> {}]

-----------------------------------------------------------------------------
(* Stalls.  The memory has one port of one line per cycle.                 *)

StoreCrossHold == dc2.kind = "store" /\ cross /\ ~storeBeat
LoadCrossHold ==
  dc1.kind = "load" /\ LineCross(dc1) /\ ~loadBeat /\ ~StoreCrossHold

\* A load from DRAM waits in DC2 for an answer, of either port if it uses both.
DramWait ==
  /\ dc2.kind = "load" /\ dc2.word \in Dram
  /\ ~(port[0].valid \/ (Unaligned(dc2) /\ port[1].valid))

EngineStall ==
  \/ dc1.kind = "load" /\ dc2.kind = "store"
  \/ StoreCrossHold
  \/ LoadCrossHold
  \/ DramWait

-----------------------------------------------------------------------------
(* Store-to-load forwarding: from the store in DC2, else from the CAM.     *)

Forwarded(w) ==
  IF dc2.kind = "store" /\ w = dc2.word
  THEN [hit |-> TRUE, strb |-> First(dc2), cur |-> dc2.cur \cap First(dc2)]
  ELSE IF dc2.kind = "store" /\ Unaligned(dc2) /\ w = After(dc2.word)
  THEN [hit |-> TRUE, strb |-> Second(dc2), cur |-> dc2.cur \cap Second(dc2)]
  ELSE IF cam.valid /\ cam.tag = w
  THEN [hit |-> TRUE, strb |-> cam.strb, cur |-> cam.cur]
  ELSE NoFwd

Fwd0 == IF dc1.kind = "load" THEN Forwarded(dc1.word) ELSE NoFwd
Fwd1 == IF dc1.kind = "load" /\ Unaligned(dc1)
        THEN Forwarded(After(dc1.word)) ELSE NoFwd

\* A word whose bytes are all forwarded is not read.
SkipAnyOverlap0 == Fwd0.hit /\ First(dc1) \cap Fwd0.strb # {}
Skip0 == Fwd0.hit /\ First(dc1) \subseteq Fwd0.strb
Skip1 == Fwd1.hit /\ Second(dc1) \subseteq Fwd1.strb

Read0 ==
  /\ dc1.kind = "load" /\ ~Skip0 /\ dc2.kind # "store"
  /\ LineCross(dc1) => ~loadBeat
Read1 ==
  /\ dc1.kind = "load" /\ Unaligned(dc1) /\ ~Skip1 /\ dc2.kind # "store"
  /\ LineCross(dc1) => loadBeat

\* The bytes the store in DC2 writes in this cycle.
WrittenFirst == IF dc2.kind = "store" THEN First(dc2) ELSE {}
Written ==
  IF dc2.kind # "store" THEN {}
  ELSE IF ~cross
       THEN First(dc2) \cup (IF SameLine(dc2.word, After(dc2.word))
                             THEN Second(dc2) ELSE {})
       ELSE IF ~storeBeat THEN First(dc2) ELSE Second(dc2)

-----------------------------------------------------------------------------
(* The registers at the next clock edge; `new` are the bytes of the store  *)
(* that is accepted, whose older copies stop being current.                *)

Aged(op, new) == [op EXCEPT !.cur = @ \ new]

Dc2(new) ==
  /\ dc2' = IF StoreCrossHold \/ DramWait THEN Aged(dc2, new)
            ELSE IF EngineStall THEN Empty ELSE Aged(dc1, new)
  /\ fwd' = IF StoreCrossHold \/ DramWait THEN fwd
            ELSE IF EngineStall THEN <<NoFwd, NoFwd>> ELSE <<Fwd0, Fwd1>>
  /\ cross' = IF StoreCrossHold THEN cross
              ELSE LineCross(dc1) /\ ~EngineStall

\* lsu_merge_bytes: forwarded bytes replace those of memory.
Merged(f, mem) == IF f.hit THEN (mem \ f.strb) \cup f.cur ELSE mem

LoadIsCurrent ==
  LET word0 == Merged(fwd[1], IF cross THEN line0 ELSE port[0].cur)
      word1 == Merged(fwd[2], port[1].cur)
  IN  First(dc2) \subseteq word0 /\ Second(dc2) \subseteq word1

Dc3 ==
  dc3' = IF DramWait THEN dc3
         ELSE IF dc2.kind # "load" THEN "none"
         ELSE IF LoadIsCurrent THEN "good" ELSE "bad"

StoreBeatStuck == storeBeat' = (dc2.kind = "store" /\ cross /\ storeBeat)
StoreBeat == storeBeat' = (dc2.kind = "store" /\ cross /\ ~storeBeat)

Beats ==
  /\ StoreBeat
  /\ loadBeat' = (/\ dc1.kind = "load" /\ LineCross(dc1)
                  /\ ~StoreCrossHold /\ ~loadBeat)
  /\ line0' = IF loadBeat THEN port[0].cur ELSE line0

\* A read is answered in the next cycle; the DCCM reads one line per cycle,
\* that of port 0 if both ports read.
Answer(read, w, same) ==
  IF read THEN [valid |-> TRUE,
                cur |-> IF same \/ w \in Dram THEN ({w} \X Lane) \ old ELSE {}]
  ELSE Quiet

Ports ==
  LET after == After(dc1.word)
  IN  port' = [p \in 0..1 |->
                 IF p = 0 THEN Answer(Read0, dc1.word, TRUE)
                 ELSE Answer(Read1, after, Read0 => SameLine(dc1.word, after))]

\* A store clears slot 0 if it is aligned or the slot's tag, valid or not, is
\* a word it writes; otherwise an unaligned store puts its second word there.
Cam(new) ==
  LET words == {dc2.word} \cup (IF Unaligned(dc2) THEN {After(dc2.word)} ELSE {})
  IN  cam' = IF dc2.kind = "store" /\ (0 \in dc2.lo \/ cam.tag \in words)
             THEN [cam EXCEPT !.valid = FALSE, !.strb = {}, !.cur = {}]
             ELSE IF dc2.kind = "store" /\ Unaligned(dc2)
             THEN [valid |-> TRUE, tag |-> After(dc2.word),
                   strb |-> Second(dc2),
                   cur |-> (dc2.cur \cap Second(dc2)) \ new]
             ELSE [cam EXCEPT !.cur = @ \ new]

Memory(new) ==
  old' = (old \ (Written \cap dc2.cur)) \cup (Written \ dc2.cur) \cup new

Clock(new) ==
  Dc2(new) /\ Dc3 /\ Beats /\ Ports /\ Cam(new) /\ Memory(new)

-----------------------------------------------------------------------------
(* Actions.                                                                *)

\* DC1 takes the request of this cycle, or none.
Accept(op) ==
  /\ ~EngineStall
  /\ Serial => {dc1.kind, op.kind} # {"load", "store"}
  /\ dc1' = op
  /\ Clock(op.cur)

\* DC1 is held.
Hold == EngineStall /\ dc1' = dc1 /\ Clock({})

\* Another client of the DCCM writes a word while the engine is empty; the
\* core waits for the LSU before it starts one, and the CAM is not told.
OtherWrite(w) ==
  /\ OtherClients /\ w \notin Dram /\ dc1 = Empty /\ dc2 = Empty
  /\ old' = old \ ({w} \X Lane)
  /\ cam' = [cam EXCEPT !.cur = @ \ ({w} \X Lane)]
  /\ dc3' = "none" /\ port' = [p \in 0..1 |-> Quiet]
  /\ UNCHANGED <<dc1, dc2, fwd, cross, loadBeat, storeBeat, line0>>

Init ==
  /\ dc1 = Empty /\ dc2 = Empty /\ dc3 = "none"
  /\ fwd = <<NoFwd, NoFwd>>
  /\ cross = FALSE /\ loadBeat = FALSE /\ storeBeat = FALSE
  /\ line0 = {} /\ port = [p \in 0..1 |-> Quiet]
  /\ cam = [valid |-> FALSE, tag |-> 0, strb |-> {}, cur |-> {}]
  /\ old = {}

Next ==
  \/ \E op \in Requests \cup {Empty} : Accept(op)
  \/ Hold
  \/ \E w \in Word : OtherWrite(w)

Spec == Init /\ [][Next]_vars

-----------------------------------------------------------------------------
(* Properties.                                                             *)

\* Every register of the engine holds a value of its type.
TypeOK ==
  /\ dc1 \in Op /\ dc2 \in Op /\ dc3 \in {"none", "good", "bad"}
  /\ fwd \in Forward \X Forward
  /\ cross \in BOOLEAN /\ loadBeat \in BOOLEAN /\ storeBeat \in BOOLEAN
  /\ line0 \subseteq Byte
  /\ port \in [0..1 -> [valid : BOOLEAN, cur : SUBSET Byte]]
  /\ cam \in [valid : BOOLEAN, tag : Word, strb : SUBSET Byte, cur : SUBSET Byte]
  /\ old \subseteq Byte

\* A load returns, for every byte it reads, the youngest store before it:
\* from memory, over one or two beats, or forwarded (lsu_engine.sv, 271-446).
LoadsCurrent == dc3 # "bad"

\* What the CAM would forward is the youngest store, unless a store in DC1
\* or DC2 that the load cannot overtake replaces it.
CamAgrees ==
  cam.valid => cam.strb \subseteq cam.cur \cup dc1.cur \cup dc2.cur

\* A stale load can come from a stale CAM only: with other clients writing
\* memory and loads waiting for DRAM, no load takes the answer of another, a
\* beat that was not sent, or memory before an older store.
OnlyTheCam == (cam.valid => cam.strb \subseteq cam.cur) => LoadsCurrent

\* Every byte of memory that is not current has its store on the way: no
\* store is lost or overwritten by an older one, over one beat or two.
StoresLand == old \subseteq dc1.cur \cup dc2.cur

\* The clock does not stop.
FairSpec == Spec /\ WF_vars(Next)

\* No load waits for an answer that is not coming, and no beat of a crossing
\* access holds the engine forever: it accepts again and again.
EngineMoves == []<>~EngineStall
=============================================================================
