------------------------------ MODULE RegAlloc ------------------------------
(***************************************************************************)
(* The register allocator of the ARM back end, on one function: basic      *)
(* blocks are linked, the instructions are walked once and their floating  *)
(* registers replaced by fixed ones, the spill code gets its addresses in  *)
(* the frame, and the calls save what must survive them.  The code that    *)
(* results is then run beside the code that came in: every instruction     *)
(* must find in its fixed registers what the floating registers hold.      *)
(***************************************************************************)
EXTENDS RegCode

CONSTANTS Programs,     \* records of code, the arguments of each class, and the locals
          MaxSteps      \* bound of the instructions that are run

VARIABLES prog,         \* the program that is compiled
          code,         \* its instructions with the blocks linked
          pc,           \* the next instruction to allocate, or to run
          s,            \* the state of the allocator
          phase,        \* "link", "alloc", "save", "run", "done"
          out,          \* the instructions with fixed registers
          m             \* the machine that runs them

vars == <<prog, code, pc, s, phase, out, m>>

None == -1              \* a fixed register that holds nothing (INT_MAX)
Never == -1             \* a register that was never spilt
Loaded == -2            \* a register whose slot was given back (INT_MAX)
Junk == -1              \* a value nobody may use

Args(p) == UNION {{Virtual(c, k) : k \in 0 .. p.args[c] - 1} : c \in Classes}
Fewer(a, b) == IF a < b THEN a ELSE b
Rest(a, b) == IF a < b THEN 0 ELSE a - b

(***************************************************************************)
(* The class of registers c of a function with n arguments: the first of   *)
(* them are in registers, the others on the stack as if they were spilt.   *)
(***************************************************************************)
NewRegs(c, n) ==
    LET inRegs == Fewer(n, ArgRegs)
        spilt == Rest(n, ArgRegs)
    IN  [phys |-> [p \in 0 .. MaxRegs(c) - 1 |-> IF p < inRegs THEN MaxRegs(c) + p ELSE None],
         next |-> [p \in 0 .. MaxRegs(c) - 1 |-> -1],
         spilt |-> [r \in {} |-> 0] @@ [k \in {MaxRegs(c) + inRegs + j : j \in 0 .. spilt - 1}
                                          |-> k - MaxRegs(c) - inRegs],
         used |-> 0 .. spilt - 1, top |-> spilt, peak |-> spilt, args |-> spilt]

InitRegs(p) == [int |-> NewRegs("int", p.args["int"]), real |-> NewRegs("real", p.args["real"]),
                got |-> <<>>, put |-> <<>>, emit |-> <<>>, fault |-> ""]

SpiltSlot(q, n) == IF n \in DOMAIN q.spilt THEN q.spilt[n] ELSE Never
Fail(q, why) == [q EXCEPT !.fault = why]
Emit(q, op, c, p, slot) ==
    LET list == IF op = "spill" THEN Instr(op, <<<<c, p>>>>, <<>>) ELSE Instr(op, <<>>, <<<<c, p>>>>)
    IN  [q EXCEPT !.emit = Append(@, [list EXCEPT !.lab = slot])]

HoldersOf(q, r) ==
    {p \in DOMAIN q[Class(r)].phys : q[Class(r)].phys[p] = Number(r)}

\* How many virtual registers of the class the function has.
RegCount(c) == Cardinality({r \in Registers(code) : Class(r) = c}) + MaxRegs(c)

(***************************************************************************)
(* Store the register that is in p on the stack, in the lowest free slot.  *)
(***************************************************************************)
SpillReg(q, c, p) ==
    LET free == (0 .. q[c].top - 1) \ q[c].used
        slot == IF free = {} THEN q[c].top ELSE Least(free)
        top == IF slot = q[c].top THEN slot + 1 ELSE q[c].top
        gone == [q EXCEPT ![c].used = @ \union {slot}, ![c].top = top,
                          ![c].peak = IF @ < top THEN top ELSE @,
                          ![c].spilt = (q[c].phys[p] :> slot) @@ @]
    IN  IF q[c].top = RegCount(c) THEN Fail(q, "assert") ELSE Emit(gone, "spill", c, p, slot)

(***************************************************************************)
(* Load the spilt register r into p.  Its slot is free again, and so are   *)
(* the free slots below it if it was the last.                             *)
(***************************************************************************)
LoadSpilledReg(q, r, p) ==
    LET c == Class(r)
        slot == SpiltSlot(q[c], Number(r))
        used == q[c].used \ {slot}
        top == IF slot # q[c].top - 1 THEN q[c].top
               ELSE IF used = {} THEN 0 ELSE 1 + CHOOSE x \in used : \A y \in used : y <= x
        back == [q EXCEPT ![c].phys[p] = Number(r), ![c].next[p] = -1,
                          ![c].spilt = (Number(r) :> Loaded) @@ @,
                          ![c].used = used, ![c].top = top]
    IN  CASE slot = Loaded \/ q[c].top = 0 -> Fail(q, "assert")
          [] slot = Never -> Fail(q, "unset")
          [] OTHER -> Emit(back, "fill", c, p, slot)

\* A fixed register is taken from whatever holds it, unless it is its own.
AllocateFixed(q, r) ==
    IF q[Class(r)].phys[Number(r)] \in {None, Number(r)} THEN q
    ELSE SpillReg(q, Class(r), Number(r))

(***************************************************************************)
(* A register for a floating one: the highest that is free, or the one     *)
(* whose next use is farthest, which is spilt; never the restricted one.   *)
(***************************************************************************)
FloatingChoice(q, c, restricted) ==
    LET free == {p \in DOMAIN q[c].phys : q[c].phys[p] = None /\ p # restricted}
        known == {p \in DOMAIN q[c].phys : q[c].next[p] > -1 /\ p # restricted}
        far == {p \in known : \A x \in known : q[c].next[x] <= q[c].next[p]}
    IN  CASE free # {} -> CHOOSE p \in free : \A x \in free : x <= p
          [] free = {} /\ known # {} -> Least(far)
          [] OTHER -> None

AllocateFloating(q, c, restricted) ==
    LET p == FloatingChoice(q, c, restricted)
    IN  CASE p = None -> Fail(q, "assert")
          [] p # None /\ q[c].phys[p] = None -> q
          [] OTHER -> SpillReg(q, c, p)

\* The fixed register that is to hold r.
Target(q, r, restricted) ==
    CASE Fixed(r) -> Number(r)
      [] ~Fixed(r) /\ HoldersOf(q, r) # {} -> Least(HoldersOf(q, r))
      [] OTHER -> FloatingChoice(q, Class(r), restricted)

\* A register for r, whatever r held.
Alloc(q, r, restricted) ==
    LET p == Target(q, r, restricted)
        room == IF Fixed(r) THEN AllocateFixed(q, r)
                ELSE IF HoldersOf(q, r) # {} THEN q ELSE AllocateFloating(q, Class(r), restricted)
    IN  IF room.fault # "" THEN room ELSE [room EXCEPT ![Class(r)].phys[p] = Number(r)]

\* A register that holds the value of r.
Ensure(q, r) ==
    LET p == Target(q, r, None)
        held == IF Fixed(r) THEN q[Class(r)].phys[p] = Number(r) ELSE HoldersOf(q, r) # {}
        room == IF Fixed(r) THEN AllocateFixed(q, r) ELSE AllocateFloating(q, Class(r), None)
    IN  CASE held -> q
          [] ~held /\ room.fault # "" -> room
          [] OTHER -> LoadSpilledReg(room, r, p)

(***************************************************************************)
(* A handler is the list of what it does with the operands: <<"ensure", k>>*)
(* puts source k in a register, <<"free", k>> gives that register back if  *)
(* the source is not used again, <<"next", k>> notes where it is used next,*)
(* <<"dest", k>> finds a register for destination k and does both for it,  *)
(* "other" the same, and not the register of the first source, and "keep"  *)
(* the same, with the value the destination has; "unless" notes the next   *)
(* use unless source and destination are one register; "own" takes a fixed *)
(* register, and its next use stays as it is.                              *)
(***************************************************************************)
Put(q, k, p) == [q EXCEPT !.put = (k :> p) @@ @]
Got(q, k, p) == [q EXCEPT !.got = (k :> p) @@ @]

\* Mutant: the next use is searched from the instruction itself.
FreeIfDeadHere(q, r, p) ==
    IF Distance(code, pc + 1, r) = -1 THEN [q EXCEPT ![Class(r)].phys[p] = None] ELSE q

FreeIfDead(q, r, p) ==
    IF Distance(code, pc, r) = -1 THEN [q EXCEPT ![Class(r)].phys[p] = None] ELSE q
NoteNext(q, r, p) == [q EXCEPT ![Class(r)].next[p] = Distance(code, pc, r)]

AllocateDest(q, k, r, restricted) ==
    LET p == Target(q, r, restricted)
        room == Alloc(q, r, restricted)
    IN  IF room.fault # "" THEN room
        ELSE Put(NoteNext(FreeIfDead(room, r, p), r, p), k, p)

KeepDest(q, k, r) ==
    LET p == Target(q, r, None)
        room == Ensure(q, r)
    IN  IF room.fault # "" THEN room
        ELSE Put(NoteNext(FreeIfDead(room, r, p), r, p), k, p)

OwnDest(q, k, r) == Put(Alloc(q, r, None), k, Number(r))

Perform(q, i, do) ==
    LET k == do[2]
        r == IF do[1] \in {"dest", "other", "keep", "own"} THEN i.dst[k] ELSE i.src[k]
        ensured == Ensure(q, r)
    IN  CASE q.fault # "" -> q
          [] q.fault = "" /\ do[1] = "ensure" ->
                IF ensured.fault # "" THEN ensured ELSE Got(ensured, k, Target(q, r, None))
          [] q.fault = "" /\ do[1] = "free" -> FreeIfDead(q, r, q.got[k])
          [] q.fault = "" /\ do[1] = "next" -> NoteNext(q, r, q.got[k])
          [] q.fault = "" /\ do[1] = "dest" -> AllocateDest(q, k, r, None)
          [] q.fault = "" /\ do[1] = "other" -> AllocateDest(q, k, r, q.got[1])
          [] q.fault = "" /\ do[1] = "keep" -> KeepDest(q, k, r)
          [] q.fault = "" /\ do[1] = "own" -> OwnDest(q, k, r)
          [] q.fault = "" /\ do[1] = "unless" ->
                IF q.got[k] = q.put[1] THEN q ELSE NoteNext(q, r, q.got[k])
          [] OTHER -> Fail(q, "assert")

Each(verb, i) == [k \in DOMAIN i.src |-> <<verb, k>>]
EachDest(i) == [k \in DOMAIN i.dst |-> <<"dest", k>>]

\* The second operand of an instruction, and the register it is shifted by.
Op2(i, k) ==
    FlattenSeq([j \in 1 .. Rest(Len(i.src), k - 1) |->
               <<<<"ensure", k + j - 1>>, <<"free", k + j - 1>>>>])

(***************************************************************************)
(* MOV and MVN.  Where the source of a MOV is in the register of the       *)
(* destination, its next use is not noted; nor is that of a source that is *)
(* shifted by a register.                                                  *)
(***************************************************************************)
MovHandler(i) ==
    Op2(i, 1) \o EachDest(i) \o
        (IF Len(i.src) = 2 THEN <<<<"next", 2>>>>
         ELSE IF i.op \in {"mov", "mvf", "fcpyd"} THEN <<<<"unless", 1>>>> ELSE Each("next", i))

\* ADD and the like.
DataHandler(i) ==
    <<<<"ensure", 1>>>> \o Op2(i, 2) \o <<<<"free", 1>>>> \o EachDest(i) \o Each("next", i)

\* MUL: the destination is not the register of the first factor.
MulHandler(i) ==
    Each("ensure", i) \o Each("free", i) \o <<<<"other", 1>>>> \o Each("next", i)

\* STR: the value, the base, the offset.
StrHandler(i) ==
    Each("ensure", [i EXCEPT !.src = SubSeq(@, 1, Fewer(Len(@), 2))]) \o Op2(i, 3) \o
        (IF Len(i.src) > 1 THEN <<<<"free", 2>>>> ELSE <<>>) \o <<<<"free", 1>>>> \o Each("next", i)

\* LDR: the base, the offset; and LDR from the frame, that has neither.
LdrHandler(i) ==
    IF i.src = <<>> THEN EachDest(i) ELSE DataHandler(i)

\* A branch may read its target; a call that returns a number owns R0 or F0.
BranchHandler(i) == Each("ensure", i) \o Each("free", i) \o
    [k \in DOMAIN i.dst |-> <<"own", k>>] \o Each("next", i)

\* A system call uses fixed registers, in the order of their numbers.
SwiHandler(i) ==
    LET Read(n) == {k \in DOMAIN i.src : Number(i.src[k]) = n}
        Write(n) == {k \in DOMAIN i.dst : Number(i.dst[k]) = n}
        One(n) == CASE Read(n) # {} -> LET k == Least(Read(n)) IN
                                         <<<<"ensure", k>>, <<"free", k>>, <<"next", k>>>>
                    [] Read(n) = {} /\ Write(n) # {} -> <<<<"dest", Least(Write(n))>>>>
                    [] OTHER -> <<>>
    IN  FlattenSeq([n \in 1 .. IntRegs |-> One(n - 1)])

\* LDR of a constant, ADR.
ConstHandler(i) == EachDest(i)

\* A conditional move of one of two registers.
CMovHandler(i) == Each("ensure", i) \o Each("free", i) \o EachDest(i) \o Each("next", i)

CmpHandler(i) ==
    <<<<"ensure", 1>>>> \o Op2(i, 2) \o <<<<"free", 1>>>> \o Each("next", i)

\* MSR and MRS.
FlagsHandler(i) ==
    IF i.op = "mrs" THEN EachDest(i) ELSE <<<<"ensure", 1>>, <<"free", 1>>, <<"next", 1>>>>

SignxHandler(i) == CMovHandler(i)

(***************************************************************************)
(* The floating point accelerator.                                         *)
(***************************************************************************)
FpaDataHandler(i) == DataHandler(i)
FpaStranHandler(i) == IF i.op = "stf" THEN StrHandler(i) ELSE CMovHandler(i)

\* FIX notes the next use of its source before it takes its destination.
FpaTranHandler(i) ==
    IF i.op = "fix" THEN <<<<"ensure", 1>>, <<"free", 1>>, <<"next", 1>>, <<"dest", 1>>>>
    ELSE CMovHandler(i)
FpaCmpHandler(i) == CmpHandler(i)
FpaStatusHandler(i) == <<<<"ensure", 1>>, <<"free", 1>>, <<"next", 1>>>>

(***************************************************************************)
(* The vector floating point unit.                                         *)
(***************************************************************************)
VfpStranHandler(i) == IF i.op = "fstd" THEN StrHandler(i) ELSE CMovHandler(i)
VfpTranHandler(i) == CMovHandler(i)

\* Sums; and products that are added to the destination.
VfpDataHandler(i) ==
    <<<<"ensure", 1>>, <<"ensure", 2>>, <<"free", 2>>, <<"free", 1>>>> \o
        (IF i.op \in Fma THEN <<<<"keep", 1>>>> ELSE <<<<"dest", 1>>>>) \o Each("next", i)

\* The second operand comes first.
VfpCmpHandler(i) ==
    <<<<"ensure", 2>>, <<"ensure", 1>>, <<"free", 1>>, <<"free", 2>>, <<"next", 1>>, <<"next", 2>>>>

\* The system register: the next use of the source is not noted.
VfpSysregHandler(i) ==
    IF i.op = "fmrx" THEN EachDest(i) ELSE <<<<"ensure", 1>>, <<"free", 1>>>>

(***************************************************************************)
(* Allocation: one instruction at a time, its spill code before it.        *)
(***************************************************************************)
\* A register that a system call both reads and writes is treated as a source.
Physical(i, q) ==
    [i EXCEPT
     !.src = [k \in DOMAIN i.src |-> <<Class(i.src[k]), q.got[k]>>],
     !.dst = [k \in DOMAIN i.dst |-> <<Class(i.dst[k]),
                             IF k \in DOMAIN q.put THEN q.put[k] ELSE Number(i.dst[k])>>],
     !.was = [src |-> i.src, dst |-> i.dst]]

Handle(ops, Handler(_)) ==
    /\ phase = "alloc" /\ pc <= Len(code) /\ code[pc].op \in ops
    /\ LET i == code[pc]
           q == FoldLeft(LAMBDA acc, do : Perform(acc, i, do),
                         [s EXCEPT !.got = <<>>, !.put = <<>>, !.emit = <<>>], Handler(i))
       IN  /\ s' = q
           /\ IF q.fault # "" THEN phase' = "done" /\ UNCHANGED <<pc, out>>
              ELSE /\ out' = out \o q.emit \o <<Physical(i, q)>>
                   /\ pc' = pc + 1 /\ phase' = phase
    /\ UNCHANGED <<prog, code, m>>

(***************************************************************************)
(* The frame, in words, from the bottom: the locals, the registers saved   *)
(* between blocks, the spilt reals, the spilt integers; above them, where  *)
(* the caller put them, the arguments: the reals, then the integers.  The  *)
(* allocator counts the arguments among the spilt registers of each class, *)
(* so the addresses of both are moved.                                     *)
(***************************************************************************)
Words(c) == IF c = "int" THEN 1 ELSE 2
SavedOf(c) == {Number(r) : r \in {x \in Saved(code) : Class(x) = c}}
PrespiltOffset(r) ==
    prog.locals + (IF Class(r) = "int" THEN 0 ELSE Cardinality(SavedOf("int")))
        + Words(Class(r)) * Cardinality({n \in SavedOf(Class(r)) : n < Number(r)})
BlockSpill == Cardinality(SavedOf("int")) + 2 * Cardinality(SavedOf("real"))
SpillSpace(c) == (s[c].peak - s[c].args) * Words(c)

\* Mutant: the slots begin where the arguments' would.
SpillAddressUnmoved(c, slot) ==
    LET bottom == prog.locals + BlockSpill
        above == bottom + SpillSpace("real") + SpillSpace("int")
        spills == IF c = "real" THEN bottom ELSE bottom + SpillSpace("real")
        arguments == IF c = "real" THEN above ELSE above + s["real"].args * Words("real")
    IN  (IF slot < s[c].args THEN arguments ELSE spills) + slot * Words(c)

SpillAddress(c, slot) ==
    LET bottom == prog.locals + BlockSpill
        above == bottom + SpillSpace("real") + SpillSpace("int")
        spills == (IF c = "real" THEN bottom ELSE bottom + SpillSpace("real")) - s[c].args * Words(c)
        arguments == IF c = "real" THEN above ELSE above + s["real"].args * Words("real")
    IN  (IF slot < s[c].args THEN arguments ELSE spills) + slot * Words(c)

FrameSize == prog.locals + BlockSpill + s["int"].peak + 2 * s["real"].peak

\* Where the caller has put the stack argument k of class c: the integers on
\* top, the last of each class highest.
ArgumentAddress(c, k) ==
    FrameSize - s["int"].args - (IF c = "int" THEN 0 ELSE 2 * s["real"].args) + k * Words(c)

StoreAt(mem, c, a, v) == [x \in DOMAIN mem |-> IF x \in a .. a + Words(c) - 1 THEN v ELSE mem[x]]
LoadAt(mem, c, a) ==
    IF \A x \in a .. a + Words(c) - 1 : x \in DOMAIN mem /\ mem[x] = mem[a] THEN mem[a] ELSE Junk

(***************************************************************************)
(* A call saves the registers that were written before it and are read     *)
(* after it, in the order in which the code lies in memory.                *)
(***************************************************************************)
CallArgs(i, c) == Fewer(Cardinality({r \in Range(i.args) : Class(r) = c}), ArgRegs)

UsedBeforeCall(k, c) ==
    {n \in CallArgs(out[k], c) .. MaxRegs(c) - 1 :
        n < prog.args[c] \/ IsUsedBefore(out, 1, k - 1, <<c, n>>)}
UsedAfterCall(k, c) ==
    {n \in CallArgs(out[k], c) .. MaxRegs(c) - 1 : FirstTouch(out, k + 1, Len(out), <<c, n>>).how = "read"}

RegsUsed(k) ==
    UNION {{<<c, n>> : n \in UsedBeforeCall(k, c) \intersect UsedAfterCall(k, c)} : c \in Classes}
        \ Range(out[k].dst)

\* Mutant: R14 is forgotten.
BytesSavedShort(k) ==
    1 + Cardinality({r \in RegsUsed(k) : Class(r) = "int"})
      + 2 * Cardinality({r \in RegsUsed(k) : Class(r) = "real"})

\* A call pushes R11, R14 and what it saves after the arguments were stored.
BytesSaved(k) ==
    2 + Cardinality({r \in RegsUsed(k) : Class(r) = "int"})
      + 2 * Cardinality({r \in RegsUsed(k) : Class(r) = "real"})
UpdateArgOffset(k) ==
    LET calls == {j \in k .. Len(out) : out[j].op = "bl"}
    IN  IF out[k].op = "push" THEN [out[k] EXCEPT !.lab = @ + BytesSaved(Least(calls))]
        ELSE IF out[k].op = "bl" THEN [out[k] EXCEPT !.keep = RegsUsed(k)]
        ELSE out[k]

(***************************************************************************)
(* The machine.  val is what the registers of the program hold, floating   *)
(* or not; reg, mem and below are the registers, the frame and the words   *)
(* below the stack pointer of the code that was made.  A value is the      *)
(* number of the step that computed it.                                    *)
(***************************************************************************)
AllFixed == UNION {{<<c, n>> : n \in 0 .. MaxRegs(c) - 1} : c \in Classes}

Machine ==
    LET onStack(c) == s[c].args
        frame == [x \in 0 .. FrameSize - 1 |-> Junk]
        Fill(mem, c) == FoldSet(LAMBDA k, acc : StoreAt(acc, c, ArgumentAddress(c, k), 1 + ArgRegs + k),
                                mem, 0 .. onStack(c) - 1)
    IN  [reg |-> [r \in AllFixed |-> IF Number(r) < Fewer(prog.args[Class(r)], ArgRegs)
                                     THEN 1 + Number(r) ELSE Junk],
         val |-> [r \in Registers(code) \union AllFixed \union Args(prog) |->
                    IF r \in Args(prog) THEN 1 + Number(r) - MaxRegs(Class(r)) ELSE 0],
         mem |-> Fill(Fill(frame, "int"), "real"),
         below |-> [x \in 1 .. 12 |-> Junk], pushed |-> [x \in {} |-> 0], flag |-> FALSE, t |-> 20]

LinkBlocks ==
    /\ phase = "link"
    /\ code' = LinkBasicBlocks(prog.code, Args(prog))
    /\ s' = InitRegs(prog)
    /\ phase' = "alloc"
    /\ UNCHANGED <<prog, pc, out, m>>

\* The calls save their registers; then the code may run.
SaveRegs ==
    /\ phase = "alloc" /\ pc > Len(code)
    /\ out' = [k \in DOMAIN out |-> UpdateArgOffset(k)]
    /\ m' = Machine
    /\ pc' = 1 /\ phase' = "run"
    /\ UNCHANGED <<prog, code, s>>

Fetch(ops) == phase = "run" /\ pc <= Len(out) /\ m.t < 20 + MaxSteps /\ out[pc].op \in ops
Continue == pc' = pc + 1 /\ UNCHANGED <<prog, code, s, phase, out>>
Executed(i) == ~i.cc \/ m.flag

RunSpillCode ==
    /\ Fetch({"fill", "spill", "save", "load"})
    /\ LET i == out[pc]
           r == (i.src \o i.dst)[1]
           v == (i.was.src \o i.was.dst)[1]
           a == IF i.op \in {"fill", "spill"} THEN SpillAddress(Class(r), i.lab) ELSE PrespiltOffset(v)
       IN  m' = CASE ~Executed(i) -> m
                  [] Executed(i) /\ i.op \in {"spill", "save"} ->
                        [m EXCEPT !.mem = StoreAt(@, Class(r), a, m.reg[r])]
                  [] OTHER -> [m EXCEPT !.reg[r] = LoadAt(m.mem, Class(r), a)]
    /\ Continue

RunBranch ==
    /\ Fetch({"b", "label"})
    /\ pc' = IF IsBranch(out[pc]) /\ Executed(out[pc]) THEN BlockAt(out, out[pc].lab) ELSE pc + 1
    /\ m' = [m EXCEPT !.t = @ + 1]
    /\ UNCHANGED <<prog, code, s, phase, out>>

\* The caller stores an argument below the stack pointer.
RunPush ==
    /\ Fetch({"push"})
    /\ LET i == out[pc]
           r == i.src[1]
       IN  m' = [m EXCEPT !.below = StoreAt(@, Class(r), i.lab - Words(Class(r)) + 1, m.reg[r]),
                          !.pushed = (i.args[1] :> m.val[i.was.src[1]]) @@ @]
    /\ Continue

\* The procedure that is called may change every register.
RunCall ==
    /\ Fetch({"bl"})
    /\ LET i == out[pc]
           After(r) == IF r \in Range(i.dst) THEN m.t ELSE IF r \in i.keep THEN m.reg[r] ELSE Junk
       IN  m' = [m EXCEPT !.reg = [r \in DOMAIN @ |-> After(r)],
                          !.val = [r \in DOMAIN @ |-> IF r \in Range(i.dst) THEN m.t ELSE @[r]],
                          !.below = [x \in DOMAIN @ |-> Junk],
                          !.pushed = [x \in {} |-> 0], !.t = @ + 1]
    /\ Continue

\* The other instructions: a comparison sets the flag, one way or the other.
RunOther ==
    /\ phase = "run" /\ pc <= Len(out) /\ m.t < 20 + MaxSteps
    /\ out[pc].op \notin {"fill", "spill", "save", "load", "b", "label", "push", "bl"}
    /\ LET i == out[pc]
       IN  \E f \in IF i.op \in {"cmp", "cmf", "fcmpd"} THEN BOOLEAN ELSE {m.flag} :
             m' = [m EXCEPT !.reg = [r \in DOMAIN @ |-> IF r \in Range(i.dst) THEN m.t ELSE @[r]],
                            !.val = [r \in DOMAIN @ |-> IF r \in Range(i.was.dst) THEN m.t ELSE @[r]],
                            !.flag = f, !.t = @ + 1]
    /\ Continue

Init ==
    /\ prog \in Programs
    /\ code = <<>> /\ pc = 1 /\ s = InitRegs(prog) /\ phase = "link" /\ out = <<>> /\ m = <<>>

AllocateInt ==
    \/ Handle({"mov", "mvn"}, MovHandler)
    \/ Handle({"add"}, DataHandler)
    \/ Handle({"mul"}, MulHandler)
    \/ Handle({"str", "save", "push"}, StrHandler)
    \/ Handle({"ldr", "load"}, LdrHandler)
    \/ Handle({"b", "bl", "label"}, BranchHandler)
    \/ Handle({"swi"}, SwiHandler)
    \/ Handle({"ldrc"}, ConstHandler)
    \/ Handle({"cmov"}, CMovHandler)
    \/ Handle({"cmp"}, CmpHandler)
    \/ Handle({"msr", "mrs"}, FlagsHandler)
    \/ Handle({"signx"}, SignxHandler)

AllocateFpa ==
    \/ Handle({"adf"}, FpaDataHandler)
    \/ Handle({"mvf", "mnf"}, MovHandler)
    \/ Handle({"ldf", "stf"}, FpaStranHandler)
    \/ Handle({"fix", "flt"}, FpaTranHandler)
    \/ Handle({"cmf"}, FpaCmpHandler)
    \/ Handle({"ldfc"}, ConstHandler)
    \/ Handle({"wfs"}, FpaStatusHandler)

AllocateVfp ==
    \/ Handle({"faddd", "fmacd"}, VfpDataHandler)
    \/ Handle({"fcpyd", "fnegd"}, MovHandler)
    \/ Handle({"fldd", "fstd"}, VfpStranHandler)
    \/ Handle({"fsitod", "fmsr", "fmrs", "fmrrd", "fsqrtd"}, VfpTranHandler)
    \/ Handle({"fcmpd"}, VfpCmpHandler)
    \/ Handle({"flddc"}, ConstHandler)
    \/ Handle({"fmrx", "fmxr"}, VfpSysregHandler)

Next ==
    \/ LinkBlocks \/ AllocateInt \/ AllocateFpa \/ AllocateVfp \/ SaveRegs
    \/ RunSpillCode \/ RunBranch \/ RunPush \/ RunCall \/ RunOther

Spec == Init /\ [][Next]_vars
----------------------------------------------------------------------------
Regs == UNION {{<<c, n>> : n \in 0 .. 31} : c \in Classes}

\* The maps of the allocator are between registers of one class.
TypeOK ==
    /\ phase \in {"link", "alloc", "run", "done"} /\ pc \in 1 .. Len(code) + Len(out) + 1
    /\ s.fault \in {"", "assert", "unset"}
    /\ \A c \in Classes :
         /\ s[c].phys \in [0 .. MaxRegs(c) - 1 -> -1 .. 31]
         /\ s[c].next \in [0 .. MaxRegs(c) - 1 -> -1 .. Len(code)]
         /\ s[c].used \subseteq 0 .. s[c].top - 1
    /\ Range(out) \subseteq [op : STRING, lab : Int, cc : BOOLEAN, src : Seq(Regs), dst : Seq(Regs),
                             args : Seq(Regs), keep : SUBSET Regs, was : [src : Seq(Regs), dst : Seq(Regs)]]

(***************************************************************************)
(* The walk through the instructions ends: a register is found for every   *)
(* operand, and a register that is read has been written.                  *)
(***************************************************************************)
AllocationSucceeds == TypeOK /\ s.fault = ""

(***************************************************************************)
(* Each fixed register contains the correct value when it is used as a     *)
(* source operand (the task of the allocator, arm_reg_alloc.c:34): what    *)
(* the code that was made reads is what the program would read, on every   *)
(* way through the blocks, whatever was spilt, saved or called before.     *)
(***************************************************************************)
Reads(i) == i.op \notin {"fill", "spill", "save", "load"} /\ Executed(i)

OperandsRight ==
    phase = "run" /\ pc <= Len(out) /\ Reads(out[pc]) =>
        /\ \A k \in DOMAIN out[pc].src : m.reg[out[pc].src[k]] = m.val[out[pc].was.src[k]]
        /\ out[pc].op \in Fma => m.reg[out[pc].dst[1]] = m.val[out[pc].was.dst[1]]

(***************************************************************************)
(* A procedure finds its arguments: those in registers, and those on the   *)
(* stack, below which the registers of the caller were pushed.             *)
(***************************************************************************)
Pushed(i) == 2 + FoldSet(LAMBDA r, n : n + Words(Class(r)), 0, i.keep)

ArgumentsArrive ==
    phase = "run" /\ pc <= Len(out) /\ out[pc].op = "bl" =>
        /\ \A r \in Range(out[pc].args) : m.reg[r] = m.val[r]
        /\ \A a \in DOMAIN m.pushed :
              LoadAt(m.below, Class(a), Pushed(out[pc]) + Number(a) - Words(Class(a)) + 1) = m.pushed[a]
=============================================================================
