------------------------------ MODULE RegCode ------------------------------
(***************************************************************************)
(* ARM code before registers are allocated, and what the allocator asks of *)
(* it: where a register is used next, what is written on the way, and      *)
(* which virtual registers live longer than a basic block (a sub-section). *)
(*                                                                         *)
(* A register is <<class, number>>.  The numbers below MaxRegs[class] are the  *)
(* registers of the machine, called fixed; the others are virtual, called  *)
(* floating.  An instruction lists the registers it reads in the order in  *)
(* which its handler treats them.  A branch that links has its arguments   *)
(* in args: they are not operands.  keep and was are for the code that is  *)
(* made: what a call saves, and the operands before allocation.            *)
(***************************************************************************)
EXTENDS Integers, Sequences, FiniteSets, SequencesExt

CONSTANTS IntRegs,      \* registers of the ARM the allocator may use (11)
          RealRegs,     \* registers of the floating point unit
          ArgRegs       \* arguments of one class passed in registers (4)

ASSUME RegCodeAssumption ==
    /\ IntRegs \in Nat \ {0}
    /\ RealRegs \in Nat \ {0}
    /\ ArgRegs \in 0 .. IntRegs /\ ArgRegs \in 0 .. RealRegs

Classes == {"int", "real"}
MaxRegs(c) == IF c = "int" THEN IntRegs ELSE RealRegs
Class(r) == r[1]
Number(r) == r[2]
Fixed(r) == Number(r) < MaxRegs(Class(r))
Virtual(c, k) == <<c, MaxRegs(c) + k>>

Instr(op, src, dst) ==
    [op |-> op, src |-> src, dst |-> dst, lab |-> 0, cc |-> FALSE, args |-> <<>>,
     keep |-> {}, was |-> [src |-> <<>>, dst |-> <<>>]]
Label(l) == [Instr("label", <<>>, <<>>) EXCEPT !.lab = l]
Branch(l) == [Instr("b", <<>>, <<>>) EXCEPT !.lab = l]
BranchIf(l) == [Branch(l) EXCEPT !.cc = TRUE]
\* An argument that goes to the stack, k words below the stack pointer.
Push(r, k) == [Instr("push", <<r>>, <<>>) EXCEPT !.lab = k, !.args = <<<<Class(r), k>>>>]
Call(args, result) == [Instr("bl", <<>>, result) EXCEPT !.args = args]

Fma == {"fmacd"}
IsBranch(i) == i.op = "b"
IsLabel(i) == i.op = "label"

(***************************************************************************)
(* The walkers.  Conditions are ignored: an instruction that is executed   *)
(* only sometimes reads and writes its operands.                           *)
(***************************************************************************)
ReadFirst(r, src, dst) ==
    IF r \in Range(src) THEN "read" ELSE IF r \in Range(dst) THEN "written" ELSE "none"

DataTouch(i, r) == ReadFirst(r, i.src, i.dst)

CMovTouch(i, r) == ReadFirst(r, i.src, i.dst)

\* The arguments of a call are not read, its result is written.
CallTouch(i, r) == ReadFirst(r, i.src, i.dst)

FpaTouch(i, r) == ReadFirst(r, i.src, i.dst)

VfpTouch(i, r) == ReadFirst(r, i.src, i.dst)

\* A multiplication that accumulates also reads its destination.
VfpDataTouch(i, r) ==
    IF i.op \in Fma THEN ReadFirst(r, i.dst \o i.src, i.dst) ELSE ReadFirst(r, i.src, i.dst)

FpaOps == {"ldf", "stf", "adf", "mvf", "mnf", "fix", "flt", "cmf", "ldfc", "wfs"}
VfpOps == {"fldd", "fstd", "fcpyd", "fnegd", "fsitod", "fmrrd", "fmsr", "fmrs", "flddc"}
VfpDataOps == {"faddd", "fcmpd", "fsqrtd", "fmrx", "fmxr"} \union Fma

Touch(i, r) ==
    CASE i.op \in {"ldrc", "cmov", "cmp", "msr", "mrs"} -> CMovTouch(i, r)
      [] i.op \in {"bl", "swi", "b", "label"} -> CallTouch(i, r)
      [] i.op \in FpaOps -> FpaTouch(i, r)
      [] i.op \in VfpOps -> VfpTouch(i, r)
      [] i.op \in VfpDataOps -> VfpDataTouch(i, r)
      [] OTHER -> DataTouch(i, r)

\* The least element of a set of positions.
Least(S) == CHOOSE k \in S : \A j \in S : k <= j

\* What the first instruction of code[from .. to] that mentions r does to it.
FirstTouch(code, from, to, r) ==
    LET hits == {k \in from .. to : Touch(code[k], r) # "none"}
    IN  IF hits = {} THEN [at |-> 0, how |-> "none"]
        ELSE [at |-> Least(hits), how |-> Touch(code[Least(hits)], r)]

(***************************************************************************)
(* Whether code[from .. to] writes r.  The walk gives up at a CMF that has *)
(* r as its second operand.                                                *)
(***************************************************************************)
UsedTouch(i, r) ==
    IF r \in Range(i.dst) THEN "written"
    ELSE IF i.op = "cmf" /\ r = i.src[2] THEN "read" ELSE "none"

IsUsedBefore(code, from, to, r) ==
    LET hits == {k \in from .. to : UsedTouch(code[k], r) # "none"}
    IN  hits # {} /\ UsedTouch(code[Least(hits)], r) = "written"

\* The walk ends at the terminator of the basic block: a branch that always
\* branches, or the label of the next block.
BlockEnd(code, k) ==
    LET ends == {j \in k .. Len(code) : IsLabel(code[j]) \/ (IsBranch(code[j]) /\ ~code[j].cc)}
    IN  IF ends = {} THEN Len(code) ELSE Least(ends)

(***************************************************************************)
(* The position of the next use of r after k, or -1 when r is not used any *)
(* more.  A fixed register is followed to the end of the function.         *)
(***************************************************************************)
Distance(code, k, r) ==
    LET use == FirstTouch(code, k + 1, IF Fixed(r) THEN Len(code) ELSE BlockEnd(code, k + 1), r)
    IN  IF use.how = "read" THEN use.at ELSE -1

(***************************************************************************)
(* Sub-sections.  Every branch that does not link ends one, and a label    *)
(* follows it; a block is known by the position of its first instruction.  *)
(***************************************************************************)
Registers(code) == UNION {Range(code[k].src) \union Range(code[k].dst) : k \in DOMAIN code}
Floating(code) == {r \in Registers(code) : ~Fixed(r)}

\* A label is inserted after every branch that has none behind it.
WithLabels(code) ==
    LET fresh(k) == 1000 + k
        Piece(k) == IF /\ IsBranch(code[k]) /\ k < Len(code) /\ ~IsLabel(code[k + 1])
                    THEN <<code[k], Label(fresh(k))>> ELSE <<code[k]>>
    IN  FlattenSeq([k \in DOMAIN code |-> Piece(k)])

Starts(code) == {1} \union {k \in DOMAIN code : IsLabel(code[k])}
EndOf(code, b) ==
    LET later == {k \in Starts(code) : k > b} IN IF later = {} THEN Len(code) ELSE Least(later) - 1
BlockAt(code, l) == CHOOSE k \in DOMAIN code : IsLabel(code[k]) /\ code[k].lab = l

\* What the block reads before it writes it.
Inputs(code, b) ==
    {r \in Floating(code) : FirstTouch(code, b, EndOf(code, b), r).how = "read"}

\* What the block has written when it is left.
Outputs(code, b) ==
    {r \in Floating(code) : IsUsedBefore(code, b, EndOf(code, b), r)}

(***************************************************************************)
(* The links of a block, in order: the branch at its end, and the label    *)
(* behind it unless the branch is always taken.                            *)
(***************************************************************************)
Links(code, b) ==
    LET e == EndOf(code, b)
        taken == IF IsBranch(code[e]) THEN <<[op |-> e, lab |-> code[e].lab]>> ELSE <<>>
        falls == IF /\ ~(IsBranch(code[e]) /\ ~code[e].cc) /\ e < Len(code)
                 THEN <<[op |-> e + 1, lab |-> code[e + 1].lab]>> ELSE <<>>
    IN  taken \o falls

LinkedBlocks(code, S) ==
    S \union {BlockAt(code, Links(code, b)[j].lab) : <<b, j>> \in
                {<<x, y>> \in S \X (1 .. 2) : y <= Len(Links(code, x))}}

\* The blocks that can be reached from block b.
Reachable(code, b) ==
    LET step[n \in 0 .. Cardinality(Starts(code))] ==
            IF n = 0 THEN {b} ELSE LinkedBlocks(code, step[n - 1])
    IN  step[Cardinality(Starts(code))]

(***************************************************************************)
(* What a link must save: what the block has written, and the arguments if *)
(* it is the first block, as far as a block that can be reached reads it.  *)
(***************************************************************************)
MustSave(code, args, b, link) ==
    (Outputs(code, b) \union (IF b = 1 THEN args ELSE {}))
        \intersect UNION {Inputs(code, x) : x \in Reachable(code, BlockAt(code, link.lab))}

\* The integers in the order of their numbers, then the reals.
Position(S, r) ==
    Cardinality({x \in S : IF Class(x) = Class(r) THEN Number(x) <= Number(r) ELSE Class(x) = "int"})
InOrder(S) == [k \in 1 .. Cardinality(S) |-> CHOOSE r \in S : Position(S, r) = k]

SaveAlways(S) == [k \in DOMAIN InOrder(S) |-> Instr("save", <<InOrder(S)[k]>>, <<>>)]
SaveIf(S) == [k \in DOMAIN SaveAlways(S) |-> [SaveAlways(S)[k] EXCEPT !.cc = TRUE]]
LoadAll(S) == [k \in DOMAIN InOrder(S) |-> Instr("load", <<>>, <<InOrder(S)[k]>>)]

(***************************************************************************)
(* With two links, what both save is saved before the branch, what only    *)
(* the branch needs is saved under its condition, and the rest after it.   *)
(***************************************************************************)
TwoLinks(code, args, b, k) ==
    LET links == Links(code, b)
        one == MustSave(code, args, b, links[1])
        two == MustSave(code, args, b, links[2])
    IN  IF k = links[1].op THEN SaveAlways(one \intersect two) \o SaveIf(one \ two)
        ELSE IF k = links[2].op THEN SaveAlways(two \ one) ELSE <<>>

SavesBefore(code, args, b, k) ==
    LET links == Links(code, b)
    IN  CASE Len(links) = 0 -> <<>>
          [] Len(links) = 1 ->
                IF k = links[1].op THEN SaveAlways(MustSave(code, args, b, links[1])) ELSE <<>>
          [] OTHER -> TwoLinks(code, args, b, k)

\* A block loads its inputs, unless only one instruction follows its label.
LoadsBefore(code, b, k) ==
    IF b # 1 /\ k = b + 1 /\ k # Len(code) THEN LoadAll(Inputs(code, b)) ELSE <<>>

(***************************************************************************)
(* The code with its blocks linked: stores before each branch and loads at *)
(* the start of each block.                                                *)
(***************************************************************************)
LinkBasicBlocks(raw, args) ==
    LET code == WithLabels(raw)
        blocks == SetToSortSeq(Starts(code), <)
        Before(k) == FlattenSeq([j \in DOMAIN blocks |->
                        LoadsBefore(code, blocks[j], k) \o SavesBefore(code, args, blocks[j], k)])
    IN  FlattenSeq([k \in DOMAIN code |-> Before(k) \o <<code[k]>>])

\* All that is ever saved, for the layout of the frame.
Saved(linked) == UNION {Range(linked[k].src) : k \in {j \in DOMAIN linked : linked[j].op = "save"}}
=============================================================================
