------------------------------- MODULE ArmPool -------------------------------
(***************************************************************************)
(* Constant pools, branches and the linker (arch/arm32/arm_encode.c,        *)
(* arm_link.c).  The encoder walks the instructions of every section of a   *)
(* program.  A load of a constant is a load relative to the program counter *)
(* whose offset is filled in when the pool with the constant is written:    *)
(* at the end of the section, or before an instruction that would bring the *)
(* pool out of reach, behind a branch that skips it.  Branches to labels    *)
(* are patched at the end of the section; calls, and the distances to other *)
(* sections and to the constant data at the end, by the linker.             *)
(*                                                                         *)
(* The code is a sequence of items with their addresses: a word with the    *)
(* offset that is or-ed into it, or some bytes.                             *)
(***************************************************************************)
EXTENDS Integers, Sequences, SequencesExt

CONSTANTS
    Programs,       \* sequences of sections, which are sequences of operations
    RawSizes,       \* the sizes of the constant data, in bytes
    IntLimit,       \* how far a load of an integer reaches
    RealLimit       \* how far a load of a real reaches

VARIABLES
    prog,           \* the program
    sec,            \* the section that is encoded, beyond the last one when linked
    next,           \* the next operation of the section
    e               \* the state of the encoder

vars == <<prog, sec, next, e>>

None == -1

-----------------------------------------------------------------------------
(* The encoder *)

\* A word for an operation, or a part of a pool.
Item(kind, at, n, arg) ==
    [kind |-> kind, at |-> at, sec |-> sec, op |-> n, arg |-> arg, off |-> 0]

AddItem(s, item, size) == [s EXCEPT !.code = Append(@, item), !.bytes = @ + size]
Fail(s) == [s EXCEPT !.failed = TRUE]
AddWord(s, kind, n, arg) ==
    IF s.bytes % 4 # 0 THEN Fail(s) ELSE AddItem(s, Item(kind, s.bytes, n, arg), 4)

\* The word at address a gets off.
Patch(s, a, off) ==
    [s EXCEPT !.code = [k \in DOMAIN @ |-> IF @[k].at = a THEN [@[k] EXCEPT !.off = @ + off] ELSE @[k]]]

EncodeLabel(s, label) == [s EXCEPT !.labels = [l \in DOMAIN @ \cup {label} |-> IF l = label THEN s.bytes ELSE @[l]]]

ResetPool(s) == [s EXCEPT !.consts = <<>>, !.ldrcReal = None, !.ldrcInt = None]

\* The constant of a pending load: a number, a place the linker fills in, a double.
PlaceConstant(s, c) ==
    LET t == EncodeLabel(s, c.label)
    IN  CASE c.kind = "load" -> AddWord(t, "pool", 0, <<c.label, 1>>)
          [] c.kind = "loadlink" ->
                AddWord([t EXCEPT !.linkConsts = Append(@, [index |-> c.index, at |-> s.bytes, code |-> c.at])],
                        "pool", 0, <<c.label, 1>>)
          [] c.kind = "loadsec" ->
                AddWord([t EXCEPT !.extRefs = Append(@, [index |-> c.index, at |-> s.bytes, code |-> c.at])],
                        "pool", 0, <<c.label, 1>>)
          [] c.kind = "loadreal" -> AddWord(AddWord(t, "pool", 0, <<c.label, 1>>), "pool", 0, <<c.label, 2>>)

\* The source allows one step more than fits the field.
ApplyConstant(s, c) ==
    LET dist == s.labels[c.label] - c.at - 8
    IN  IF dist > (IF c.kind = "loadreal" THEN RealLimit ELSE IntLimit) THEN Fail(s)
        ELSE Patch(s, c.at, IF c.kind = "loadreal" THEN dist \div 4 ELSE dist)

FlushConstants(s) ==
    ResetPool(FoldLeft(ApplyConstant, FoldLeft(PlaceConstant, s, s.consts), s.consts))

PoolSize(s) ==
    FoldLeft(LAMBDA n, c : n + IF c.kind = "loadreal" THEN 8 ELSE 4, 0, s.consts)

AddBackPatch(s, type, label, at) == [s EXCEPT !.patches = Append(@, [type |-> type, label |-> label, at |-> at])]

\* Mutant: the size of the pool is not counted.
PoolNeededUncounted(s, adj) ==
    LET end == s.bytes + adj
    IN  \/ s.ldrcReal # None /\ end - s.ldrcReal >= RealLimit - 4
        \/ s.ldrcInt # None /\ end - s.ldrcInt >= IntLimit - 4

\* A pool with adj more bytes of code before it would be too far from the first load.
PoolNeeded(s, adj) ==
    LET end == PoolSize(s) + s.bytes + adj
    IN  \/ s.ldrcReal # None /\ end - s.ldrcReal >= RealLimit - 4
        \/ s.ldrcInt # None /\ end - s.ldrcInt >= IntLimit - 4

CheckPoolAdj(s, adj) ==
    IF ~PoolNeeded(s, adj) THEN s
    ELSE LET skipped == FlushConstants(AddWord(AddBackPatch(s, "branch", s.maxLabel, s.bytes), "skip", 0, s.maxLabel))
         IN  [EncodeLabel(skipped, s.maxLabel) EXCEPT !.maxLabel = @ + 1]

EncodeWord(s, kind, n, arg) == AddWord(CheckPoolAdj(s, 0), kind, n, arg)

\* The bytes that may follow before the next test: the constant, the load, and an
\* addition that uses the program counter as the load does.
AdjOf(kind) == CASE kind = "load" -> 8 [] kind \in {"loadlink", "loadsec", "loadreal"} -> 12

EncodeLoad(s, kind, n, label, index) ==
    LET t == CheckPoolAdj(s, AdjOf(kind))
        added == [t EXCEPT !.consts = Append(@, [kind |-> kind, label |-> label, index |-> index, at |-> t.bytes]),
                           !.ldrcReal = IF kind = "loadreal" /\ @ = None THEN t.bytes ELSE @,
                           !.ldrcInt = IF kind # "loadreal" /\ @ = None THEN t.bytes ELSE @]
    IN  EncodeWord(added, kind, n, <<label, index>>)

\* The patch of an address is recorded before the test for a pool.
EncodeAdr(s, n, label) == EncodeWord(AddBackPatch(s, "adr", label, s.bytes), "adr", n, label)

EncodeBranch(s, n, label) ==
    LET t == CheckPoolAdj(s, 0) IN AddWord(AddBackPatch(t, "branch", label, t.bytes), "branch", n, label)
EncodeCall(s, n, section) ==
    LET t == CheckPoolAdj(s, 0) IN AddWord([t EXCEPT !.externals = Append(@, t.bytes)], "call", n, section)

\* A conditional move is a comparison and two moves.
EncodeCmov(s, n) == EncodeWord(EncodeWord(EncodeWord(s, "plain", n, 0), "plain", 0, 0), "plain", 0, 0)

AddBytes(s, size) == IF size = 0 THEN s ELSE AddItem(s, Item("bytes", s.bytes, 0, size), size)
AlignTo(s, n) == AddBytes(s, (-s.bytes) % n)

BranchLimit == 2 ^ 23

\* A byte, shifted by an even number of bits.
Encodable(n) == \E k \in 0 .. 12 : n % 4 ^ k = 0 /\ n \div 4 ^ k < 256

\* A distance to the back is subtracted.
ApplyBackPatch(s, p) ==
    LET dist == s.labels[p.label] - p.at
    IN  IF p.type = "branch"
        THEN IF dist \in -BranchLimit .. BranchLimit THEN Patch(s, p.at, (dist - 8) \div 4) ELSE Fail(s)
        ELSE IF Encodable(IF dist < 8 THEN 8 - dist ELSE dist - 8) THEN Patch(s, p.at, dist - 8) ELSE Fail(s)

FinishSection(s) == AlignTo(FoldLeft(ApplyBackPatch, FlushConstants(s), FlushConstants(s).patches), 4)

-----------------------------------------------------------------------------
(* The linker *)

PlaceRaw(s, size) == AddBytes([s EXCEPT !.raws = Append(@, s.bytes)], 4 * ((size + 3) \div 4))

LinkCall(s, at) ==
    LET call == CHOOSE k \in DOMAIN s.code : s.code[k].at = at
    IN  Patch(s, at, (s.sections[s.code[call].arg] - (at + 8)) \div 4)
LinkConstant(s, c) == Patch(s, c.at, s.raws[c.index] - c.code - 12)
LinkExtRef(s, c) == Patch(s, c.at, s.sections[c.index] - c.code - 12)

Link(s) ==
    LET t == FoldLeft(PlaceRaw, s, RawSizes)
    IN  FoldLeft(LinkExtRef, FoldLeft(LinkConstant, FoldLeft(LinkCall, t, t.externals), t.linkConsts), t.extRefs)

-----------------------------------------------------------------------------
Op == prog[sec][next]
Encoding == sec <= Len(prog)

\* The walk over the operations of a section.
Walk(kind, New(_)) ==
    /\ Encoding /\ ~e.failed
    /\ next <= Len(prog[sec])
    /\ Op.kind = kind
    /\ e' = New(e)
    /\ next' = next + 1
    /\ UNCHANGED <<prog, sec>>

Instr == Walk("plain", LAMBDA s : EncodeWord(s, "plain", next, 0))
Ldrc == Walk("load", LAMBDA s : EncodeLoad(s, "load", next, Op.arg, 0))
LdrcLink == Walk("loadlink", LAMBDA s : EncodeLoad(s, "loadlink", next, Op.label, Op.arg))
Ldrp == Walk("loadsec", LAMBDA s : EncodeLoad(s, "loadsec", next, Op.label, Op.arg))
RealLdrc == Walk("loadreal", LAMBDA s : EncodeLoad(s, "loadreal", next, Op.arg, 0))
Adr == Walk("adr", LAMBDA s : EncodeAdr(s, next, Op.arg))
Br == Walk("branch", LAMBDA s : EncodeBranch(s, next, Op.arg))
Bl == Walk("call", LAMBDA s : EncodeCall(s, next, Op.arg))
Cmov == Walk("cmov", LAMBDA s : EncodeCmov(s, next))
Label == Walk("label", LAMBDA s : EncodeLabel(s, Op.arg))
Bytes == Walk("bytes", LAMBDA s : AddBytes(s, Op.arg))
Align == Walk("align", LAMBDA s : AlignTo(s, Op.arg))

\* Labels of a section begin anew; those of pools are above the others.
NewSection(s) ==
    ResetPool([s EXCEPT !.sections = Append(@, s.bytes), !.labels = <<>>, !.maxLabel = 100, !.patches = <<>>])

EndSection ==
    /\ Encoding /\ ~e.failed
    /\ next > Len(prog[sec])
    /\ e' = IF sec = Len(prog) THEN Link(FinishSection(e)) ELSE NewSection(FinishSection(e))
    /\ sec' = sec + 1
    /\ next' = 1
    /\ UNCHANGED prog

Init ==
    /\ prog \in Programs
    /\ sec = 1
    /\ next = 1
    /\ e = [code |-> <<>>, bytes |-> 0, consts |-> <<>>, ldrcReal |-> None, ldrcInt |-> None,
            labels |-> <<>>, maxLabel |-> 100, patches |-> <<>>, externals |-> <<>>, linkConsts |-> <<>>,
            extRefs |-> <<>>, sections |-> <<0>>, raws |-> <<>>, failed |-> FALSE]

Next ==
    \/ Instr \/ Ldrc \/ LdrcLink \/ Ldrp \/ RealLdrc \/ Adr \/ Br \/ Bl \/ Cmov \/ Label \/ Bytes \/ Align
    \/ EndSection

Spec == Init /\ [][Next]_vars

-----------------------------------------------------------------------------
(* What the processor does with the code *)

Items == {e.code[k] : k \in DOMAIN e.code}
At(a) == {i \in Items : i.at = a /\ i.kind # "bytes"}
InstrAt(n, s) == {i \in Items : i.op = n /\ i.sec = s}
Executed(k) == e.code[k].kind \notin {"pool", "skip", "bytes"}

\* Execution that comes to address a goes on at address b.
Continues(a, b) == a = b \/ \E i \in At(a) : i.kind = "skip" /\ a + 8 + 4 * i.off = b

\* The first instruction after operation n of section s.
IsInstr(o) == o.kind \notin {"label", "bytes", "align"}
After(n, s) == {k \in n + 1 .. Len(prog[s]) : IsInstr(prog[s][k])}
Successor(n, s) == CHOOSE k \in After(n, s) : \A j \in After(n, s) : k <= j
LabelOp(label, s) == CHOOSE k \in DOMAIN prog[s] : prog[s][k].kind = "label" /\ prog[s][k].arg = label
Comes(a, n, s) == \E j \in InstrAt(Successor(n, s), s) : Continues(a, j.at)

\* The load i reads its own constant.
Reads(i) ==
    LET dist == IF i.kind = "loadreal" THEN 4 * i.off ELSE i.off
    IN  /\ dist \in 0 .. (IF i.kind = "loadreal" THEN RealLimit ELSE IntLimit) - 1
        /\ \E p \in At(i.at + 8 + dist) : p.kind = "pool" /\ p.sec = i.sec /\ p.arg = <<i.arg[1], 1>>

\* The load of a distance and the addition of the program counter after it make the
\* address a.
Reaches(i, a) ==
    \A p \in At(i.at + 8 + i.off), j \in InstrAt(i.op + 1, i.sec) : j.at + 8 + p.off = a

Right(i) ==
    CASE i.kind \in {"load", "loadreal"} -> Reads(i)
      [] i.kind = "loadlink" -> Reads(i) /\ Reaches(i, e.raws[i.arg[2]])
      [] i.kind = "loadsec" -> Reads(i) /\ Reaches(i, e.sections[i.arg[2]])
      [] i.kind = "branch" -> Comes(i.at + 8 + 4 * i.off, LabelOp(i.arg, i.sec), i.sec)
      [] i.kind = "adr" -> Comes(i.at + 8 + i.off, LabelOp(i.arg, i.sec), i.sec)
      [] i.kind = "call" -> Comes(i.at + 8 + 4 * i.off, 0, i.arg)
      [] OTHER -> TRUE

\* From a word that is executed to the next, unless there are bytes after it.
FlowsOn(k) ==
    LET later == {j \in k + 1 .. Len(e.code) : Executed(j)}
        j == CHOOSE j \in later : \A i \in later : j <= i
    IN  \/ later = {}
        \/ e.code[j].sec # e.code[k].sec
        \/ \E i \in k .. j : e.code[i].kind = "bytes"
        \/ Continues(e.code[k].at + 4, e.code[j].at)

\* In a program that has been linked every load of a constant reads its constant,
\* within the reach of the instruction; a load of a distance and the addition to the
\* program counter are not parted; branches, calls and addresses come to the
\* operation they name; and the processor never runs into a pool.
PoolsReach ==
    /\ ~e.failed
    /\ ~Encoding => /\ \A i \in Items : i.op # 0 => Right(i)
                    /\ \A k \in DOMAIN e.code : Executed(k) => FlowsOn(k)

=============================================================================
