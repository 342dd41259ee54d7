----------------------------- MODULE MCRegAlloc -----------------------------
(* Families of programs for the register allocator, on machines with few   *)
(* registers.  The virtual integers are numbered I(1), I(2), ..., after the *)
(* arguments; the virtual reals F(1), F(2), ...                            *)
EXTENDS RegAlloc

I(k) == Virtual("int", k)
F(k) == Virtual("real", k)
A(k) == <<"int", k>>
NoArgs == [int |-> 0, real |-> 0]
Program(c) == [code |-> c, args |-> NoArgs, locals |-> 1]
Do(op, src, dst) == Instr(op, src, dst)
Seqs(S, n) == UNION {[1 .. k -> S] : k \in 0 .. n}

Load(n) == [k \in 1 .. n |-> Do("ldrc", <<>>, <<I(k)>>)]
LoadF(op, n) == [k \in 1 .. n |-> Do(op, <<>>, <<F(k)>>)]
Use(order) == [k \in DOMAIN order |-> Do("str", <<I(order[k])>>, <<>>)]
UseF(op, order) == [k \in DOMAIN order |-> Do(op, <<F(order[k])>>, <<>>)]

(* Straight code: four loads, two instructions, then all are stored.       *)
Ops(d, V) ==
    {Do(op, <<I(a)>>, <<I(d)>>) : op \in {"mov", "mvn"}, a \in V}
    \union {Do(op, <<I(a), I(b)>>, <<I(d)>>) : op \in {"add", "mul"}, a \in V, b \in V}

Others(d) ==
    {Do("ldr", <<I(a)>>, <<I(d)>>) : a \in {1, 4}}
    \union {Do("ldr", <<>>, <<I(d)>>), Do("mrs", <<>>, <<I(d)>>)}
    \union {Do(op, <<I(1), I(b)>>, <<I(d)>>) : op \in {"ldr", "cmov"}, b \in {1, 4}}
    \union {Do("signx", <<I(a)>>, <<I(d)>>) : a \in {1, 4}}
    \union {Do("str", <<I(a), I(b), I(4)>>, <<>>) : a \in {1, 2}, b \in {1, 3}}
    \union {Do("msr", <<I(a)>>, <<>>) : a \in {1, 4}}
    \union {Do("swi", <<A(0), A(1)>>, <<A(0)>>)}

\* A system call takes what was moved to R0 and R1, and returns in R0.
Swi(a, b, d) ==
    <<Do("mov", <<I(a)>>, <<A(0)>>), Do("mov", <<I(b)>>, <<A(1)>>),
      Do("swi", <<A(0), A(1)>>, <<A(0)>>), Do("mov", <<A(0)>>, <<I(d)>>)>>

Straight ==
    {Program(Load(4) \o <<x, y>> \o Use(o)) :
        x \in Ops(5, 1 .. 4), y \in Ops(6, {1, 4, 5}), o \in {<<6, 5, 4, 3, 2, 1>>, <<3, 6, 1>>}}
    \union
    {Program(Load(4) \o <<x>> \o w \o Use(o)) :
        x \in {z \in Others(5) : z.op # "swi"},
        w \in {Swi(1, 2, 6), Swi(4, 1, 6), <<Do("add", <<I(2), I(3)>>, <<I(6)>>)>>},
        o \in {<<6, 4, 3, 2, 1>>, <<3, 6, 1>>}}

(* Every number is loaded and added to, and both are kept.                 *)
Incremented(n) ==
    FlattenSeq([k \in 1 .. n |-> <<Do("ldrc", <<>>, <<I(k)>>), Do("add", <<I(k)>>, <<I(n + k)>>)>>])
        \o Use([k \in 1 .. n |-> 2 * n + 1 - k])
Chains == {Program(Incremented(n)) : n \in 2 .. 8}

(* Shifts by a register, by another one and by the same one.               *)
ShiftBy(P) ==
    {Program(Load(5) \o Use(u) \o <<Do("mov", <<I(p[1]), I(p[2])>>, <<I(6)>>)>> \o Use(o)) :
        p \in P, u \in {<<>>, <<3, 4, 5>>}, o \in {<<6, 5, 4, 3, 2, 1>>, <<6, 1, 2>>, <<6, 3, 4, 5>>}}
Shifts == ShiftBy({p \in (1 .. 4) \X (1 .. 4) : p[1] # p[2]})
SelfShifts == ShiftBy({<<a, a>> : a \in 1 .. 4})

(* Branches: one of two ways, and a loop, over locals that both write.     *)
Step(k) ==
    {Do("add", <<I(a), I(b)>>, <<I(k)>>) : a \in {1, 2}, b \in {1, 3}} \union {Do("ldrc", <<>>, <<I(k)>>)}
Steps == {<<x>> : x \in Step(1) \union Step(3)} \union {<<x, y>> : x \in Step(2), y \in Step(4)}
Cmp(a, b) == Do("cmp", <<I(a), I(b)>>, <<>>)
Conditional(x, y, o) ==
    Load(4) \o <<Cmp(1, 2), BranchIf(1)>> \o x \o <<Branch(2), Label(1)>> \o y \o <<Label(2)>> \o Use(o)
Loop(x, y, o) ==
    Load(4) \o x \o <<Branch(1), Label(1), Cmp(1, 4), BranchIf(2)>> \o y \o <<Branch(1), Label(2)>> \o Use(o)
Branches ==
    {Program(Conditional(x, y, o)) : x \in Steps, y \in Steps, o \in {<<1, 2, 3, 4>>, <<4, 1, 1>>}}
    \union {Program(Loop(x, y, o)) : x \in {<<z>> : z \in Step(1)}, y \in Steps, o \in {<<1, 2, 3, 4>>, <<4, 1, 1>>}}

(* Calls: arguments in R0 and R1 and on the stack, a result or none, while *)
(* other numbers are kept, and a function that has arguments itself.       *)
ToRegisters(args) == [k \in 1 .. Fewer(Len(args), ArgRegs) |-> Do("mov", <<I(args[k])>>, <<A(k - 1)>>)]
ToStack(args) == [k \in 1 .. Rest(Len(args), ArgRegs) |->
                    Push(I(args[Len(args) + 1 - k]), k - 1)]
CallOf(args, result) ==
    ToStack(args) \o ToRegisters(args)
        \o <<Call([k \in 1 .. Fewer(Len(args), ArgRegs) |-> A(k - 1)], IF result = 0 THEN <<>> ELSE <<A(0)>>)>>
        \o (IF result = 0 THEN <<>> ELSE <<Do("mov", <<A(0)>>, <<I(result)>>)>>)
CallsWith(n, lists) ==
    {Program(Load(n) \o CallOf(a, r) \o Use(o)) :
        a \in lists, r \in {0, 6}, o \in {<<1, 2, 3>>, <<n, 2>>, <<>>}}
Calls == CallsWith(3, Seqs(1 .. 3, 4))
FullCalls == CallsWith(4, Seqs(1 .. 4, 2))

WithArguments(n, f) ==
    [code |-> [k \in 1 .. 2 |-> Do("add", <<I(k - 1), I(n - k)>>, <<I(n + k)>>)]
                \o CallOf(<<0, n + 1>>, n + 3)
                \o <<Cmp(0, n - 1), BranchIf(1)>> \o Use(<<n + 1, n + 3>>) \o <<Label(1)>>
                \o Use([k \in 1 .. n |-> k - 1])
                \o [k \in 1 .. f |-> Do("stf", <<F(k - 1), I(0)>>, <<>>)],
     args |-> [int |-> n, real |-> f], locals |-> 2]
Functions == {WithArguments(n, f) : n \in 2 .. 5, f \in 0 .. 4}

(* Reals: four of them and two addresses, an instruction on reals, one     *)
(* between the two classes, then all are stored.                           *)
Addresses == <<Do("ldrc", <<>>, <<I(1)>>), Do("ldrc", <<>>, <<I(2)>>)>>
Keep(op, o) == [k \in DOMAIN o |-> Do(op, <<F(o[k]), I(1)>>, <<>>)] \o Use(<<2, 1>>)
Orders == {<<6, 5, 4, 3, 2, 1>>, <<3, 6, 1>>, <<2, 5>>}

FpaOn(d) ==
    {Do(op, <<F(a)>>, <<F(d)>>) : op \in {"mvf", "mnf"}, a \in {1, 4}}
    \union {Do("adf", <<F(a), F(b)>>, <<F(d)>>) : a \in {1, 4}, b \in {1, 3, 4}}
FpaBetween(d) ==
    {<<Do("ldf", <<I(a)>>, <<F(d)>>)>> : a \in 1 .. 2}
    \union {<<Do("fix", <<F(a)>>, <<I(3)>>), Do("flt", <<I(3)>>, <<F(d)>>)>> : a \in {1, 4, 5}}
    \union {<<Do("ldfc", <<>>, <<F(d)>>), Do("wfs", <<I(2)>>, <<>>)>>}
    \union {<<Do("cmf", <<F(a), F(b)>>, <<>>), BranchIf(1), Do("mvf", <<F(a)>>, <<F(d)>>),
              Branch(2), Label(1), Do("mnf", <<F(b)>>, <<F(d)>>), Label(2)>> : a \in {1, 5}, b \in {2, 4}}
Fpa == {Program(Addresses \o LoadF("ldfc", 4) \o <<x>> \o y \o Keep("stf", o)) :
          x \in FpaOn(5), y \in FpaBetween(6), o \in Orders}

\* The sum that a product is added to is copied to the destination first.
VfpOn(d) ==
    {<<Do(op, <<F(a)>>, <<F(d)>>)>> : op \in {"fcpyd", "fnegd", "fsqrtd"}, a \in {1, 4}}
    \union {<<Do("faddd", <<F(a), F(b)>>, <<F(d)>>)>> : a \in {1, 4}, b \in {1, 3, 4}}
    \union {<<Do("fcpyd", <<F(c)>>, <<F(d)>>), Do("fmacd", <<F(a), F(b)>>, <<F(d)>>)>> :
              a \in {1, 4}, b \in {1, 3, 4}, c \in {2, 4}}
VfpBetween(d) ==
    {<<Do("fldd", <<I(a)>>, <<F(d)>>)>> : a \in 1 .. 2}
    \union {<<Do("fmrs", <<F(a)>>, <<I(3)>>), Do("fmsr", <<I(3)>>, <<F(7)>>),
              Do("fsitod", <<F(7)>>, <<F(d)>>)>> : a \in {1, 4, 5}}
    \union {<<Do("fmrrd", <<F(a)>>, <<I(3), I(4)>>), Do("cmov", <<I(3), I(4)>>, <<I(5)>>),
              Do("fldd", <<I(5)>>, <<F(d)>>)>> : a \in {1, 4, 5}}
    \union {<<Do("flddc", <<>>, <<F(d)>>), Do("fmrx", <<>>, <<I(3)>>), Do("fmxr", <<I(3)>>, <<>>)>>}
    \union {<<Do("fcmpd", <<F(a), F(b)>>, <<>>), BranchIf(1), Do("fcpyd", <<F(a)>>, <<F(d)>>),
              Branch(2), Label(1), Do("fnegd", <<F(b)>>, <<F(d)>>), Label(2)>> : a \in {1, 5}, b \in {2, 4}}
Vfp == {Program(Addresses \o LoadF("flddc", 4) \o x \o y \o Keep("fstd", o)) :
          x \in VfpOn(5), y \in VfpBetween(6), o \in Orders}

Families == Straight \union Branches \union Fpa \union Vfp \union Calls \union Functions
=============================================================================
