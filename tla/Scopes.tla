------------------------------- MODULE Scopes -------------------------------
(***************************************************************************)
(* The scope, error and cleanup protocol of a compiled Subtilis program:   *)
(* what the code that frontend/parser_*.c, expression.c, reference_type.c  *)
(* and string_type.c emit does at run time with the references a program   *)
(* holds.                                                                  *)
(*                                                                         *)
(* A variable or temporary of a reference type (a string, here) is a slot  *)
(* of its procedure's frame.  Code that initialises a slot pushes the      *)
(* slot's address on the machine stack and adds 1 to the procedure's       *)
(* cleanup counter; the end of a block pops one entry per symbol the       *)
(* symbol table holds for its level, and the end of a procedure pops as    *)
(* many as the counter says.  Every pop drops the reference the slot holds *)
(* at that moment.  Errors jump to the label at the head of the            *)
(* compile-time handler list, or set the error flag and unwind the         *)
(* procedure.                                                              *)
(*                                                                         *)
(* The program is not fixed: every step runs the code of one more          *)
(* statement the grammar and the compiler allow at that place, so a frame  *)
(* also holds the compile-time state of the place it has reached (levels   *)
(* of the symbol table, handler list, in_error_handler).                   *)
(***************************************************************************)
EXTENDS Integers, Sequences, FiniteSets, SequencesExt

CONSTANTS
    Blocks,     \* blocks of the heap
    Empty,      \* a slot of size 0: it holds no reference
    Wild,       \* a slot whose size is set and whose heap pointer is no block
    MaxFrames,  \* bound: calls in progress
    MaxLevel,   \* bound: nested blocks of a procedure (p->level)
    MaxSlots,   \* bound: slots of a frame, and entries on its cleanup stack
    Programs    \* for each kind of program, the statements below that it uses

(***************************************************************************)
(* Six kinds of statements the compiler translates into code that breaks   *)
(* the protocol.  A program that uses none of them, {}, is sound.          *)
(*   "RefInTry"     a statement that may fail, after a TRY block has       *)
(*                  initialised a reference                                *)
(*   "HandlerTry"   ERROR inside a TRY inside an error handler             *)
(*   "SelfAssign"   x$ = x$                                                *)
(*   "AssignFails"  running out of memory in x$ = "constant"               *)
(*   "EmptySlice"   LEFT$(x$, 0) and its like                              *)
(*   "LoopCall"     a loop condition that makes a temporary reference      *)
(***************************************************************************)
FaultyStatements ==
    {"RefInTry", "HandlerTry", "SelfAssign", "AssignFails", "EmptySlice", "LoopCall"}

ASSUME ScopesAssumption ==
    /\ Empty \notin Blocks /\ Wild \notin Blocks /\ Empty # Wild
    /\ MaxFrames \in Nat \ {0}
    /\ MaxLevel \in Nat
    /\ MaxSlots \in Nat \ {0}
    /\ Programs \subseteq SUBSET FaultyStatements

VARIABLES
    frames, \* the procedures in progress, main first
    count,  \* reference counts of the blocks, 0 when free
    eflag,  \* the error flag
    ctl,    \* what the machine does: [op, left]
    ret,    \* the reference a function returns (ret_reg), while it unwinds
    uses    \* the statements of FaultyStatements the program uses; it stays

vars == <<frames, count, eflag, ctl, ret, uses>>

Slots == 1 .. MaxSlots
Values == Blocks \cup {Empty, Wild}

Run      == [op |-> "run", left |-> 0]     \* at the start of a statement
Unwind   == [op |-> "unwind", left |-> 0]  \* at end_label
Ended    == [op |-> "ended", left |-> 0]   \* main has reached its leak check
Asserted == [op |-> "assert", left |-> 0]  \* SUBTILIS_ERROR_ASSERTION
Leave(n) == [op |-> "leave", left |-> n] \* n entries to pop at the end of a block

-----------------------------------------------------------------------------
(* common/ir.c: the handler list, innermost level first *)

\* Mutant: the handler of the level that ends stays.
HandlerListTruncateKeepsOne(list, level) ==
    LET i == SelectInSeq(list, LAMBDA h : h.level <= level + 1)
    IN  IF i = 0 THEN <<>> ELSE SubSeq(list, i, Len(list))

HandlerListTruncate(list, level) ==
    LET i == SelectInSeq(list, LAMBDA h : h.level <= level)
    IN  IF i = 0 THEN <<>> ELSE SubSeq(list, i, Len(list))

HandlerListUpdate(list, level, label) ==
    LET h == [level |-> level, label |-> label]
    IN  IF list = <<>> \/ level > Head(list).level
          THEN <<h>> \o list
          ELSE [list EXCEPT ![1] = [@ EXCEPT !.label = label]]

-----------------------------------------------------------------------------
(* Frames *)

\* A level of the symbol table; a loop remembers where its body's slots start
\* and, when its condition makes a temporary, the slot of that (cond).
Block(kind, start) == [kind |-> kind, syms |-> <<>>, start |-> start, cond |-> 0]

\* prv_def_internal before the parameters; the locals are zeroed by the call.
NewFrame(kind) ==
    [kind |-> kind, blocks |-> <<Block("body", 1)>>,
     slots |-> [s \in Slots |-> Empty], next |-> 1, limit |-> MaxSlots,
     entries |-> <<>>, counter |-> 0,
     handlers |-> <<>>, inHandler |-> FALSE]

Top == frames[Len(frames)]
WithTop(f) == [frames EXCEPT ![Len(frames)] = f]

Level(f) == Len(f.blocks) - 1
Innermost(f) == Last(f.blocks)
Symbols(f) == UNION {ToSet(f.blocks[i].syms) : i \in DOMAIN f.blocks}
TryLevels(f) == {i \in DOMAIN f.blocks : f.blocks[i].kind = "try"}

\* Within the bounds, a statement may declare a reference or make a temporary.
Room(f) == f.next <= f.limit /\ f.counter < MaxSlots

\* A new symbol at the current level of the symbol table, and its slot.
Insert(f, v) ==
    [f EXCEPT !.slots[f.next] = v,
              !.next = @ + 1,
              !.blocks[Len(f.blocks)].syms = Append(@, f.next)]

\* subtilis_reference_type_push_reference
PushReference(f, s) ==
    [f EXCEPT !.entries = Append(@, s), !.counter = @ + 1]

NewRef(f, v) == PushReference(Insert(f, v), f.next)

\* The references a statement can name: its own, and those of main's level 0.
Names ==
    {<<Len(frames), s>> : s \in Symbols(Top)} \cup
    {<<1, s>> : s \in ToSet(frames[1].blocks[1].syms)}

Value(x) == frames[x[1]].slots[x[2]]

-----------------------------------------------------------------------------
(* Reference counts: REF and DEREF, and the assertions of frontend/vm.c *)

InUse(v) == v \in Blocks /\ count[v] > 0
Valid(v) == v = Empty \/ InUse(v)

\* REF and DEREF of a slot are skipped when its size is 0.
Add(cnt, v, n) == IF v = Empty THEN cnt ELSE [cnt EXCEPT ![v] = @ + n]

Crash == ctl' = Asserted /\ UNCHANGED <<frames, count, eflag, ret>>

\* ALLOC, when there is a block left.
Fresh(b) == b \in Blocks /\ count[b] = 0

-----------------------------------------------------------------------------
(* Errors *)

(***************************************************************************)
(* Control arrives at a handler: the code there was compiled in the scope  *)
(* of its TRY or ONERROR.  The entries of the scopes it leaves stay.       *)
(***************************************************************************)
AtHandler(f) ==
    LET label == Head(f.handlers).label
    IN  CASE label.kind = "try" ->
               [f EXCEPT !.blocks = label.blocks, !.handlers = label.handlers]
          [] label.kind = "onerror" ->
               [f EXCEPT !.blocks = Append(label.blocks, Block("handler", label.next)),
                         !.handlers = label.handlers,
                         !.inHandler = TRUE,
                         !.next = label.next,
                         !.limit = label.next]

\* Mutant: a handler does not clear the flag.
HandleErrorsKeepsFlag(fs, f) ==
    /\ ret' = Empty
    /\ eflag' = TRUE
    /\ IF f.handlers # <<>>
         THEN frames' = [fs EXCEPT ![Len(fs)] = AtHandler(f)] /\ ctl' = Run
         ELSE frames' = fs /\ ctl' = Unwind

\* subtilis_exp_handle_errors, the flag being set, with f the current frame
\* of fs; the code of a handler starts by clearing the flag.
HandleErrors(fs, f) ==
    /\ ret' = Empty
    /\ IF f.handlers # <<>>
         THEN /\ frames' = [fs EXCEPT ![Len(fs)] = AtHandler(f)]
              /\ eflag' = FALSE
              /\ ctl' = Run
         ELSE /\ frames' = fs
              /\ eflag' = TRUE
              /\ ctl' = Unwind

(***************************************************************************)
(* Where the program may have a statement that can fail.  Implicit errors  *)
(* are refused in a handler outside a TRY.                                 *)
(***************************************************************************)
NothingToLose(f) ==
    TryLevels(f) # {} /\ "RefInTry" \notin uses
      => \A i \in Max(TryLevels(f)) .. Len(f.blocks) : f.blocks[i].syms = <<>>

MayFail(f) == (f.inHandler => TryLevels(f) # {}) /\ NothingToLose(f)

-----------------------------------------------------------------------------
(* Statements *)

\* LOCAL x$
DeclareEmpty ==
    /\ ctl = Run /\ Room(Top)
    /\ frames' = WithTop(NewRef(Top, Empty))
    /\ UNCHANGED <<count, eflag, ctl, ret>>

\* Mutant: the copy takes no reference.
DeclareCopyNoRef(y) ==
    /\ ctl = Run /\ Room(Top)
    /\ IF Valid(Value(y))
         THEN /\ frames' = WithTop(NewRef(Top, Value(y)))
              /\ UNCHANGED <<count, eflag, ctl, ret>>
         ELSE Crash

\* LOCAL x$ = y$ (subtilis_reference_type_new_ref)
DeclareCopy(y) ==
    /\ ctl = Run /\ Room(Top)
    /\ IF Valid(Value(y))
         THEN /\ frames' = WithTop(NewRef(Top, Value(y)))
              /\ count' = Add(count, Value(y), 1)
              /\ UNCHANGED <<eflag, ctl, ret>>
         ELSE Crash

\* LOCAL x$ = "constant" (subtilis_string_init_from_lca)
DeclareConst(b) ==
    /\ ctl = Run /\ Room(Top) /\ MayFail(Top) /\ Fresh(b)
    /\ frames' = WithTop(NewRef(Top, b))
    /\ count' = [count EXCEPT ![b] = 1]
    /\ UNCHANGED <<eflag, ctl, ret>>

\* The same, when ALLOC fails: nothing has been pushed yet.
DeclareFails ==
    /\ ctl = Run /\ Room(Top) /\ MayFail(Top)
    /\ HandleErrors(frames, Top)
    /\ UNCHANGED count

\* x$ = y$ (subtilis_string_type_assign_ref): DEREF the old value, REF the new.
AssignVar(x, y) ==
    LET left == Add(count, Value(x), -1)
    IN  /\ ctl = Run
        /\ x # y \/ "SelfAssign" \in uses
        /\ IF Valid(Value(x)) /\ (Value(y) = Empty \/ (InUse(Value(y)) /\ left[Value(y)] > 0))
             THEN /\ count' = Add(left, Value(y), 1)
                  /\ frames' = [frames EXCEPT ![x[1]].slots[x[2]] = Value(y)]
                  /\ UNCHANGED <<eflag, ctl, ret>>
             ELSE Crash

\* x$ = "" (subtilis_string_type_zero_ref): nothing to allocate.
AssignEmpty(x) ==
    /\ ctl = Run
    /\ IF Valid(Value(x))
         THEN /\ count' = Add(count, Value(x), -1)
              /\ frames' = [frames EXCEPT ![x[1]].slots[x[2]] = Empty]
              /\ UNCHANGED <<eflag, ctl, ret>>
         ELSE Crash

\* x$ = "constant": DEREF the old value, then ALLOC, which may reuse its block.
AssignConst(x, b) ==
    /\ ctl = Run /\ MayFail(Top)
    /\ IF Valid(Value(x))
         THEN LET left == Add(count, Value(x), -1)
              IN  /\ left[b] = 0
                  /\ count' = [left EXCEPT ![b] = 1]
                  /\ frames' = [frames EXCEPT ![x[1]].slots[x[2]] = b]
                  /\ UNCHANGED <<eflag, ctl, ret>>
         ELSE Crash

\* The same, when ALLOC fails: the size is stored before, the pointer is not.
AssignFails(x) ==
    LET stored == [frames EXCEPT ![x[1]].slots[x[2]] = IF @ = Empty THEN Wild ELSE @]
    IN  /\ "AssignFails" \in uses
        /\ ctl = Run /\ MayFail(Top)
        /\ IF Valid(Value(x))
             THEN /\ count' = Add(count, Value(x), -1)
                  /\ HandleErrors(stored, Last(stored))
             ELSE Crash

\* The temporary of LEFT$(y$, 0): a symbol, and no entry on the stack
\* (subtilis_string_init_from_ptr).
EmptySlice ==
    /\ "EmptySlice" \in uses
    /\ ctl = Run /\ Room(Top)
    /\ frames' = WithTop(Insert(Top, Empty))
    /\ UNCHANGED <<count, eflag, ctl, ret>>

\* A call without a reference parameter; a function's result needs a slot.
Call(kind) ==
    /\ ctl = Run /\ Len(frames) < MaxFrames
    /\ MayFail(Top)
    /\ kind = "fn" => Room(Top)
    /\ frames' = Append(frames, NewFrame(kind))
    /\ UNCHANGED <<count, eflag, ctl, ret>>

\* A call with one: the callee copies it (subtilis_reference_type_copy_ref).
CallWith(kind, x) ==
    /\ ctl = Run /\ Len(frames) < MaxFrames
    /\ MayFail(Top)
    /\ kind = "fn" => Room(Top)
    /\ IF Valid(Value(x))
         THEN /\ frames' = Append(frames, NewRef(NewFrame(kind), Value(x)))
              /\ count' = Add(count, Value(x), 1)
              /\ UNCHANGED <<eflag, ctl, ret>>
         ELSE Crash

\* ENDPROC, anywhere in a procedure
EndProc ==
    /\ ctl = Run /\ Top.kind = "proc"
    /\ ctl' = Unwind
    /\ UNCHANGED <<frames, count, eflag, ret>>

\* Mutant: the result is returned without a reference of its own.
ReturnNoRef(x) ==
    /\ ctl = Run /\ Top.kind = "fn"
    /\ IF Valid(Value(x))
         THEN /\ ret' = Value(x)
              /\ ctl' = Unwind
              /\ UNCHANGED <<frames, count, eflag>>
         ELSE Crash

\* <- x$, anywhere in a function (subtilis_reference_type_assign_to_reg)
Return(x) ==
    /\ ctl = Run /\ Top.kind = "fn"
    /\ IF Valid(Value(x))
         THEN /\ ret' = Value(x)
              /\ count' = Add(count, Value(x), 1)
              /\ ctl' = Unwind
              /\ UNCHANGED <<frames, eflag>>
         ELSE Crash

\* The last statement of main
EndMain ==
    /\ ctl = Run /\ Top.kind = "main" /\ Level(Top) = 0
    /\ ctl' = Unwind
    /\ UNCHANGED <<frames, count, eflag, ret>>

\* IF ... THEN, a loop, and TRY, which also puts its label in the list.
EnterBlock(kind) ==
    LET f == [Top EXCEPT !.blocks = Append(@, Block(kind, Top.next))]
        label == [kind |-> "try", blocks |-> Top.blocks, next |-> Top.next,
                  handlers |-> HandlerListTruncate(Top.handlers, Level(Top))]
    IN  /\ ctl = Run /\ Level(Top) < MaxLevel
        /\ frames' = WithTop(
               IF kind = "try"
                 THEN [f EXCEPT !.handlers = HandlerListUpdate(@, Level(f), label)]
                 ELSE f)
        /\ UNCHANGED <<count, eflag, ctl, ret>>

\* WHILE FNf$ = ...: the condition's temporary is a symbol of the level outside
\* the loop, and the code that evaluates it runs once per iteration.
EnterWhile(b) ==
    LET f == NewRef(Top, b)
    IN  /\ "LoopCall" \in uses
        /\ ctl = Run /\ Level(Top) < MaxLevel /\ Room(Top) /\ MayFail(Top) /\ Fresh(b)
        /\ frames' = WithTop([f EXCEPT !.blocks =
               Append(@, [Block("loop", f.next) EXCEPT !.cond = Top.next])])
        /\ count' = [count EXCEPT ![b] = 1]
        /\ UNCHANGED <<eflag, ctl, ret>>

\* ONERROR: not in a handler, not in a TRY.  The slot of the one reference the
\* handler may use is set aside; a list entry of this level is replaced.
OnError ==
    LET label == [kind |-> "onerror", blocks |-> Top.blocks, next |-> Top.next,
                  handlers |-> Top.handlers]
    IN  /\ ctl = Run /\ Room(Top)
        /\ ~Top.inHandler /\ TryLevels(Top) = {}
        /\ frames' = WithTop([Top EXCEPT
               !.handlers = HandlerListUpdate(@, Level(Top), label),
               !.next = @ + 1])
        /\ UNCHANGED <<count, eflag, ctl, ret>>

\* ERROR n (subtilis_exp_generate_error): a handler ends with its procedure.
RaiseError ==
    /\ ctl = Run
    /\ IF Top.inHandler
         THEN /\ TryLevels(Top) = {} \/ "HandlerTry" \in uses
              /\ eflag' = TRUE
              /\ ctl' = Unwind
              /\ ret' = Empty
              /\ UNCHANGED frames
         ELSE /\ NothingToLose(Top)
              /\ HandleErrors(frames, Top)
    /\ UNCHANGED count

\* The end of a block: one entry to pop per symbol of its level
\* (subtilis_reference_deallocate_refs).
EndBlock ==
    /\ ctl = Run /\ Level(Top) > 0
    /\ ctl' = Leave(Len(Innermost(Top).syms))
    /\ UNCHANGED <<frames, count, eflag, ret>>

-----------------------------------------------------------------------------
(* The machine: code that runs without a statement of the program *)

\* Mutant: the counter stays as it was.
PopUncounted ==
    /\ \/ ctl.op = "leave" /\ ctl.left > 0
       \/ ctl.op = "unwind" /\ Top.counter # 0
    /\ IF Top.entries # <<>> /\ Valid(Top.slots[Last(Top.entries)])
         THEN /\ count' = Add(count, Top.slots[Last(Top.entries)], -1)
              /\ frames' = WithTop([Top EXCEPT !.entries = Front(@)])
              /\ ctl' = IF ctl.op = "leave" THEN Leave(ctl.left - 1) ELSE ctl
              /\ UNCHANGED <<eflag, ret>>
         ELSE Crash

(***************************************************************************)
(* subtilis_reference_type_pop_and_deref, at the end of a block or of a    *)
(* procedure.  With no entry left the pop reads the saved registers of the *)
(* caller.                                                                 *)
(***************************************************************************)
Pop ==
    /\ \/ ctl.op = "leave" /\ ctl.left > 0
       \/ ctl.op = "unwind" /\ Top.counter # 0
    /\ IF Top.entries # <<>> /\ Valid(Top.slots[Last(Top.entries)])
         THEN /\ count' = Add(count, Top.slots[Last(Top.entries)], -1)
              /\ frames' = WithTop([Top EXCEPT !.entries = Front(@), !.counter = @ - 1])
              /\ ctl' = IF ctl.op = "leave" THEN Leave(ctl.left - 1) ELSE ctl
              /\ UNCHANGED <<eflag, ret>>
         ELSE Crash

BlockDone == ctl = Leave(0)

\* Mutant: the handler of the block around the one that ends goes too.
OuterDropsTwo(f) ==
    [f EXCEPT !.blocks = Front(@),
              !.handlers = HandlerListTruncate(@, Level(f) - 2)]

\* The frame after the innermost block, its handlers dropped with it.
Outer(f) ==
    [f EXCEPT !.blocks = Front(@),
              !.handlers = HandlerListTruncate(@, Level(f) - 1)]

\* The end of an IF block or the last iteration of a loop.
LeaveBlock ==
    /\ BlockDone /\ Innermost(Top).kind \in {"block", "loop"}
    /\ frames' = WithTop(Outer(Top))
    /\ ctl' = Run
    /\ UNCHANGED <<count, eflag, ret>>

\* ENDTRY without an error: the handler's code follows and clears the flag.
LeaveTry ==
    /\ BlockDone /\ Innermost(Top).kind = "try"
    /\ frames' = WithTop(Outer(Top))
    /\ eflag' = FALSE
    /\ ctl' = Run
    /\ UNCHANGED <<count, ret>>

\* Mutant: the symbols of the last iteration are still there.
LoopBackKeepsSymbols ==
    /\ BlockDone /\ Innermost(Top).kind = "loop"
    /\ frames' = WithTop([Top EXCEPT !.next = Innermost(Top).start])
    /\ ctl' = Run
    /\ UNCHANGED <<count, eflag, ret>>

\* Another iteration: the code and the slots of the body are the same ones.
LoopBack ==
    LET loop == Innermost(Top)
        f == [Outer(Top) EXCEPT !.blocks = Append(@, [loop EXCEPT !.syms = <<>>]),
                                !.next = loop.start]
    IN  /\ BlockDone /\ loop.kind = "loop"
        /\ \/ /\ loop.cond = 0
              /\ frames' = WithTop(f)
              /\ UNCHANGED count
           \/ \E b \in Blocks :
                /\ loop.cond # 0 /\ Fresh(b) /\ f.counter < MaxSlots
                /\ frames' = WithTop(PushReference([f EXCEPT !.slots[loop.cond] = b], loop.cond))
                /\ count' = [count EXCEPT ![b] = 1]
        /\ ctl' = Run
        /\ UNCHANGED <<eflag, ret>>

\* ENDERROR: on to the handler outside this one, or out of the procedure.
LeaveHandler ==
    /\ BlockDone /\ Innermost(Top).kind = "handler"
    /\ IF Top.handlers # <<>>
         THEN HandleErrors(frames, Top)
         ELSE /\ eflag' = (Top.kind # "main")
              /\ ctl' = Unwind
              /\ ret' = Empty
              /\ UNCHANGED frames
    /\ UNCHANGED count

(***************************************************************************)
(* RET, and the caller's code after the call: it looks at the flag first   *)
(* and only then copies a function's result into a temporary of its own.   *)
(***************************************************************************)
Ret ==
    LET callers == Front(frames)
        caller == Last(callers)
    IN  /\ ctl = Unwind /\ Top.counter = 0 /\ Len(frames) > 1
        /\ IF Top.entries # <<>>
             THEN Crash
             ELSE /\ IF eflag
                       THEN HandleErrors(callers, caller)
                       ELSE /\ frames' = IF Top.kind = "fn"
                                           THEN [callers EXCEPT ![Len(callers)] = NewRef(caller, ret)]
                                           ELSE callers
                            /\ ret' = Empty
                            /\ ctl' = Run
                            /\ UNCHANGED eflag
                  /\ UNCHANGED count

\* The end of main: the leak check, and END.
EndProgram ==
    /\ ctl = Unwind /\ Top.counter = 0 /\ Len(frames) = 1
    /\ ctl' = Ended
    /\ UNCHANGED <<frames, count, eflag, ret>>

-----------------------------------------------------------------------------
(* The specification *)

Init ==
    /\ frames = <<NewFrame("main")>>
    /\ count = [b \in Blocks |-> 0]
    /\ eflag = FALSE
    /\ ctl = Run
    /\ ret = Empty
    /\ uses \in Programs

Statement ==
    \/ DeclareEmpty \/ DeclareFails \/ EmptySlice
    \/ EndProc \/ EndMain \/ OnError \/ RaiseError \/ EndBlock
    \/ \E b \in Blocks : DeclareConst(b) \/ EnterWhile(b)
    \/ \E x \in Names : DeclareCopy(x) \/ Return(x) \/ AssignEmpty(x) \/ AssignFails(x)
    \/ \E x, y \in Names : AssignVar(x, y)
    \/ \E x \in Names, b \in Blocks : AssignConst(x, b)
    \/ \E kind \in {"proc", "fn"} : Call(kind) \/ \E x \in Names : CallWith(kind, x)
    \/ \E kind \in {"block", "loop", "try"} : EnterBlock(kind)

Machine ==
    \/ Pop \/ LeaveBlock \/ LeaveTry \/ LoopBack \/ LeaveHandler
    \/ Ret \/ EndProgram

\* The program is over.
Finished == ctl \in {Ended, Asserted} /\ UNCHANGED vars

Next ==
    \/ (Statement \/ Machine) /\ UNCHANGED uses
    \/ Finished

Spec == Init /\ [][Next]_vars

-----------------------------------------------------------------------------
(* Properties *)

TypeOK ==
    /\ count \in [Blocks -> Nat]
    /\ eflag \in BOOLEAN
    /\ ctl \in {Run, Unwind, Ended, Asserted} \cup {Leave(n) : n \in 0 .. Len(Innermost(Top).syms)}
    /\ ret \in Blocks \cup {Empty}
    /\ Len(frames) \in 1 .. MaxFrames
    /\ \A i \in DOMAIN frames :
          LET f == frames[i]
          IN  /\ f.kind \in {"main", "proc", "fn"}
              /\ f.kind = "main" <=> i = 1
              /\ f.slots \in [Slots -> Values]
              /\ f.next \in 1 .. f.limit + 1
              /\ f.limit \in Slots
              /\ f.counter \in 0 .. MaxSlots
              /\ ToSet(f.entries) \subseteq Slots
              /\ Level(f) \in 0 .. MaxLevel + 1
              /\ Symbols(f) \subseteq Slots
              /\ f.inHandler \in BOOLEAN

(***************************************************************************)
(* No DEREF or REF of a block that is not in use, and no pop below the     *)
(* frame: the assertions of prv_deref, prv_ref and prv_ret_gen never fail. *)
(***************************************************************************)
NoAssertion == ctl # Asserted

\* The cleanup entries of all frames whose slot holds the block.
Holders(b) ==
    {p \in (1 .. MaxFrames) \X Slots :
        /\ p[1] \in DOMAIN frames
        /\ p[2] \in DOMAIN frames[p[1]].entries
        /\ frames[p[1]].slots[frames[p[1]].entries[p[2]]] = b}

\* With the result on its way.
Owners(b) == Cardinality(Holders(b)) + (IF ret = b THEN 1 ELSE 0)

(***************************************************************************)
(* The count of a block is the number of entries on the cleanup stacks     *)
(* that will drop it: nothing is dropped twice and nothing is forgotten,   *)
(* through every mix of assignments, calls, returns, errors and loops.     *)
(***************************************************************************)
CountsMatchOwners == \A b \in Blocks : count[b] = Owners(b)

(***************************************************************************)
(* The cleanup counter of a procedure is the number of its entries on the  *)
(* machine stack: RET finds the stack where the call left it.              *)
(***************************************************************************)
CounterMatches == \A i \in DOMAIN frames : frames[i].counter = Len(frames[i].entries)

(***************************************************************************)
(* What the symbol table counts at compile time is what the stack holds at *)
(* run time: the entries on top of the stack of a frame are those of the   *)
(* symbols of its innermost block (the ones still to pop, when it is being *)
(* left), whatever errors and handlers the program went through.           *)
(***************************************************************************)
ScopeOnTop ==
    \A i \in DOMAIN frames :
        LET f == frames[i]
            syms == Innermost(f).syms
            n == IF i = Len(frames) /\ ctl.op = "leave" THEN ctl.left ELSE Len(syms)
        IN  ~(i = Len(frames) /\ ctl.op \in {"unwind", "ended", "assert"})
              => IsSuffix(SubSeq(syms, 1, n), f.entries)

(***************************************************************************)
(* A name in scope holds nothing or a block in use (docs/Subtilis.md: a    *)
(* variable keeps its value until its block ends).                         *)
(***************************************************************************)
NoDangling == ctl = Run => \A x \in Names : Valid(Value(x))

(***************************************************************************)
(* The program that reaches its end, with or without an error, has freed   *)
(* all it allocated: " BYTES LEAKED!" is not printed.                      *)
(***************************************************************************)
NoLeak == ctl = Ended => \A b \in Blocks : count[b] = 0

\* "The error flag needs to be clear when we're inside an error handler"
\* (parser_error.c), and in all other code of the program.
FlagClearInStatements == ctl = Run => ~eflag

(***************************************************************************)
(* An error does not leave a procedure that could handle it: not from      *)
(* inside a TRY (docs/Subtilis.md: TRY stops an error from propagating),   *)
(* and not past an ONERROR, except from that handler itself.               *)
(***************************************************************************)
ErrorsTrapped ==
    eflag /\ ctl = Unwind =>
        /\ TryLevels(Top) = {}
        /\ Top.handlers = <<>> \/ Top.inHandler

(***************************************************************************)
(* The assertions of the interpreter never fail in a sound program, and no *)
(* pop goes below the frame; in every program the slots, the handlers and  *)
(* the symbols of every frame stay in range.                               *)
(***************************************************************************)
AssertionsHold == TypeOK /\ (uses = {} => NoAssertion)

\* In a sound program the count of a block is the number of cleanup entries that
\* will drop it: a variable in scope holds nothing or a block in use, and a program
\* that ends has freed everything.
OwnersCounted == uses = {} => CountsMatchOwners /\ NoDangling /\ NoLeak

\* In a sound program what is on the stack is what the compiler counted.
StackAsCompiled == uses = {} => ScopeOnTop /\ CounterMatches

\* An error does not leave a procedure of a sound program that could handle it, and
\* in no program does a statement run while an error is on its way.
ErrorsStay == FlagClearInStatements /\ (uses = {} => ErrorsTrapped)

(***************************************************************************)
(* The handler list is sorted by level, stays within the levels that are   *)
(* open, and its head is the innermost TRY when there is one: an error     *)
(* goes where the structure of the program says.                           *)
(***************************************************************************)
HandlersFollowBlocks ==
    \A i \in DOMAIN frames :
        LET f == frames[i]
            list == f.handlers
        IN  /\ \A j \in 1 .. Len(list) - 1 : list[j].level > list[j + 1].level
            /\ list # <<>> => Head(list).level <= Level(f)
            /\ TryLevels(f) # {} =>
                  /\ list # <<>>
                  /\ Head(list).label.kind = "try"
                  /\ Head(list).level = Max(TryLevels(f)) - 1

(***************************************************************************)
(* An error in a procedure reaches a handler of one of its callers, when   *)
(* one has a handler: the unwinding of the procedures between them comes   *)
(* to an end, and no return on the way loses the flag.                     *)
(***************************************************************************)
CallersHandleErrors ==
    (eflag /\ \E i \in 1 .. Len(frames) - 1 : frames[i].handlers # <<>>) ~> ctl = Run /\ ~eflag

(***************************************************************************)
(* A procedure that is being unwound comes to an end: its caller goes on   *)
(* with a statement, or the program is over.                               *)
(***************************************************************************)
UnwindingEnds == ctl = Unwind ~> ctl \in {Run, Ended}
=============================================================================
