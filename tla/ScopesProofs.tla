---------------------------- MODULE ScopesProofs ----------------------------
(***************************************************************************)
(* Theorems about Scopes.  First the stack: the handler lists follow the   *)
(* blocks, no error leaves a procedure that could handle it, and the stack *)
(* of a sound program is what the compiler counted; the inductive          *)
(* invariant says of every procedure in progress what ScopesFrames says of *)
(* one frame.  Then the counts: in a sound program the count of a block is *)
(* the number of cleanup entries that will drop it, so that no assertion   *)
(* of the interpreter fails, a variable in scope can always be used and a  *)
(* program that ends has freed everything.                                 *)
(***************************************************************************)
EXTENDS ScopesFrames, TLAPS, FiniteSetTheorems

-----------------------------------------------------------------------------
(* One frame *)

\* A frame at the start of a statement, or waiting for a call to return.
Steady(u, f) == FrameOK(u, f, Len(Innermost(f).syms))

LEMMA FrameFacts ==
    ASSUME NEW u, NEW f, NEW live, FrameOK(u, f, live)
    PROVE  /\ f.kind \in {"main", "proc", "fn"} /\ f.slots \in [Slots -> Values]
           /\ f.blocks \in Seq(Blk) /\ Len(f.blocks) \in Nat /\ Len(f.blocks) >= 1
           /\ Len(f.blocks) <= MaxLevel + 2 /\ Level(f) = Len(f.blocks) - 1
           /\ Innermost(f) = f.blocks[Len(f.blocks)] /\ Innermost(f) \in Blk
           /\ Len(Innermost(f).syms) \in Nat
           /\ f.next \in Nat \ {0} /\ f.limit \in Slots /\ f.next <= f.limit + 1
           /\ f.entries \in Seq(Slots) /\ Len(f.entries) \in Nat
           /\ f.counter = Len(f.entries) /\ f.counter <= MaxSlots
           /\ f.inHandler \in BOOLEAN
<1>1. PICK E : Shaped(f, E)
  BY DEF FrameOK
<1>2. f \in Frame(E) /\ Len(f.blocks) \in Nat \ {0}
  BY <1>1, ShapedFacts
<1>3. /\ f.kind \in {"main", "proc", "fn"} /\ f.slots \in [Slots -> Values]
      /\ f.blocks \in Seq(Blk) /\ f.next \in Nat \ {0} /\ f.limit \in Slots
      /\ f.entries \in Seq(Slots) /\ f.inHandler \in BOOLEAN
      /\ Len(f.entries) \in Nat
  BY <1>2, FrameLemma
<1>4. /\ Level(f) = Len(f.blocks) - 1
      /\ Innermost(f) = f.blocks[Len(f.blocks)] /\ Innermost(f) \in Blk
      /\ Len(Innermost(f).syms) \in Nat
  BY <1>1, ShapedFacts
<1>5. /\ f.next <= f.limit + 1 /\ f.counter = Len(f.entries) /\ f.counter <= MaxSlots
      /\ Len(f.blocks) <= MaxLevel + 2
  BY <1>1 DEF Shaped
<1>6. Len(f.blocks) \in Nat /\ Len(f.blocks) >= 1
  BY <1>2
<1> QED
  BY <1>3, <1>4, <1>5, <1>6

LEMMA FrameUnwound ==
    ASSUME NEW u, NEW f, NEW live, FrameOK(u, f, live)
    PROVE  FrameOK(u, f, -1)
<1>1. ~(-1 >= 0)
  OBVIOUS
<1> QED
  BY <1>1, Zenon DEF FrameOK

LEMMA FrameHandlers ==
    ASSUME NEW u, NEW f, NEW live, FrameOK(u, f, live)
    PROVE  /\ \A j \in 1 .. Len(f.handlers) - 1 : f.handlers[j].level > f.handlers[j + 1].level
           /\ f.handlers # <<>> =>
                 /\ Head(f.handlers).level <= Level(f)
                 /\ Head(f.handlers).label.kind \in {"try", "onerror"}
           /\ TryLevels(f) # {} =>
                 /\ f.handlers # <<>> /\ Head(f.handlers).label.kind = "try"
                 /\ Head(f.handlers).level = Max(TryLevels(f)) - 1
<1>1. PICK E : Shaped(f, E)
  BY DEF FrameOK
<1>2. f \in Frame(E) /\ Closed(E) /\ Level(f) = Len(f.blocks) - 1 /\ Len(f.blocks) \in Nat
  BY <1>1, ShapedFacts
<1>3. f.handlers \in Seq(E) /\ Len(f.handlers) \in Nat
  BY <1>2, FrameLemma, LenProperties
<1>4. \A i, j \in 1 .. Len(f.handlers) : i < j => f.handlers[i].level > f.handlers[j].level
  BY <1>1 DEF Shaped, Scope
<1>5. \A j \in 1 .. Len(f.handlers) - 1 : f.handlers[j].level > f.handlers[j + 1].level
  <2> TAKE j \in 1 .. Len(f.handlers) - 1
  <2>1. j \in 1 .. Len(f.handlers) /\ j + 1 \in 1 .. Len(f.handlers) /\ j < j + 1
    BY <1>3
  <2> QED
    BY <1>4, <2>1
<1>6. f.handlers # <<>> => Head(f.handlers) \in E /\ Placed(Head(f.handlers), f.blocks)
  BY <1>1, HeadLemma
<1>7. ASSUME f.handlers # <<>>
      PROVE  /\ Head(f.handlers).level \in Nat /\ Head(f.handlers).level <= Level(f)
             /\ Head(f.handlers).label.kind \in {"try", "onerror"}
  <2>1. PICK h \in E : h = Head(f.handlers) /\ Placed(h, f.blocks)
    BY <1>6, <1>7
  <2>2. h.level \in Nat /\ h.label \in Labels(E) /\ h.level < Len(f.blocks)
    BY <1>2, <2>1, EntryLemma DEF Placed
  <2>3. h.label.kind \in {"try", "onerror"}
    BY <2>2, LabelLemma
  <2>4. h.level <= Level(f)
    BY <1>2, <2>2
  <2> QED
    BY <2>1, <2>2, <2>3, <2>4
<1>8. ASSUME TryLevels(f) # {}
      PROVE  /\ f.handlers # <<>> /\ Head(f.handlers).label.kind = "try"
             /\ Head(f.handlers).level = Max(TryLevels(f)) - 1
  <2>1. /\ f.handlers # <<>> /\ Head(f.handlers).label.kind = "try"
        /\ Max(TryLevels(f)) = Head(f.handlers).level + 1
    BY <1>1, <1>8, HeadLemma
  <2>2. PICK p \in Nat : p = Head(f.handlers).level
    BY <1>7, <2>1
  <2> QED
    BY <2>1, <2>2
<1> QED
  BY <1>5, <1>7, <1>8

\* The entries a frame has, and what is true of them in a sound program.
LEMMA FrameEntries ==
    ASSUME NEW u, NEW f, NEW live \in Nat, FrameOK(u, f, live)
    PROVE  \E E : Shaped(f, E) /\ (u = {} => Stacked(f, E, live))
<1>1. live >= 0
  OBVIOUS
<1> QED
  BY <1>1, Zenon DEF FrameOK

LEMMA FrameIntro ==
    ASSUME NEW u, NEW f, NEW live, NEW E, Shaped(f, E), u = {} => Stacked(f, E, live)
    PROVE  FrameOK(u, f, live)
BY Zenon DEF FrameOK

LEMMA SteadyEntries ==
    ASSUME NEW u, NEW f, Steady(u, f)
    PROVE  \E E : Shaped(f, E) /\ (u = {} => Stacked(f, E, Len(Innermost(f).syms)))
<1>1. FrameOK(u, f, Len(Innermost(f).syms)) /\ Len(Innermost(f).syms) \in Nat
  BY FrameFacts DEF Steady
<1> QED
  BY <1>1, FrameEntries

LEMMA SteadyIntro ==
    ASSUME NEW u, NEW f, NEW E, Shaped(f, E), u = {} => Stacked(f, E, Len(Innermost(f).syms))
    PROVE  Steady(u, f)
BY Zenon DEF Steady, FrameOK

LEMMA NewRefSteady ==
    ASSUME NEW u, NEW f, Steady(u, f), Room(f), NEW v \in Values, u = {} => v # Wild
    PROVE  Steady(u, NewRef(f, v)) /\ NewRef(f, v).kind = f.kind
<1>1. PICK E : Shaped(f, E) /\ (u = {} => Stacked(f, E, Len(Innermost(f).syms)))
  BY SteadyEntries
<1>2. Shaped(NewRef(f, v), E) /\ NewRef(f, v).kind = f.kind
  BY <1>1, NewRefShaped, NewRefFields DEF RefAdded
<1>3. u = {} => Stacked(NewRef(f, v), E, Len(Innermost(NewRef(f, v)).syms))
  BY <1>1, NewRefStacked
<1> QED
  BY <1>2, <1>3, SteadyIntro

LEMMA InsertSteady ==
    ASSUME NEW u, NEW f, Steady(u, f), Room(f), NEW v \in Values, u # {}
    PROVE  Steady(u, Insert(f, v)) /\ Insert(f, v).kind = f.kind
<1>1. PICK E : Shaped(f, E)
  BY SteadyEntries
<1>2. f.next <= f.limit /\ f.next \in Slots /\ f \in Frame(E) /\ Len(f.blocks) >= 1
  BY <1>1, RoomLemma, ShapedFacts
<1>3. Shaped(Insert(f, v), E)
  BY <1>1, <1>2, InsertShaped
<1>4. Insert(f, v).kind = f.kind
  BY <1>2, InsertFields
<1> QED
  BY <1>3, <1>4, SteadyIntro

LEMMA SetSlotOK ==
    ASSUME NEW u, NEW f, NEW live, FrameOK(u, f, live), NEW s, NEW v \in Values,
           u = {} => v # Wild, NEW g, g = [f EXCEPT !.slots[s] = v]
    PROVE  FrameOK(u, g, live) /\ SameButSlots(f, g)
<1>1. PICK E : Shaped(f, E) /\ (u = {} /\ live >= 0 => Stacked(f, E, live))
  BY DEF FrameOK
<1>2. /\ Shaped(g, E) /\ SameButSlots(f, g)
      /\ Stacked(f, E, live) /\ v # Wild => Stacked(g, E, live)
  BY <1>1, SetSlot
<1> QED
  BY <1>1, <1>2, Zenon DEF FrameOK

LEMMA NewFrameSteady ==
    ASSUME NEW u, NEW kind \in {"main", "proc", "fn"}
    PROVE  Steady(u, NewFrame(kind)) /\ NewFrame(kind).kind = kind /\ Room(NewFrame(kind))
<1>1. /\ Shaped(NewFrame(kind), {}) /\ Stacked(NewFrame(kind), {}, 0)
      /\ NewFrame(kind).kind = kind /\ Len(Innermost(NewFrame(kind)).syms) = 0
      /\ Room(NewFrame(kind))
  BY NewFrameShaped
<1>2. Stacked(NewFrame(kind), {}, Len(Innermost(NewFrame(kind)).syms))
  BY <1>1, Zenon
<1> QED
  BY <1>1, <1>2, SteadyIntro

\* EnterBlock of a block or a loop, and of a TRY.
LEMMA BlockSteady ==
    ASSUME NEW u, NEW f, Steady(u, f), Level(f) < MaxLevel, NEW kind \in {"block", "loop"},
           NEW g, g = [f EXCEPT !.blocks = Append(@, Block(kind, f.next))]
    PROVE  Steady(u, g) /\ g.kind = f.kind
<1>1. PICK E : Shaped(f, E) /\ (u = {} => Stacked(f, E, Len(Innermost(f).syms)))
  BY SteadyEntries
<1>2. PICK b : b = Block(kind, f.next)
  OBVIOUS
<1>3. f \in Frame(E) /\ f.next \in Nat \ {0} /\ f.blocks \in Seq(Blk)
  BY <1>1, ShapedFacts, FrameLemma
<1>4. /\ b \in Blk /\ b.kind = kind /\ b.start = f.next /\ b.syms = <<>> /\ b.cond = 0
      /\ Len(b.syms) = 0
  BY <1>2, <1>3, EmptySeq DEF Block, Blk, Kind
<1>5. g = [f EXCEPT !.blocks = Append(@, b)]
  BY <1>2
<1>6. Shaped(g, E) /\ Opened(f, b, g)
  BY <1>1, <1>4, <1>5, OpenedShaped
<1>7. g.kind = f.kind /\ g.blocks = Append(f.blocks, b)
  BY <1>3, <1>5 DEF Frame
<1>8. Innermost(g) = b
  <2>1. Innermost(g) = g.blocks[Len(g.blocks)]
    BY <1>6, ShapedFacts
  <2> QED
    BY <1>3, <1>4, <1>7, <2>1, AppendProperties
<1>9. u = {} => Stacked(g, E, Len(Innermost(g).syms))
  <2>1. b.kind \notin {"body", "handler"}
    BY <1>4
  <2>2. u = {} => Stacked(g, E, 0)
    BY <1>1, <1>4, <1>6, <2>1, OpenedStacked
  <2> QED
    BY <1>4, <1>8, <2>2
<1> QED
  BY <1>6, <1>7, <1>9, SteadyIntro

LEMMA TrySteady ==
    ASSUME NEW u, NEW f, Steady(u, f), Level(f) < MaxLevel, NEW g, g = WithTry(f)
    PROVE  Steady(u, g) /\ g.kind = f.kind
<1>1. PICK E : Shaped(f, E) /\ (u = {} => Stacked(f, E, Len(Innermost(f).syms)))
  BY SteadyEntries
<1>2. PICK h : /\ h.label.kind = "try" /\ Shaped(g, E \cup {h})
               /\ Opened(f, Block("try", f.next), g)
  BY <1>1, TryShaped
<1>3. PICK b : b = Block("try", f.next)
  OBVIOUS
<1>4. f \in Frame(E) /\ f.next \in Nat \ {0} /\ f.blocks \in Seq(Blk)
  BY <1>1, ShapedFacts, FrameLemma
<1>5. /\ b \in Blk /\ b.kind = "try" /\ b.start = f.next /\ b.syms = <<>> /\ b.cond = 0
      /\ Len(b.syms) = 0 /\ b.kind \notin {"body", "handler"}
  BY <1>3, <1>4, EmptySeq DEF Block, Blk, Kind
<1>6. g.kind = f.kind
  BY <1>4 DEF WithTry, Frame
<1>7. Innermost(g) = b
  <2>1. Innermost(g) = g.blocks[Len(g.blocks)] /\ g.blocks = Append(f.blocks, b)
    BY <1>2, <1>3, ShapedFacts DEF Opened
  <2> QED
    BY <1>4, <1>5, <2>1, AppendProperties
<1>8. u = {} => Stacked(g, E \cup {h}, Len(Innermost(g).syms))
  <2>1. u = {} => Stacked(g, E, 0)
    BY <1>1, <1>2, <1>3, <1>5, OpenedStacked
  <2>2. u = {} => Stacked(g, E \cup {h}, 0)
    BY <1>2, <2>1, TryStacked
  <2> QED
    BY <1>5, <1>7, <2>2
<1> QED
  BY <1>2, <1>6, <1>8, SteadyIntro

LEMMA WhileSteady ==
    ASSUME NEW u, NEW f, Steady(u, f), u # {}, Level(f) < MaxLevel, Room(f), NEW v \in Values,
           NEW g, g = [NewRef(f, v) EXCEPT !.blocks =
                          Append(@, [Block("loop", NewRef(f, v).next) EXCEPT !.cond = f.next])]
    PROVE  Steady(u, g) /\ g.kind = f.kind
<1>1. PICK n : n = NewRef(f, v)
  OBVIOUS
<1>2. PICK E : Shaped(f, E)
  BY SteadyEntries
<1>3. Shaped(n, E) /\ n \in Frame(E) /\ RefAdded(f, v, n)
  BY <1>1, <1>2, NewRefShaped, NewRefFields
<1>4. n.kind = f.kind /\ Len(n.blocks) = Len(f.blocks) /\ Level(n) = Level(f)
  BY <1>2, <1>3, ShapedFacts DEF RefAdded
<1>5. PICK b : b = [Block("loop", n.next) EXCEPT !.cond = f.next]
  OBVIOUS
<1>6. n.next \in Nat \ {0} /\ f.next \in Slots
  BY <1>2, <1>3, FrameLemma, RoomLemma
<1>7. b \in Blk /\ b.kind = "loop" /\ b.start = n.next
  BY <1>5, <1>6, EmptySeq DEF Block, Blk, Kind
<1>8. g = [n EXCEPT !.blocks = Append(@, b)]
  BY <1>1, <1>5
<1>9. Shaped(g, E)
  <2>1. Level(n) < MaxLevel \/ (n.inHandler /\ Level(n) <= MaxLevel)
    BY <1>4
  <2>2. b.kind \in {"block", "loop"}
    BY <1>7
  <2>3. Shaped([n EXCEPT !.blocks = Append(@, b)], E)
    BY <1>3, <1>7, <2>1, <2>2, OpenedShaped
  <2> QED
    BY <1>8, <2>3
<1>10. g.kind = f.kind
  BY <1>3, <1>4, <1>8 DEF Frame
<1> QED
  BY <1>9, <1>10, SteadyIntro

LEMMA OnErrorSteady ==
    ASSUME NEW u, NEW f, Steady(u, f), Room(f), ~f.inHandler, TryLevels(f) = {},
           NEW g, g = WithOnError(f)
    PROVE  Steady(u, g) /\ g.kind = f.kind
<1>1. PICK E : Shaped(f, E) /\ (u = {} => Stacked(f, E, Len(Innermost(f).syms)))
  BY SteadyEntries
<1>2. PICK h : /\ h.label.kind = "onerror" /\ h.label.next = f.next
               /\ Shaped(g, E \cup {h}) /\ SetAside(f, g)
  BY <1>1, OnErrorShaped
<1>3. g.kind = f.kind
  <2>1. f \in Frame(E)
    BY <1>1, ShapedFacts
  <2> QED
    BY <2>1 DEF WithOnError, Frame
<1>4. Innermost(g) = Innermost(f)
  BY <1>2 DEF SetAside, Innermost
<1>5. u = {} => Stacked(g, E \cup {h}, Len(Innermost(g).syms))
  <2>1. PICK live : live = Len(Innermost(f).syms)
    OBVIOUS
  <2>2. u = {} => Stacked(g, E \cup {h}, live)
    BY <1>1, <1>2, <2>1, OnErrorStacked
  <2> QED
    BY <1>4, <2>1, <2>2
<1> QED
  BY <1>2, <1>3, <1>5, SteadyIntro

\* A frame and what a pop leaves of it.
Pops(f, g) == f.entries # <<>> /\ g = [f EXCEPT !.entries = Front(@), !.counter = @ - 1]

LEMMA PopOK ==
    ASSUME NEW u, NEW f, NEW live \in Nat \ {0}, FrameOK(u, f, live), NEW g, Pops(f, g)
    PROVE  FrameOK(u, g, live - 1) /\ g.kind = f.kind /\ g.blocks = f.blocks
<1> USE DEF Pops
<1>1. live \in Nat /\ live - 1 \in Nat
  OBVIOUS
<1>2. PICK E : Shaped(f, E) /\ (u = {} => Stacked(f, E, live))
  BY <1>1, FrameEntries
<1>3. Shaped(g, E) /\ Popped(f, g)
  BY <1>2, PopShaped
<1>4. u = {} => Stacked(g, E, live - 1)
  BY <1>2, <1>3, PopStacked
<1>5. g.kind = f.kind /\ g.blocks = f.blocks
  <2>1. f \in Frame(E)
    BY <1>2, ShapedFacts
  <2> QED
    BY <2>1 DEF Frame
<1> QED
  BY <1>3, <1>4, <1>5, FrameIntro

LEMMA PopUnwound ==
    ASSUME NEW u, NEW f, NEW live, FrameOK(u, f, live), NEW g, Pops(f, g)
    PROVE  FrameOK(u, g, -1) /\ g.kind = f.kind /\ g.blocks = f.blocks /\ g.handlers = f.handlers
           /\ g.inHandler = f.inHandler
<1> USE DEF Pops
<1>1. PICK E : Shaped(f, E)
  BY DEF FrameOK
<1>2. Shaped(g, E)
  BY <1>1, PopShaped
<1>3. /\ g.kind = f.kind /\ g.blocks = f.blocks /\ g.handlers = f.handlers
      /\ g.inHandler = f.inHandler
  <2>1. f \in Frame(E)
    BY <1>1, ShapedFacts
  <2> QED
    BY <2>1 DEF Frame
<1>4. ~(-1 >= 0)
  OBVIOUS
<1>5. FrameOK(u, g, -1)
  BY <1>2, <1>4, Zenon DEF FrameOK
<1> QED
  BY <1>3, <1>5

LEMMA OuterSteady ==
    ASSUME NEW u, NEW f, FrameOK(u, f, 0), Len(f.blocks) > 1,
           Innermost(f).kind \in {"block", "loop", "try"}, NEW g, g = Outer(f)
    PROVE  Steady(u, g) /\ g.kind = f.kind
<1>1. PICK E : Shaped(f, E) /\ (u = {} => Stacked(f, E, 0))
  BY FrameEntries
<1>2. PICK x : x = f.next
  OBVIOUS
<1>3. f \in Frame(E) /\ NextAfter(f, x)
  BY <1>1, <1>2, ShapedFacts DEF NextAfter
<1>4. g = WithClosed(f, x)
  BY <1>2, <1>3, OuterLemma
<1>5. Shaped(g, EarlierThan(E, x)) /\ Closes(f, g)
  BY <1>1, <1>3, <1>4, ClosedShaped
<1>6. g.kind = f.kind
  BY <1>3, <1>4 DEF WithClosed, Frame
<1>7. u = {} => Stacked(g, EarlierThan(E, x), Len(Innermost(g).syms))
  <2>1. Innermost(f).kind \notin {"body", "handler"}
    OBVIOUS
  <2>2. u = {} => Stacked(g, E, Len(Innermost(g).syms))
    BY <1>1, <1>5, <2>1, ClosedStacked
  <2>3. EarlierThan(E, x) \subseteq E
    BY DEF EarlierThan
  <2> QED
    BY <2>2, <2>3, StackedSub
<1> QED
  BY <1>5, <1>6, <1>7, SteadyIntro

LEMMA LoopSteady ==
    ASSUME NEW u, NEW f, FrameOK(u, f, 0), Len(f.blocks) > 1, Innermost(f).kind = "loop",
           NEW g, g = WithLoop(f)
    PROVE  Steady(u, g) /\ g.kind = f.kind
<1>1. PICK E : Shaped(f, E) /\ (u = {} => Stacked(f, E, 0))
  BY FrameEntries
<1>2. PICK F : Shaped(g, F) /\ Again(f, g) /\ (Stacked(f, E, 0) => Stacked(g, F, 0))
  BY <1>1, LoopShaped
<1>3. g.kind = f.kind /\ Len(Innermost(g).syms) = 0
  BY <1>2, EmptySeq DEF Again
<1> QED
  BY <1>1, <1>2, <1>3, SteadyIntro

\* Another iteration, when the condition makes the temporary v.
CallsAgain(f, v, h, g) ==
    /\ h = WithLoop(f) /\ Innermost(f).cond # 0 /\ h.counter < MaxSlots
    /\ g = PushReference([h EXCEPT !.slots[Innermost(f).cond] = v], Innermost(f).cond)

LEMMA LoopCallSteady ==
    ASSUME NEW u, NEW f, FrameOK(u, f, 0), Len(f.blocks) > 1, Innermost(f).kind = "loop",
           NEW v \in Values, NEW h, NEW g, CallsAgain(f, v, h, g)
    PROVE  Steady(u, g) /\ g.kind = f.kind
<1> USE DEF CallsAgain
<1>1. PICK E : Shaped(f, E) /\ (u = {} => Stacked(f, E, 0))
  BY FrameEntries
<1>2. PICK F : Shaped(h, F) /\ Again(f, h)
  BY <1>1, LoopShaped
<1>3. PICK c : c = Innermost(f).cond
  OBVIOUS
<1>4. c \in Slots
  <2>1. Innermost(f) \in Blk
    BY <1>1, ShapedFacts
  <2> QED
    BY <1>3, <2>1 DEF Blk
<1>5. PICK w : w = [h EXCEPT !.slots[c] = v]
  OBVIOUS
<1>6. Shaped(w, F) /\ SameButSlots(h, w)
  BY <1>2, <1>5, SetSlot
<1>7. w.counter < MaxSlots /\ w \in Frame(F) /\ w.kind = f.kind
  BY <1>2, <1>6, ShapedFacts DEF SameButSlots, Again
<1>8. g = PushReference(w, c)
  BY <1>3, <1>5
<1>9. Shaped(g, F)
  BY <1>4, <1>6, <1>7, <1>8, PushShaped
<1>10. g.kind = f.kind
  BY <1>4, <1>7, <1>8, PushFields
<1>11. u # {}
  <2>1. Stacked(f, E, 0) => Innermost(f).cond = 0
    <3>1. /\ Innermost(f) = f.blocks[Len(f.blocks)]
          /\ Len(f.blocks) \in 1 .. Len(f.blocks)
      BY <1>1, ShapedFacts
    <3> QED
      BY <3>1 DEF Stacked
  <2> QED
    BY <1>1, <2>1
<1> QED
  BY <1>9, <1>10, <1>11, SteadyIntro

\* The code of a handler.
LEMMA AtHandlerSteady ==
    ASSUME NEW u, NEW f, NEW live \in Nat, FrameOK(u, f, live), AtError(f, live),
           u = {} => NothingHeld(f), f.handlers # <<>>, NEW g, g = AtHandler(f)
    PROVE  Steady(u, g) /\ g.kind = f.kind
<1>1. PICK E : Shaped(f, E) /\ (u = {} => Stacked(f, E, live))
  BY FrameEntries
<1>2. Head(f.handlers).label.kind \in {"try", "onerror"}
  BY FrameHandlers
<1>3. CASE Head(f.handlers).label.kind = "try"
  <2>1. Shaped(g, E) /\ g.kind = f.kind
    BY <1>1, <1>3, AtTryShaped
  <2>2. u = {} => Stacked(g, E, Len(Innermost(g).syms))
    BY <1>1, <1>3, AtTryStacked
  <2> QED
    BY <2>1, <2>2, SteadyIntro
<1>4. CASE Head(f.handlers).label.kind = "onerror"
  <2>1. PICK F : F = EarlierThan(E, Head(f.handlers).label.next)
    OBVIOUS
  <2>2. Shaped(g, F) /\ g.kind = f.kind
    BY <1>1, <1>4, <2>1, AtOnErrorShaped
  <2>3. u = {} => Stacked(g, F, Len(Innermost(g).syms))
    BY <1>1, <1>4, <2>1, AtOnErrorStacked
  <2> QED
    BY <2>2, <2>3, SteadyIntro
<1> QED
  BY <1>2, <1>3, <1>4

-----------------------------------------------------------------------------
(* The frames of a program *)

\* What a call leaves behind: the body of a TRY that holds nothing, when the callee
\* may fail, and room for the result.
Caller(u, f, g) == (u = {} => NothingHeld(f)) /\ (g.kind = "fn" => Room(f))

\* The procedures in progress; live is about the one that runs.
FramesOK(u, fs, live) ==
    /\ \E S : fs \in Seq(S)
    /\ Len(fs) \in 1 .. MaxFrames
    /\ \A i \in 1 .. Len(fs) : fs[i].kind = "main" <=> i = 1
    /\ \A i \in 1 .. Len(fs) - 1 : Steady(u, fs[i]) /\ Caller(u, fs[i], fs[i + 1])
    /\ FrameOK(u, fs[Len(fs)], live)

LEMMA FramesFacts ==
    ASSUME NEW u, NEW fs, NEW live, FramesOK(u, fs, live)
    PROVE  /\ Len(fs) \in Nat \ {0} /\ Len(fs) <= MaxFrames /\ Len(fs) \in 1 .. Len(fs)
           /\ DOMAIN fs = 1 .. Len(fs) /\ Last(fs) = fs[Len(fs)]
           /\ fs[Len(fs)].kind = "main" <=> Len(fs) = 1
           /\ \A i \in 1 .. Len(fs) : \E l : FrameOK(u, fs[i], l)
<1>1. /\ Len(fs) \in Nat \ {0} /\ Len(fs) <= MaxFrames /\ Len(fs) \in 1 .. Len(fs)
  BY SlotsLemma DEF FramesOK
<1>2. DOMAIN fs = 1 .. Len(fs) /\ Last(fs) = fs[Len(fs)]
  <2>1. PICK S : fs \in Seq(S)
    BY DEF FramesOK
  <2> QED
    BY <2>1, LenProperties DEF Last
<1>3. fs[Len(fs)].kind = "main" <=> Len(fs) = 1
  BY <1>1 DEF FramesOK
<1>4. ASSUME NEW i \in 1 .. Len(fs)
      PROVE  \E l : FrameOK(u, fs[i], l)
  <2>1. CASE i \in 1 .. Len(fs) - 1
    BY <2>1 DEF FramesOK, Steady
  <2>2. CASE i = Len(fs)
    BY <2>2 DEF FramesOK
  <2> QED
    BY <1>1, <2>1, <2>2
<1> QED
  BY <1>1, <1>2, <1>3, <1>4

\* The procedure that runs is another frame g.
Changes(fs, g, r) == g.kind = fs[Len(fs)].kind /\ r = [fs EXCEPT ![Len(fs)] = g]

LEMMA FramesTop ==
    ASSUME NEW u, NEW fs, NEW live, FramesOK(u, fs, live), NEW g, NEW l, FrameOK(u, g, l),
           NEW r, Changes(fs, g, r)
    PROVE  FramesOK(u, r, l) /\ Len(r) = Len(fs) /\ r[Len(r)] = g
<1> USE DEF Changes
<1>1. PICK n \in Nat \ {0} : n = Len(fs) /\ n <= MaxFrames /\ n \in 1 .. n /\ DOMAIN fs = 1 .. n
  BY FramesFacts
<1>2. PICK S : fs \in Seq(S)
  BY DEF FramesOK
<1>3. PICK T : T = S \cup {g}
  OBVIOUS
<1>4. fs \in Seq(T) /\ g \in T
  <2>1. \A i \in 1 .. Len(fs) : fs[i] \in T
    BY <1>2, <1>3, ElementOfSeq
  <2> QED
    BY <1>2, <1>3, <2>1, SeqOfElements
<1>5. /\ r \in Seq(T) /\ Len(r) = n
      /\ \A i \in 1 .. n : r[i] = IF i = n THEN g ELSE fs[i]
  BY <1>1, <1>4, ExceptSeq
<1>6. r[n] = g /\ \A i \in 1 .. n - 1 : r[i] = fs[i]
  BY <1>1, <1>5
<1>7. \A i \in 1 .. n : r[i].kind = fs[i].kind
  BY <1>1, <1>5
<1>8. ASSUME NEW i \in 1 .. n - 1
      PROVE  Steady(u, r[i]) /\ Caller(u, r[i], r[i + 1])
  <2>1. Steady(u, fs[i]) /\ Caller(u, fs[i], fs[i + 1])
    BY <1>1 DEF FramesOK
  <2>2. r[i] = fs[i] /\ i + 1 \in 1 .. n
    BY <1>1, <1>6
  <2>3. r[i + 1].kind = fs[i + 1].kind
    BY <1>7, <2>2
  <2> QED
    BY <2>1, <2>2, <2>3 DEF Caller
<1>9. n \in 1 .. MaxFrames
  BY <1>1, SlotsLemma
<1>10. \A i \in 1 .. n : r[i].kind = "main" <=> i = 1
  BY <1>1, <1>7 DEF FramesOK
<1> QED
  BY <1>1, <1>5, <1>6, <1>8, <1>9, <1>10 DEF FramesOK

LEMMA FramesTopSteady ==
    ASSUME NEW u, NEW fs, NEW live, FramesOK(u, fs, live), NEW g, Steady(u, g),
           NEW r, Changes(fs, g, r)
    PROVE  FramesOK(u, r, Len(Innermost(r[Len(r)]).syms)) /\ r[Len(r)] = g
<1>1. PICK l : l = Len(Innermost(g).syms)
  OBVIOUS
<1>2. FrameOK(u, g, l)
  BY <1>1 DEF Steady
<1>3. FramesOK(u, r, l) /\ r[Len(r)] = g
  BY <1>2, FramesTop
<1> QED
  BY <1>1, <1>3

\* A call.
LEMMA FramesCall ==
    ASSUME NEW u, NEW fs, FramesOK(u, fs, Len(Innermost(fs[Len(fs)]).syms)),
           Len(fs) < MaxFrames, NEW g, Steady(u, g), g.kind \in {"proc", "fn"},
           Caller(u, fs[Len(fs)], g), NEW r, r = Append(fs, g)
    PROVE  FramesOK(u, r, Len(Innermost(r[Len(r)]).syms))
<1>1. PICK n \in Nat \ {0} : n = Len(fs)
  BY FramesFacts
<1>2. PICK S : fs \in Seq(S)
  BY DEF FramesOK
<1>3. PICK T : T = S \cup {g}
  OBVIOUS
<1>4. fs \in Seq(T) /\ g \in T
  <2>1. \A i \in 1 .. Len(fs) : fs[i] \in T
    BY <1>2, <1>3, ElementOfSeq
  <2> QED
    BY <1>2, <1>3, <2>1, SeqOfElements
<1>5. /\ r \in Seq(T) /\ Len(r) = n + 1 /\ r[n + 1] = g
      /\ \A i \in 1 .. n : r[i] = fs[i]
  BY <1>1, <1>4, AppendProperties
<1>6. ASSUME NEW i \in 1 .. n
      PROVE  Steady(u, r[i]) /\ Caller(u, r[i], r[i + 1])
  <2>1. CASE i = n
    <3>1. FrameOK(u, fs[n], Len(Innermost(fs[n]).syms))
      BY <1>1 DEF FramesOK
    <3>2. Steady(u, fs[n]) /\ n \in 1 .. n
      BY <1>1, <3>1 DEF Steady
    <3> QED
      BY <1>1, <1>5, <2>1, <3>2
  <2>2. CASE i \in 1 .. n - 1
    <3>1. Steady(u, fs[i]) /\ Caller(u, fs[i], fs[i + 1])
      BY <1>1, <2>2 DEF FramesOK
    <3>2. i + 1 \in 1 .. n
      BY <2>2
    <3> QED
      BY <1>5, <3>1, <3>2
  <2> QED
    BY <1>1, <2>1, <2>2
<1>7. \A i \in 1 .. n + 1 : r[i].kind = "main" <=> i = 1
  <2>1. \A i \in 1 .. n : fs[i].kind = "main" <=> i = 1
    BY <1>1 DEF FramesOK
  <2>2. \A i \in 1 .. n + 1 : i \in 1 .. n \/ (i = n + 1 /\ i # 1)
    BY <1>1
  <2> QED
    BY <1>5, <2>1, <2>2
<1>8. n + 1 \in 1 .. MaxFrames /\ n + 1 - 1 = n
  BY <1>1, SlotsLemma
<1>9. FrameOK(u, r[n + 1], Len(Innermost(r[n + 1]).syms))
  BY <1>5 DEF Steady
<1> QED
  BY <1>5, <1>6, <1>7, <1>8, <1>9 DEF FramesOK

\* A return.
LEMMA FramesReturn ==
    ASSUME NEW u, NEW fs, NEW live, FramesOK(u, fs, live), Len(fs) > 1, NEW r, r = Front(fs)
    PROVE  /\ FramesOK(u, r, Len(Innermost(r[Len(r)]).syms))
           /\ Steady(u, r[Len(r)]) /\ Caller(u, r[Len(r)], fs[Len(fs)])
           /\ Len(r) = Len(fs) - 1 /\ \A i \in 1 .. Len(fs) - 1 : r[i] = fs[i]
<1>1. PICK n \in Nat \ {0} : n + 1 = Len(fs) /\ n + 1 <= MaxFrames /\ n = Len(fs) - 1
  <2>1. PICK m \in Nat : m = Len(fs)
    BY FramesFacts
  <2>2. m <= MaxFrames /\ m > 1
    BY <2>1, FramesFacts
  <2>3. m - 1 \in Nat \ {0} /\ m - 1 + 1 = m
    BY <2>2
  <2> QED
    BY <2>1, <2>2, <2>3
<1>2. PICK S : fs \in Seq(S)
  BY DEF FramesOK
<1>3. r \in Seq(S) /\ Len(r) = n /\ \A i \in 1 .. n : r[i] = fs[i]
  <2>1. fs # <<>>
    BY <1>1, <1>2, EmptySeq
  <2> QED
    BY <1>1, <1>2, <2>1, FrontLemma
<1>4. \A i \in 1 .. n : Steady(u, fs[i]) /\ Caller(u, fs[i], fs[i + 1])
  BY <1>1 DEF FramesOK
<1>5. n \in 1 .. n /\ n \in 1 .. MaxFrames
  BY <1>1, SlotsLemma
<1>6. r[n] = fs[n] /\ Steady(u, r[n]) /\ Caller(u, r[n], fs[n + 1])
  BY <1>3, <1>4, <1>5
<1>7. \A i \in 1 .. n - 1 : Steady(u, r[i]) /\ Caller(u, r[i], r[i + 1])
  <2>1. \A i \in 1 .. n - 1 : i \in 1 .. n /\ i + 1 \in 1 .. n
    OBVIOUS
  <2> QED
    BY <1>3, <1>4, <2>1
<1>8. \A i \in 1 .. n : r[i].kind = "main" <=> i = 1
  <2>1. \A i \in 1 .. n + 1 : fs[i].kind = "main" <=> i = 1
    BY <1>1 DEF FramesOK
  <2>2. \A i \in 1 .. n : i \in 1 .. n + 1
    OBVIOUS
  <2> QED
    BY <1>3, <2>1, <2>2
<1>9. FrameOK(u, r[n], Len(Innermost(r[n]).syms))
  BY <1>6 DEF Steady
<1>10. FramesOK(u, r, Len(Innermost(r[n]).syms))
  BY <1>3, <1>5, <1>7, <1>8, <1>9 DEF FramesOK
<1> QED
  BY <1>1, <1>3, <1>6, <1>10

-----------------------------------------------------------------------------
(* The invariant *)

\* The procedures in progress, at each place of the code the machine may be.
\* An inner block is being left, with at most one entry to pop per symbol.
Leaving(f, n) == Len(f.blocks) > 1 /\ n <= Len(Innermost(f).syms)

ProgramOK(u, fs, c) ==
    \/ c = Run /\ FramesOK(u, fs, Len(Innermost(fs[Len(fs)]).syms))
    \/ \E n \in Nat : c = Leave(n) /\ FramesOK(u, fs, n) /\ Leaving(fs[Len(fs)], n)
    \/ c \in {Unwind, Ended, Asserted} /\ FramesOK(u, fs, -1)

(***************************************************************************)
(* Every procedure in progress is shaped by the text it was compiled from, *)
(* and code runs with the error flag clear.                                *)
(***************************************************************************)
ScopesInv ==
    /\ count \in [Blocks -> Nat]
    /\ eflag \in BOOLEAN
    /\ ret \in Blocks \cup {Empty}
    /\ ProgramOK(uses, frames, ctl)
    /\ ctl.op \in {"run", "leave"} => ~eflag
    /\ uses = {} => ErrorsTrapped

LEMMA CtlFacts ==
    /\ Run.op = "run" /\ Unwind.op = "unwind" /\ Ended.op = "ended" /\ Asserted.op = "assert"
    /\ Unwind # Run /\ Ended # Unwind /\ Asserted # Unwind /\ Ended # Run /\ Asserted # Run
    /\ Asserted # Ended
    /\ \A n : /\ Leave(n).op = "leave" /\ Leave(n).left = n
              /\ Leave(n) \notin {Run, Unwind, Ended, Asserted}
    /\ \A m, n : Leave(m) = Leave(n) => m = n
BY DEF Run, Unwind, Ended, Asserted, Leave

\* Some facts about the frames, wherever the machine is.
LEMMA AnyFrames ==
    ASSUME ScopesInv
    PROVE  \E live \in Int : FramesOK(uses, frames, live)
<1>1. CASE ctl = Run /\ FramesOK(uses, frames, Len(Innermost(frames[Len(frames)]).syms))
  <2>1. FrameOK(uses, frames[Len(frames)], Len(Innermost(frames[Len(frames)]).syms))
    BY <1>1 DEF FramesOK
  <2>2. Len(Innermost(frames[Len(frames)]).syms) \in Int
    BY <2>1, FrameFacts
  <2> QED
    BY <1>1, <2>2
<1>2. CASE \E n \in Nat : ctl = Leave(n) /\ FramesOK(uses, frames, n)
                          /\ Leaving(frames[Len(frames)], n)
  BY <1>2
<1>3. CASE ctl \in {Unwind, Ended, Asserted} /\ FramesOK(uses, frames, -1)
  <2>1. -1 \in Int
    OBVIOUS
  <2> QED
    BY <1>3, <2>1
<1>4. ProgramOK(uses, frames, ctl)
  BY DEF ScopesInv
<1> QED
  BY <1>1, <1>2, <1>3, <1>4 DEF ProgramOK

LEMMA AtStatement ==
    ASSUME ScopesInv, ctl = Run
    PROVE  /\ FramesOK(uses, frames, Len(Innermost(frames[Len(frames)]).syms))
           /\ Top = frames[Len(frames)] /\ Steady(uses, Top) /\ ~eflag
           /\ count \in [Blocks -> Nat] /\ ret \in Blocks \cup {Empty}
<1>1. FramesOK(uses, frames, Len(Innermost(frames[Len(frames)]).syms))
  BY CtlFacts DEF ScopesInv, ProgramOK
<1>2. Steady(uses, Top)
  BY <1>1 DEF FramesOK, Steady, Top
<1>3. ~eflag
  BY CtlFacts DEF ScopesInv
<1> QED
  BY <1>1, <1>2, <1>3 DEF Top, ScopesInv

LEMMA AtLeave ==
    ASSUME ScopesInv, NEW n, ctl = Leave(n)
    PROVE  /\ n \in Nat /\ FramesOK(uses, frames, n) /\ Len(Top.blocks) > 1
           /\ n <= Len(Innermost(Top).syms)
           /\ Top = frames[Len(frames)] /\ FrameOK(uses, Top, n) /\ ~eflag
           /\ count \in [Blocks -> Nat] /\ ret \in Blocks \cup {Empty}
<1>1. PICK m \in Nat : ctl = Leave(m) /\ FramesOK(uses, frames, m)
                       /\ Leaving(frames[Len(frames)], m)
  BY CtlFacts DEF ScopesInv, ProgramOK
<1>2. m = n
  BY <1>1, CtlFacts
<1>3. FrameOK(uses, Top, n)
  BY <1>1, <1>2 DEF FramesOK, Top
<1>4. ~eflag
  BY CtlFacts DEF ScopesInv
<1>5. Len(Top.blocks) > 1 /\ n <= Len(Innermost(Top).syms)
  BY <1>1, <1>2 DEF Top, Leaving
<1> QED
  BY <1>1, <1>2, <1>3, <1>4, <1>5 DEF Top, ScopesInv

LEMMA AtUnwind ==
    ASSUME ScopesInv, ctl \in {Unwind, Ended, Asserted}
    PROVE  /\ FramesOK(uses, frames, -1)
           /\ Top = frames[Len(frames)] /\ FrameOK(uses, Top, -1)
           /\ count \in [Blocks -> Nat] /\ ret \in Blocks \cup {Empty}
<1>1. FramesOK(uses, frames, -1)
  BY CtlFacts DEF ScopesInv, ProgramOK
<1>2. FrameOK(uses, Top, -1)
  BY <1>1 DEF FramesOK, Top
<1> QED
  BY <1>1, <1>2 DEF Top, ScopesInv

LEMMA FramesUnwound ==
    ASSUME NEW u, NEW fs, NEW live, FramesOK(u, fs, live)
    PROVE  FramesOK(u, fs, -1)
<1>1. FrameOK(u, fs[Len(fs)], -1)
  BY FrameUnwound DEF FramesOK
<1> QED
  BY <1>1 DEF FramesOK

\* The state after a step.
Data == count \in [Blocks -> Nat] /\ ret \in Blocks \cup {Empty}

LEMMA ThenRun ==
    ASSUME uses' = uses, Data', ctl' = Run, eflag' = FALSE,
           FramesOK(uses, frames', Len(Innermost(frames'[Len(frames')]).syms))
    PROVE  ScopesInv'
<1>1. ProgramOK(uses', frames', ctl')
  BY DEF ProgramOK
<1>2. (uses = {} => ErrorsTrapped)'
  BY DEF ErrorsTrapped
<1> QED
  BY <1>1, <1>2 DEF ScopesInv, Data

LEMMA ThenLeave ==
    ASSUME uses' = uses, Data', NEW n \in Nat, ctl' = Leave(n), eflag' = FALSE,
           FramesOK(uses, frames', n), Leaving(frames'[Len(frames')], n)
    PROVE  ScopesInv'
<1>1. ProgramOK(uses', frames', ctl')
  BY DEF ProgramOK
<1>2. (uses = {} => ErrorsTrapped)'
  BY DEF ErrorsTrapped
<1> QED
  BY <1>1, <1>2 DEF ScopesInv, Data

LEMMA ThenUnwind ==
    ASSUME uses' = uses, Data', ctl' \in {Unwind, Ended, Asserted}, eflag' \in BOOLEAN,
           NEW live, FramesOK(uses, frames', live), uses = {} => ErrorsTrapped'
    PROVE  ScopesInv'
<1>1. FramesOK(uses, frames', -1)
  BY FramesUnwound
<1>2. ProgramOK(uses', frames', ctl')
  BY <1>1 DEF ProgramOK
<1>3. ctl'.op \notin {"run", "leave"}
  BY CtlFacts
<1> QED
  BY <1>2, <1>3 DEF ScopesInv, Data

LEMMA CrashInv ==
    ASSUME ScopesInv, Crash, uses' = uses
    PROVE  ScopesInv'
<1>1. PICK live \in Int : FramesOK(uses, frames, live)
  BY AnyFrames
<1>2. Data' /\ eflag' \in BOOLEAN /\ frames' = frames /\ ctl' = Asserted
  BY DEF ScopesInv, Crash, Data
<1>3. ErrorsTrapped'
  BY <1>2, CtlFacts DEF ErrorsTrapped
<1>4. FramesOK(uses, frames', live)
  BY <1>1, <1>2
<1> QED
  BY <1>2, <1>3, <1>4, ThenUnwind

-----------------------------------------------------------------------------
(* Errors *)

LEMMA HandlerInv ==
    ASSUME NEW fs, NEW live \in Nat, FramesOK(uses, fs, live), AtError(fs[Len(fs)], live),
           uses = {} => NothingHeld(fs[Len(fs)]), HandleErrors(fs, fs[Len(fs)]),
           count' \in [Blocks -> Nat], uses' = uses
    PROVE  ScopesInv'
<1>1. PICK f : f = fs[Len(fs)]
  OBVIOUS
<1>2. FrameOK(uses, f, live) /\ HandleErrors(fs, f)
  BY <1>1 DEF FramesOK
<1>3. Data'
  BY <1>2 DEF Data, HandleErrors
<1>4. CASE f.handlers # <<>>
  <2>1. PICK g : g = AtHandler(f)
    OBVIOUS
  <2>2. Steady(uses, g) /\ g.kind = f.kind
    BY <1>1, <1>2, <1>4, <2>1, AtHandlerSteady
  <2>3. frames' = [fs EXCEPT ![Len(fs)] = g] /\ eflag' = FALSE /\ ctl' = Run
    BY <1>2, <1>4, <2>1 DEF HandleErrors
  <2>4. Changes(fs, g, frames')
    BY <1>1, <2>2, <2>3 DEF Changes
  <2>5. FramesOK(uses, frames', Len(Innermost(frames'[Len(frames')]).syms))
    BY <2>2, <2>4, FramesTopSteady
  <2> QED
    BY <1>3, <2>3, <2>5, ThenRun
<1>5. CASE f.handlers = <<>>
  <2>1. frames' = fs /\ eflag' = TRUE /\ ctl' = Unwind
    BY <1>2, <1>5 DEF HandleErrors
  <2>2. TryLevels(f) = {}
    BY <1>2, <1>5, FrameHandlers
  <2>3. ErrorsTrapped'
    <3>1. Top' = f
      BY <1>1, <2>1 DEF Top
    <3> QED
      BY <1>5, <2>2, <3>1 DEF ErrorsTrapped
  <2>4. FramesOK(uses, frames', live) /\ eflag' \in BOOLEAN
    BY <2>1
  <2> QED
    BY <1>3, <2>1, <2>3, <2>4, ThenUnwind
<1> QED
  BY <1>4, <1>5

\* A statement that may fail does so.
LEMMA FailInv ==
    ASSUME ScopesInv, ctl = Run, NothingToLose(Top), HandleErrors(frames, Top),
           count' \in [Blocks -> Nat], uses' = uses
    PROVE  ScopesInv'
<1>1. /\ FramesOK(uses, frames, Len(Innermost(frames[Len(frames)]).syms))
      /\ Top = frames[Len(frames)] /\ Steady(uses, Top)
  BY AtStatement
<1>2. PICK live \in Nat : live = Len(Innermost(Top).syms)
  BY <1>1, FrameFacts DEF Steady
<1>3. AtError(Top, live)
  BY <1>2 DEF AtError
<1>4. uses = {} => NothingHeld(Top)
  BY DEF NothingToLose, NothingHeld
<1> QED
  BY <1>1, <1>2, <1>3, <1>4, HandlerInv

-----------------------------------------------------------------------------
(* Names and values *)

LEMMA SymbolsInRange ==
    ASSUME NEW u, NEW f, NEW live, FrameOK(u, f, live)
    PROVE  /\ Symbols(f) \subseteq Slots
           /\ 1 \in 1 .. Len(f.blocks) /\ ToSet(f.blocks[1].syms) \subseteq Symbols(f)
<1>1. f.blocks \in Seq(Blk) /\ Len(f.blocks) \in Nat /\ Len(f.blocks) >= 1
  BY FrameFacts
<1>2. DOMAIN f.blocks = 1 .. Len(f.blocks)
      /\ \A k \in 1 .. Len(f.blocks) : f.blocks[k].syms \in Seq(Slots)
  BY <1>1, BlocksLemma
<1>3. \A k \in 1 .. Len(f.blocks) : ToSet(f.blocks[k].syms) \subseteq Slots
  BY <1>2, ToSetLemma
<1>4. 1 \in 1 .. Len(f.blocks)
  BY <1>1
<1> QED
  BY <1>2, <1>3, <1>4 DEF Symbols

LEMMA ValueFacts ==
    ASSUME NEW u, NEW live, FramesOK(u, frames, live), NEW x \in Names
    PROVE  /\ x[1] \in 1 .. Len(frames) /\ x[2] \in Slots
           /\ Value(x) = frames[x[1]].slots[x[2]] /\ Value(x) \in Values
<1>1. /\ Len(frames) \in 1 .. Len(frames) /\ 1 \in 1 .. Len(frames)
      /\ \A i \in 1 .. Len(frames) : \E l : FrameOK(u, frames[i], l)
  <2>1. PICK n \in Nat \ {0} : n = Len(frames)
    BY FramesFacts
  <2>2. n \in 1 .. n /\ 1 \in 1 .. n
    OBVIOUS
  <2> QED
    BY <2>1, <2>2, FramesFacts
<1>2. \A i \in 1 .. Len(frames) : /\ Symbols(frames[i]) \subseteq Slots
                                  /\ ToSet(frames[i].blocks[1].syms) \subseteq Slots
                                  /\ frames[i].slots \in [Slots -> Values]
  BY <1>1, SymbolsInRange, FrameFacts
<1>3. x[1] \in 1 .. Len(frames) /\ x[2] \in Slots
  <2>1. CASE x \in {<<Len(frames), s>> : s \in Symbols(Top)}
    BY <1>1, <1>2, <2>1 DEF Top
  <2>2. CASE x \in {<<1, s>> : s \in ToSet(frames[1].blocks[1].syms)}
    BY <1>1, <1>2, <2>2
  <2> QED
    BY <2>1, <2>2 DEF Names
<1>4. Value(x) = frames[x[1]].slots[x[2]]
  BY DEF Value
<1> QED
  BY <1>2, <1>3, <1>4

LEMMA ValidFacts ==
    ASSUME count \in [Blocks -> Nat], NEW v
    PROVE  /\ Valid(v) => v \in Blocks \cup {Empty} /\ v \in Values /\ v # Wild
           /\ InUse(v) => v \in Blocks /\ v \in Values /\ v # Wild /\ count[v] > 0
           /\ v \in Blocks => v \in Values /\ v # Wild
           /\ Empty \in Values /\ Empty # Wild
BY SlotsLemma DEF Valid, InUse

\* REF adds one and DEREF of a block in use takes one away.
LEMMA AddFacts ==
    ASSUME NEW cnt \in [Blocks -> Nat], NEW v \in Blocks \cup {Empty}
    PROVE  /\ Add(cnt, v, 1) \in [Blocks -> Nat]
           /\ (v # Empty => cnt[v] > 0) => Add(cnt, v, -1) \in [Blocks -> Nat]
<1>1. CASE v = Empty
  BY <1>1 DEF Add
<1>2. CASE v # Empty
  <2>1. cnt[v] \in Nat /\ v \in Blocks
    BY <1>2
  <2>2. PICK k \in Nat : k = cnt[v]
    BY <2>1
  <2>3. Add(cnt, v, 1) = [cnt EXCEPT ![v] = k + 1]
    BY <1>2, <2>2 DEF Add
  <2>4. Add(cnt, v, -1) = [cnt EXCEPT ![v] = k + -1]
    BY <1>2, <2>2 DEF Add
  <2>5. \A w \in Nat : [cnt EXCEPT ![v] = w] \in [Blocks -> Nat]
    BY <2>1
  <2>6. Add(cnt, v, 1) \in [Blocks -> Nat]
    BY <2>2, <2>3, <2>5
  <2>7. k > 0 => Add(cnt, v, -1) \in [Blocks -> Nat]
    BY <2>2, <2>4, <2>5
  <2> QED
    BY <1>2, <2>2, <2>6, <2>7
<1> QED
  BY <1>1, <1>2

\* A variable of a procedure in progress is assigned.
Assigned(u, fs, j, s, v, r) ==
    /\ j \in 1 .. Len(fs) /\ v \in Values /\ (u = {} => v # Wild)
    /\ r = [fs EXCEPT ![j].slots[s] = v]

LEMMA FramesSlot ==
    ASSUME NEW u, NEW fs, NEW live, FramesOK(u, fs, live), NEW j, NEW s, NEW v, NEW r,
           Assigned(u, fs, j, s, v, r)
    PROVE  FramesOK(u, r, live) /\ Len(r) = Len(fs) /\ SameButSlots(fs[Len(fs)], r[Len(r)])
<1> USE DEF Assigned
<1>1. PICK n \in Nat \ {0} : n = Len(fs) /\ n <= MaxFrames /\ n \in 1 .. n /\ DOMAIN fs = 1 .. n
  BY FramesFacts
<1>2. PICK S : fs \in Seq(S)
  BY DEF FramesOK
<1>3. PICK g : g = [fs[j] EXCEPT !.slots[s] = v]
  OBVIOUS
<1>4. PICK T : T = S \cup {g}
  OBVIOUS
<1>5. fs \in Seq(T) /\ g \in T
  <2>1. \A i \in 1 .. Len(fs) : fs[i] \in T
    BY <1>2, <1>4, ElementOfSeq
  <2> QED
    BY <1>2, <1>4, <2>1, SeqOfElements
<1>6. /\ r \in Seq(T) /\ Len(r) = n
      /\ \A i \in 1 .. n : r[i] = IF i = j THEN g ELSE fs[i]
  <2>1. r = [fs EXCEPT ![j] = g]
    BY <1>3
  <2> QED
    BY <1>1, <1>5, <2>1, ExceptSeq
<1>7. ASSUME NEW i \in 1 .. n, NEW l, FrameOK(u, fs[i], l)
      PROVE  FrameOK(u, r[i], l) /\ SameButSlots(fs[i], r[i])
  <2>1. CASE i = j
    <3>1. FrameOK(u, g, l) /\ SameButSlots(fs[i], g)
      BY <1>3, <1>7, <2>1, SetSlotOK
    <3> QED
      BY <1>6, <2>1, <3>1
  <2>2. CASE i # j
    BY <1>6, <1>7, <2>2 DEF SameButSlots
  <2> QED
    BY <2>1, <2>2
<1>8. \A i \in 1 .. n : SameButSlots(fs[i], r[i])
  <2> TAKE i \in 1 .. n
  <2>1. PICK l : FrameOK(u, fs[i], l)
    BY <1>1, FramesFacts
  <2> QED
    BY <1>7, <2>1
<1>9. ASSUME NEW i \in 1 .. n - 1
      PROVE  Steady(u, r[i]) /\ Caller(u, r[i], r[i + 1])
  <2>1. Steady(u, fs[i]) /\ Caller(u, fs[i], fs[i + 1])
    BY <1>1 DEF FramesOK
  <2>2. i \in 1 .. n /\ i + 1 \in 1 .. n
    BY <1>1
  <2>3. SameButSlots(fs[i], r[i]) /\ SameButSlots(fs[i + 1], r[i + 1])
    BY <1>8, <2>2
  <2>4. FrameOK(u, r[i], Len(Innermost(fs[i]).syms))
    BY <1>7, <2>1, <2>2 DEF Steady
  <2>5. Innermost(r[i]) = Innermost(fs[i]) /\ TryLevels(r[i]) = TryLevels(fs[i])
    BY <2>3 DEF SameButSlots, Innermost, TryLevels
  <2>6. NothingHeld(fs[i]) => NothingHeld(r[i])
    BY <2>3, <2>5 DEF NothingHeld, SameButSlots
  <2>7. Room(fs[i]) => Room(r[i])
    BY <2>3 DEF Room, SameButSlots
  <2>8. r[i + 1].kind = fs[i + 1].kind
    BY <2>3 DEF SameButSlots
  <2>9. Steady(u, r[i])
    BY <2>4, <2>5 DEF Steady
  <2> QED
    BY <2>1, <2>6, <2>7, <2>8, <2>9 DEF Caller
<1>10. \A i \in 1 .. n : r[i].kind = "main" <=> i = 1
  <2>1. \A i \in 1 .. n : r[i].kind = fs[i].kind
    BY <1>8 DEF SameButSlots
  <2> QED
    BY <1>1, <2>1 DEF FramesOK
<1>11. FrameOK(u, r[n], live)
  <2>1. FrameOK(u, fs[n], live)
    BY <1>1 DEF FramesOK
  <2> QED
    BY <1>1, <1>7, <2>1
<1>12. n \in 1 .. MaxFrames
  BY <1>1, SlotsLemma
<1>13. FramesOK(u, r, live)
  BY <1>6, <1>9, <1>10, <1>11, <1>12 DEF FramesOK
<1> QED
  BY <1>1, <1>6, <1>8, <1>13

-----------------------------------------------------------------------------
(* Statements *)

LEMMA TopStep ==
    ASSUME ScopesInv, ctl = Run, uses' = uses, NEW g, Steady(uses, g), g.kind = Top.kind,
           frames' = WithTop(g), Data', UNCHANGED <<eflag, ctl>>
    PROVE  ScopesInv'
<1>1. /\ FramesOK(uses, frames, Len(Innermost(frames[Len(frames)]).syms))
      /\ Top = frames[Len(frames)] /\ ~eflag
  BY AtStatement
<1>2. Changes(frames, g, frames')
  BY <1>1 DEF Changes, WithTop
<1>3. FramesOK(uses, frames', Len(Innermost(frames'[Len(frames')]).syms))
  BY <1>1, <1>2, FramesTopSteady
<1>4. eflag' = FALSE /\ ctl' = Run
  BY <1>1 DEF ScopesInv
<1> QED
  BY <1>3, <1>4, ThenRun

LEMMA AssignStep ==
    ASSUME ScopesInv, ctl = Run, uses' = uses, NEW x \in Names, NEW v \in Values,
           uses = {} => v # Wild, frames' = [frames EXCEPT ![x[1]].slots[x[2]] = v],
           Data', UNCHANGED <<eflag, ctl>>
    PROVE  ScopesInv'
<1>1. PICK live : /\ FramesOK(uses, frames, live) /\ live = Len(Innermost(frames[Len(frames)]).syms)
  BY AtStatement
<1>2. ~eflag
  BY AtStatement
<1>3. PICK j, s : j = x[1] /\ s = x[2]
  OBVIOUS
<1>4. j \in 1 .. Len(frames)
  BY <1>1, <1>3, ValueFacts
<1>5. Assigned(uses, frames, j, s, v, frames')
  BY <1>3, <1>4 DEF Assigned
<1>6. /\ FramesOK(uses, frames', live) /\ Len(frames') = Len(frames)
      /\ SameButSlots(frames[Len(frames)], frames'[Len(frames')])
  BY <1>1, <1>4, <1>5, FramesSlot
<1>7. live = Len(Innermost(frames'[Len(frames')]).syms)
  BY <1>1, <1>6 DEF SameButSlots, Innermost
<1>8. eflag' = FALSE /\ ctl' = Run
  BY <1>2 DEF ScopesInv
<1> QED
  BY <1>6, <1>7, <1>8, ThenRun

LEMMA DeclareEmptyInv ==
    ASSUME ScopesInv, DeclareEmpty, uses' = uses
    PROVE  ScopesInv'
<1>1. Steady(uses, Top) /\ Room(Top) /\ ctl = Run
  BY AtStatement DEF DeclareEmpty
<1>2. PICK g : g = NewRef(Top, Empty)
  OBVIOUS
<1>3. Steady(uses, g) /\ g.kind = Top.kind
  BY <1>1, <1>2, NewRefSteady, SlotsLemma
<1>4. frames' = WithTop(g) /\ Data' /\ UNCHANGED <<eflag, ctl>>
  BY <1>2 DEF DeclareEmpty, Data, ScopesInv
<1> QED
  BY <1>1, <1>3, <1>4, TopStep

LEMMA DeclareCopyInv ==
    ASSUME ScopesInv, NEW y \in Names, DeclareCopy(y), uses' = uses
    PROVE  ScopesInv'
<1>1. CASE ~Valid(Value(y))
  <2>1. Crash
    BY <1>1 DEF DeclareCopy
  <2> QED
    BY <2>1, CrashInv
<1>2. CASE Valid(Value(y))
  <2>1. PICK v : v = Value(y)
    OBVIOUS
  <2>2. /\ Steady(uses, Top) /\ Room(Top) /\ ctl = Run /\ count \in [Blocks -> Nat]
        /\ ret \in Blocks \cup {Empty}
    BY AtStatement DEF DeclareCopy
  <2>3. v \in Values /\ v # Wild /\ v \in Blocks \cup {Empty}
    BY <1>2, <2>1, <2>2, ValidFacts
  <2>4. PICK g : g = NewRef(Top, v)
    OBVIOUS
  <2>5. Steady(uses, g) /\ g.kind = Top.kind
    BY <2>2, <2>3, <2>4, NewRefSteady
  <2>6. frames' = WithTop(g) /\ UNCHANGED <<eflag, ctl, ret>> /\ count' = Add(count, v, 1)
    BY <1>2, <2>1, <2>4 DEF DeclareCopy
  <2>7. Data'
    BY <2>2, <2>3, <2>6, AddFacts DEF Data
  <2> QED
    BY <2>2, <2>5, <2>6, <2>7, TopStep
<1> QED
  BY <1>1, <1>2

LEMMA FreshFacts ==
    ASSUME ScopesInv, NEW b \in Blocks, NEW cnt \in [Blocks -> Nat]
    PROVE  /\ b \in Values /\ b # Wild
           /\ count' = [cnt EXCEPT ![b] = 1] /\ ret' = ret => Data'
<1>1. b \in Values /\ b # Wild
  BY SlotsLemma
<1>2. [cnt EXCEPT ![b] = 1] \in [Blocks -> Nat]
  OBVIOUS
<1>3. ret \in Blocks \cup {Empty}
  BY DEF ScopesInv
<1> QED
  BY <1>1, <1>2, <1>3 DEF Data

LEMMA DeclareConstInv ==
    ASSUME ScopesInv, NEW b \in Blocks, DeclareConst(b), uses' = uses
    PROVE  ScopesInv'
<1>1. Steady(uses, Top) /\ Room(Top) /\ ctl = Run /\ count \in [Blocks -> Nat]
  BY AtStatement DEF DeclareConst
<1>2. PICK g : g = NewRef(Top, b)
  OBVIOUS
<1>3. b \in Values /\ b # Wild /\ Data'
  BY <1>1, FreshFacts DEF DeclareConst
<1>4. Steady(uses, g) /\ g.kind = Top.kind
  BY <1>1, <1>2, <1>3, NewRefSteady
<1>5. frames' = WithTop(g) /\ UNCHANGED <<eflag, ctl>>
  BY <1>2 DEF DeclareConst
<1> QED
  BY <1>1, <1>3, <1>4, <1>5, TopStep

LEMMA DeclareFailsInv ==
    ASSUME ScopesInv, DeclareFails, uses' = uses
    PROVE  ScopesInv'
<1>1. /\ ctl = Run /\ NothingToLose(Top) /\ HandleErrors(frames, Top)
      /\ count' = count
  BY DEF DeclareFails, MayFail
<1>2. count' \in [Blocks -> Nat]
  BY <1>1, AtStatement
<1> QED
  BY <1>1, <1>2, FailInv

LEMMA AssignVarInv ==
    ASSUME ScopesInv, NEW x \in Names, NEW y \in Names, AssignVar(x, y), uses' = uses
    PROVE  ScopesInv'
<1>1. PICK v, w, left : v = Value(x) /\ w = Value(y) /\ left = Add(count, v, -1)
  OBVIOUS
<1>2. PICK ok \in BOOLEAN : ok <=> Valid(v) /\ (w = Empty \/ (InUse(w) /\ left[w] > 0))
  OBVIOUS
<1>3. CASE ~ok
  <2>1. Crash
    BY <1>1, <1>2, <1>3 DEF AssignVar
  <2> QED
    BY <2>1, CrashInv
<1>4. CASE ok
  <2>1. ctl = Run /\ count \in [Blocks -> Nat] /\ ret \in Blocks \cup {Empty}
    BY AtStatement DEF AssignVar
  <2>2. /\ count' = Add(left, w, 1) /\ frames' = [frames EXCEPT ![x[1]].slots[x[2]] = w]
        /\ UNCHANGED <<eflag, ctl, ret>>
    BY <1>1, <1>2, <1>4 DEF AssignVar
  <2>3. v \in Blocks \cup {Empty} /\ (v # Empty => count[v] > 0)
    BY <1>2, <1>4, <2>1, ValidFacts DEF Valid
  <2>4. w \in Blocks \cup {Empty} /\ w \in Values /\ w # Wild
    BY <1>2, <1>4, <2>1, ValidFacts
  <2>5. left \in [Blocks -> Nat]
    BY <1>1, <2>1, <2>3, AddFacts
  <2>6. Data'
    BY <2>1, <2>2, <2>4, <2>5, AddFacts DEF Data
  <2> QED
    BY <2>1, <2>2, <2>4, <2>6, AssignStep
<1> QED
  BY <1>3, <1>4

LEMMA AssignEmptyInv ==
    ASSUME ScopesInv, NEW x \in Names, AssignEmpty(x), uses' = uses
    PROVE  ScopesInv'
<1>1. PICK v : v = Value(x)
  OBVIOUS
<1>2. CASE ~Valid(v)
  <2>1. Crash
    BY <1>1, <1>2 DEF AssignEmpty
  <2> QED
    BY <2>1, CrashInv
<1>3. CASE Valid(v)
  <2>1. ctl = Run /\ count \in [Blocks -> Nat] /\ ret \in Blocks \cup {Empty}
    BY AtStatement DEF AssignEmpty
  <2>2. /\ count' = Add(count, v, -1) /\ frames' = [frames EXCEPT ![x[1]].slots[x[2]] = Empty]
        /\ UNCHANGED <<eflag, ctl, ret>>
    BY <1>1, <1>3 DEF AssignEmpty
  <2>3. v \in Blocks \cup {Empty} /\ (v # Empty => count[v] > 0)
    BY <1>3, <2>1, ValidFacts DEF Valid
  <2>4. Data' /\ Empty \in Values /\ Empty # Wild
    BY <2>1, <2>2, <2>3, AddFacts, SlotsLemma DEF Data
  <2> QED
    BY <2>1, <2>2, <2>4, AssignStep
<1> QED
  BY <1>2, <1>3

LEMMA AssignConstInv ==
    ASSUME ScopesInv, NEW x \in Names, NEW b \in Blocks, AssignConst(x, b), uses' = uses
    PROVE  ScopesInv'
<1>1. PICK v, left : v = Value(x) /\ left = Add(count, v, -1)
  OBVIOUS
<1>2. CASE ~Valid(v)
  <2>1. Crash
    BY <1>1, <1>2 DEF AssignConst
  <2> QED
    BY <2>1, CrashInv
<1>3. CASE Valid(v)
  <2>1. ctl = Run /\ count \in [Blocks -> Nat]
    BY AtStatement DEF AssignConst
  <2>2. /\ count' = [left EXCEPT ![b] = 1] /\ frames' = [frames EXCEPT ![x[1]].slots[x[2]] = b]
        /\ UNCHANGED <<eflag, ctl, ret>>
    BY <1>1, <1>3 DEF AssignConst
  <2>3. v \in Blocks \cup {Empty} /\ (v # Empty => count[v] > 0)
    BY <1>3, <2>1, ValidFacts DEF Valid
  <2>4. left \in [Blocks -> Nat]
    BY <1>1, <2>1, <2>3, AddFacts
  <2>5. Data' /\ b \in Values /\ b # Wild
    BY <2>2, <2>4, FreshFacts
  <2> QED
    BY <2>1, <2>2, <2>5, AssignStep
<1> QED
  BY <1>2, <1>3

LEMMA AssignFailsInv ==
    ASSUME ScopesInv, NEW x \in Names, AssignFails(x), uses' = uses
    PROVE  ScopesInv'
<1>1. PICK v : v = Value(x)
  OBVIOUS
<1>2. CASE ~Valid(v)
  <2>1. Crash
    BY <1>1, <1>2 DEF AssignFails
  <2> QED
    BY <2>1, CrashInv
<1>3. CASE Valid(v)
  <2>1. PICK w : w = IF v = Empty THEN Wild ELSE v
    OBVIOUS
  <2>2. PICK stored : stored = [frames EXCEPT ![x[1]].slots[x[2]] = w]
    OBVIOUS
  <2>3. /\ Steady(uses, Top) /\ Top = frames[Len(frames)] /\ count \in [Blocks -> Nat]
        /\ FramesOK(uses, frames, Len(Innermost(frames[Len(frames)]).syms))
    BY AtStatement DEF AssignFails
  <2>4. PICK live \in Nat : live = Len(Innermost(Top).syms)
    BY <2>3, FrameFacts DEF Steady
  <2>5. FramesOK(uses, frames, live)
    BY <2>3, <2>4
  <2>6. /\ count' = Add(count, v, -1) /\ HandleErrors(stored, Last(stored))
        /\ uses # {} /\ NothingToLose(Top)
    <3>1. Value(x) = frames[x[1]].slots[x[2]]
      BY <2>5, ValueFacts
    <3>2. stored = [frames EXCEPT ![x[1]].slots[x[2]] = IF @ = Empty THEN Wild ELSE @]
      BY <1>1, <2>1, <2>2, <3>1
    <3> QED
      BY <1>1, <1>3, <3>2 DEF AssignFails, MayFail
  <2>7. count' \in [Blocks -> Nat]
    <3>1. v \in Blocks \cup {Empty} /\ (v # Empty => count[v] > 0)
      BY <1>3, <2>3, ValidFacts DEF Valid
    <3> QED
      BY <2>3, <2>6, <3>1, AddFacts
  <2>8. PICK j, s : j = x[1] /\ s = x[2]
    OBVIOUS
  <2>9. Assigned(uses, frames, j, s, w, stored)
    <3>1. w \in Values
      BY <1>3, <2>1, <2>3, ValidFacts, SlotsLemma
    <3>2. j \in 1 .. Len(frames)
      BY <2>5, <2>8, ValueFacts
    <3> QED
      BY <2>2, <2>6, <2>8, <3>1, <3>2 DEF Assigned
  <2>10. /\ FramesOK(uses, stored, live)
         /\ SameButSlots(frames[Len(frames)], stored[Len(stored)])
    BY <2>5, <2>9, FramesSlot
  <2>11. AtError(stored[Len(stored)], live)
    <3>1. live = Len(Innermost(stored[Len(stored)]).syms)
      BY <2>3, <2>4, <2>10 DEF SameButSlots, Innermost
    <3> QED
      BY <3>1 DEF AtError
  <2>12. Last(stored) = stored[Len(stored)]
    BY DEF Last
  <2> QED
    BY <2>6, <2>7, <2>10, <2>11, <2>12, HandlerInv
<1> QED
  BY <1>2, <1>3

LEMMA EmptySliceInv ==
    ASSUME ScopesInv, EmptySlice, uses' = uses
    PROVE  ScopesInv'
<1>1. Steady(uses, Top) /\ Room(Top) /\ ctl = Run /\ uses # {}
  BY AtStatement DEF EmptySlice
<1>2. PICK g : g = Insert(Top, Empty)
  OBVIOUS
<1>3. Steady(uses, g) /\ g.kind = Top.kind
  BY <1>1, <1>2, InsertSteady, SlotsLemma
<1>4. frames' = WithTop(g) /\ Data' /\ UNCHANGED <<eflag, ctl>>
  BY <1>2 DEF EmptySlice, Data, ScopesInv
<1> QED
  BY <1>1, <1>3, <1>4, TopStep

\* A call whose new frame is g.
LEMMA CallStep ==
    ASSUME ScopesInv, ctl = Run, uses' = uses, Len(frames) < MaxFrames, MayFail(Top),
           NEW kind \in {"proc", "fn"}, kind = "fn" => Room(Top),
           NEW g, Steady(uses, g), g.kind = kind, frames' = Append(frames, g),
           Data', UNCHANGED <<eflag, ctl>>
    PROVE  ScopesInv'
<1>1. /\ FramesOK(uses, frames, Len(Innermost(frames[Len(frames)]).syms))
      /\ Top = frames[Len(frames)] /\ ~eflag
  BY AtStatement
<1>2. Caller(uses, frames[Len(frames)], g)
  BY <1>1 DEF Caller, MayFail, NothingToLose, NothingHeld
<1>3. g.kind \in {"proc", "fn"}
  OBVIOUS
<1>4. FramesOK(uses, frames', Len(Innermost(frames'[Len(frames')]).syms))
  BY <1>1, <1>2, <1>3, FramesCall
<1>5. eflag' = FALSE /\ ctl' = Run
  BY <1>1 DEF ScopesInv
<1> QED
  BY <1>4, <1>5, ThenRun

LEMMA CallInv ==
    ASSUME ScopesInv, NEW kind \in {"proc", "fn"}, Call(kind), uses' = uses
    PROVE  ScopesInv'
<1>1. PICK g : g = NewFrame(kind)
  OBVIOUS
<1>2. Steady(uses, g) /\ g.kind = kind
  BY <1>1, NewFrameSteady
<1>3. /\ ctl = Run /\ Len(frames) < MaxFrames /\ MayFail(Top) /\ (kind = "fn" => Room(Top))
      /\ frames' = Append(frames, g) /\ UNCHANGED <<count, eflag, ctl, ret>>
  BY <1>1 DEF Call
<1>4. Data'
  BY <1>3 DEF Data, ScopesInv
<1> QED
  BY <1>2, <1>3, <1>4, CallStep

LEMMA CallWithInv ==
    ASSUME ScopesInv, NEW kind \in {"proc", "fn"}, NEW x \in Names, CallWith(kind, x),
           uses' = uses
    PROVE  ScopesInv'
<1>1. PICK v : v = Value(x)
  OBVIOUS
<1>2. CASE ~Valid(v)
  <2>1. Crash
    BY <1>1, <1>2 DEF CallWith
  <2> QED
    BY <2>1, CrashInv
<1>3. CASE Valid(v)
  <2>1. ctl = Run /\ count \in [Blocks -> Nat] /\ ret \in Blocks \cup {Empty}
    BY AtStatement DEF CallWith
  <2>2. PICK n, g : n = NewFrame(kind) /\ g = NewRef(n, v)
    OBVIOUS
  <2>3. v \in Values /\ v # Wild /\ v \in Blocks \cup {Empty}
    BY <1>3, <2>1, ValidFacts
  <2>4. Steady(uses, n) /\ n.kind = kind /\ Room(n)
    BY <2>2, NewFrameSteady
  <2>5. Steady(uses, g) /\ g.kind = kind
    BY <2>2, <2>3, <2>4, NewRefSteady
  <2>6. /\ Len(frames) < MaxFrames /\ MayFail(Top) /\ (kind = "fn" => Room(Top))
        /\ frames' = Append(frames, g) /\ UNCHANGED <<eflag, ctl, ret>>
        /\ count' = Add(count, v, 1)
    BY <1>1, <1>3, <2>2 DEF CallWith
  <2>7. Data'
    BY <2>1, <2>3, <2>6, AddFacts DEF Data
  <2> QED
    BY <2>1, <2>5, <2>6, <2>7, CallStep
<1> QED
  BY <1>2, <1>3

\* The procedure goes to its end, without an error.
LEMMA EndStep ==
    ASSUME ScopesInv, ctl = Run, uses' = uses, ctl' = Unwind, Data', UNCHANGED <<frames, eflag>>
    PROVE  ScopesInv'
<1>1. /\ FramesOK(uses, frames, Len(Innermost(frames[Len(frames)]).syms))
      /\ ~eflag /\ eflag \in BOOLEAN
  BY AtStatement DEF ScopesInv
<1>2. FramesOK(uses, frames', Len(Innermost(frames[Len(frames)]).syms))
  BY <1>1
<1>3. eflag' \in BOOLEAN /\ ErrorsTrapped'
  BY <1>1 DEF ErrorsTrapped
<1> QED
  BY <1>2, <1>3, ThenUnwind

LEMMA EndProcInv ==
    ASSUME ScopesInv, EndProc \/ EndMain, uses' = uses
    PROVE  ScopesInv'
<1>1. ctl = Run /\ ctl' = Unwind /\ UNCHANGED <<frames, eflag, count, ret>>
  BY DEF EndProc, EndMain
<1>2. Data'
  BY <1>1 DEF ScopesInv, Data
<1> QED
  BY <1>1, <1>2, EndStep

LEMMA ReturnInv ==
    ASSUME ScopesInv, NEW x \in Names, Return(x), uses' = uses
    PROVE  ScopesInv'
<1>1. PICK v : v = Value(x)
  OBVIOUS
<1>2. CASE ~Valid(v)
  <2>1. Crash
    BY <1>1, <1>2 DEF Return
  <2> QED
    BY <2>1, CrashInv
<1>3. CASE Valid(v)
  <2>1. ctl = Run /\ count \in [Blocks -> Nat]
    BY AtStatement DEF Return
  <2>2. v \in Blocks \cup {Empty}
    BY <1>3, <2>1, ValidFacts
  <2>3. /\ ret' = v /\ count' = Add(count, v, 1) /\ ctl' = Unwind
        /\ UNCHANGED <<frames, eflag>>
    BY <1>1, <1>3 DEF Return
  <2>4. Data'
    BY <2>1, <2>2, <2>3, AddFacts DEF Data
  <2> QED
    BY <2>1, <2>3, <2>4, EndStep
<1> QED
  BY <1>2, <1>3

LEMMA EnterBlockInv ==
    ASSUME ScopesInv, NEW kind \in {"block", "loop", "try"}, EnterBlock(kind), uses' = uses
    PROVE  ScopesInv'
<1>1. /\ ctl = Run /\ Level(Top) < MaxLevel /\ UNCHANGED <<count, eflag, ctl, ret>>
  BY DEF EnterBlock
<1>2. Steady(uses, Top)
  BY <1>1, AtStatement
<1>3. Data'
  BY <1>1 DEF ScopesInv, Data
<1>4. CASE kind = "try"
  <2>1. PICK g : g = WithTry(Top)
    OBVIOUS
  <2>2. Steady(uses, g) /\ g.kind = Top.kind
    BY <1>1, <1>2, <2>1, TrySteady
  <2>3. frames' = WithTop(g)
    BY <1>4, <2>1 DEF EnterBlock, WithTry
  <2> QED
    BY <1>1, <1>3, <2>2, <2>3, TopStep
<1>5. CASE kind \in {"block", "loop"}
  <2>1. PICK g : g = [Top EXCEPT !.blocks = Append(@, Block(kind, Top.next))]
    OBVIOUS
  <2>2. Steady(uses, g) /\ g.kind = Top.kind
    BY <1>1, <1>2, <1>5, <2>1, BlockSteady
  <2>3. frames' = WithTop(g)
    BY <1>5, <2>1 DEF EnterBlock
  <2> QED
    BY <1>1, <1>3, <2>2, <2>3, TopStep
<1> QED
  BY <1>4, <1>5

LEMMA EnterWhileInv ==
    ASSUME ScopesInv, NEW b \in Blocks, EnterWhile(b), uses' = uses
    PROVE  ScopesInv'
<1>1. /\ ctl = Run /\ Level(Top) < MaxLevel /\ Room(Top) /\ uses # {}
      /\ count' = [count EXCEPT ![b] = 1] /\ UNCHANGED <<eflag, ctl, ret>>
  BY DEF EnterWhile
<1>2. Steady(uses, Top) /\ count \in [Blocks -> Nat]
  BY <1>1, AtStatement
<1>3. b \in Values /\ Data'
  BY <1>1, <1>2, FreshFacts
<1>4. PICK g : g = [NewRef(Top, b) EXCEPT !.blocks =
                       Append(@, [Block("loop", NewRef(Top, b).next) EXCEPT !.cond = Top.next])]
  OBVIOUS
<1>5. Steady(uses, g) /\ g.kind = Top.kind
  BY <1>1, <1>2, <1>3, <1>4, WhileSteady
<1>6. frames' = WithTop(g)
  BY <1>4 DEF EnterWhile
<1> QED
  BY <1>1, <1>3, <1>5, <1>6, TopStep

LEMMA OnErrorInv ==
    ASSUME ScopesInv, OnError, uses' = uses
    PROVE  ScopesInv'
<1>1. /\ ctl = Run /\ Room(Top) /\ ~Top.inHandler /\ TryLevels(Top) = {}
      /\ UNCHANGED <<count, eflag, ctl, ret>>
  BY DEF OnError
<1>2. Steady(uses, Top)
  BY <1>1, AtStatement
<1>3. Data'
  BY <1>1 DEF ScopesInv, Data
<1>4. PICK g : g = WithOnError(Top)
  OBVIOUS
<1>5. Steady(uses, g) /\ g.kind = Top.kind
  BY <1>1, <1>2, <1>4, OnErrorSteady
<1>6. frames' = WithTop(g)
  BY <1>4 DEF OnError, WithOnError
<1> QED
  BY <1>1, <1>3, <1>5, <1>6, TopStep

LEMMA RaiseErrorInv ==
    ASSUME ScopesInv, RaiseError, uses' = uses
    PROVE  ScopesInv'
<1>1. ctl = Run /\ count' = count
  BY DEF RaiseError
<1>2. /\ FramesOK(uses, frames, Len(Innermost(frames[Len(frames)]).syms))
      /\ count \in [Blocks -> Nat]
  BY <1>1, AtStatement
<1>3. CASE Top.inHandler
  <2>1. /\ TryLevels(Top) = {} \/ "HandlerTry" \in uses
        /\ eflag' = TRUE /\ ctl' = Unwind /\ ret' = Empty /\ frames' = frames
    BY <1>3 DEF RaiseError
  <2>2. uses = {} => ErrorsTrapped'
    BY <1>3, <2>1 DEF ErrorsTrapped, Top
  <2>3. Data' /\ eflag' \in BOOLEAN
    BY <1>1, <1>2, <2>1 DEF Data
  <2>4. FramesOK(uses, frames', Len(Innermost(frames[Len(frames)]).syms))
    BY <1>2, <2>1
  <2> QED
    BY <2>1, <2>2, <2>3, <2>4, ThenUnwind
<1>4. CASE ~Top.inHandler
  <2>1. NothingToLose(Top) /\ HandleErrors(frames, Top)
    BY <1>4 DEF RaiseError
  <2>2. count' \in [Blocks -> Nat]
    BY <1>1, <1>2
  <2> QED
    BY <1>1, <2>1, <2>2, FailInv
<1> QED
  BY <1>3, <1>4

LEMMA EndBlockInv ==
    ASSUME ScopesInv, EndBlock, uses' = uses
    PROVE  ScopesInv'
<1>1. /\ ctl = Run /\ Level(Top) > 0 /\ ctl' = Leave(Len(Innermost(Top).syms))
      /\ UNCHANGED <<frames, count, eflag, ret>>
  BY DEF EndBlock
<1>2. /\ FramesOK(uses, frames, Len(Innermost(frames[Len(frames)]).syms))
      /\ Top = frames[Len(frames)] /\ Steady(uses, Top) /\ ~eflag
  BY <1>1, AtStatement
<1>3. PICK n \in Nat : n = Len(Innermost(Top).syms)
  BY <1>2, FrameFacts DEF Steady
<1>4. Len(Top.blocks) > 1
  BY <1>1, <1>2, FrameFacts DEF Steady
<1>5. Data' /\ eflag' = FALSE
  BY <1>1, <1>2 DEF ScopesInv, Data
<1>6. FramesOK(uses, frames', n) /\ Leaving(frames'[Len(frames')], n)
  BY <1>1, <1>2, <1>3, <1>4 DEF Leaving
<1> QED
  BY <1>1, <1>3, <1>5, <1>6, ThenLeave

-----------------------------------------------------------------------------
(* The machine *)

LEMMA PopInv ==
    ASSUME ScopesInv, Pop, uses' = uses
    PROVE  ScopesInv'
<1>1. PICK v, g : /\ v = Top.slots[Last(Top.entries)]
                  /\ g = [Top EXCEPT !.entries = Front(@), !.counter = @ - 1]
  OBVIOUS
<1>2. CASE ~(Top.entries # <<>> /\ Valid(v))
  <2>1. Crash
    BY <1>1, <1>2 DEF Pop
  <2> QED
    BY <2>1, CrashInv
<1>3. CASE Top.entries # <<>> /\ Valid(v)
  <2>0. Pops(Top, g)
    BY <1>1, <1>3 DEF Pops
  <2>1. /\ count' = Add(count, v, -1) /\ frames' = WithTop(g)
        /\ ctl' = IF ctl.op = "leave" THEN Leave(ctl.left - 1) ELSE ctl
        /\ UNCHANGED <<eflag, ret>>
    BY <1>1, <1>3 DEF Pop
  <2>2. Data'
    <3>1. count \in [Blocks -> Nat] /\ ret \in Blocks \cup {Empty}
      BY DEF ScopesInv
    <3>2. v \in Blocks \cup {Empty} /\ (v # Empty => count[v] > 0)
      BY <1>3, <3>1, ValidFacts DEF Valid
    <3> QED
      BY <2>1, <3>1, <3>2, AddFacts DEF Data
  <2>3. ASSUME NEW n, ctl = Leave(n)
        PROVE  ScopesInv'
    <3>1. n \in Nat \ {0}
      <4>1. n \in Nat /\ n > 0
        BY <2>3, AtLeave, CtlFacts DEF Pop
      <4> QED
        BY <4>1
    <3>2. /\ FramesOK(uses, frames, n) /\ Top = frames[Len(frames)] /\ FrameOK(uses, Top, n)
          /\ ~eflag /\ Len(Top.blocks) > 1
      BY <2>3, AtLeave
    <3>3. FrameOK(uses, g, n - 1) /\ g.kind = Top.kind /\ g.blocks = Top.blocks
      BY <2>0, <3>1, <3>2, PopOK
    <3>4. Changes(frames, g, frames')
      BY <2>1, <3>2, <3>3 DEF Changes, WithTop
    <3>5. FramesOK(uses, frames', n - 1) /\ frames'[Len(frames')] = g
      BY <3>2, <3>3, <3>4, FramesTop
    <3>6. ctl' = Leave(n - 1)
      BY <2>1, <2>3, CtlFacts
    <3>7. n - 1 \in Nat
      BY <3>1
    <3>8. eflag' = FALSE
      BY <2>1, <3>2 DEF ScopesInv
    <3>9. Leaving(frames'[Len(frames')], n - 1)
      <4>1. Innermost(g) = Innermost(Top) /\ Len(g.blocks) > 1
        BY <3>2, <3>3 DEF Innermost
      <4>2. n <= Len(Innermost(Top).syms) /\ Len(Innermost(Top).syms) \in Nat
        BY <2>3, <3>2, AtLeave, FrameFacts
      <4> QED
        BY <3>1, <3>5, <4>1, <4>2 DEF Leaving
    <3> QED
      BY <2>2, <3>5, <3>6, <3>7, <3>8, <3>9, ThenLeave
  <2>4. CASE ctl = Unwind
    <3>1. /\ FramesOK(uses, frames, -1) /\ Top = frames[Len(frames)] /\ FrameOK(uses, Top, -1)
      BY <2>4, AtUnwind
    <3>2. /\ FrameOK(uses, g, -1) /\ g.kind = Top.kind /\ g.blocks = Top.blocks
          /\ g.handlers = Top.handlers /\ g.inHandler = Top.inHandler
      BY <2>0, <3>1, PopUnwound
    <3>3. Changes(frames, g, frames')
      BY <2>1, <3>1, <3>2 DEF Changes, WithTop
    <3>4. FramesOK(uses, frames', -1) /\ frames'[Len(frames')] = g
      BY <3>1, <3>2, <3>3, FramesTop
    <3>5. ctl' = Unwind
      BY <2>1, <2>4, CtlFacts
    <3>6. uses = {} => ErrorsTrapped'
      <4>1. uses = {} => ErrorsTrapped
        BY DEF ScopesInv
      <4>2. Top' = g
        BY <3>4 DEF Top
      <4>3. TryLevels(g) = TryLevels(Top)
        BY <3>2 DEF TryLevels
      <4>4. eflag' = eflag
        BY <2>1
      <4> QED
        BY <2>4, <3>2, <3>5, <4>1, <4>2, <4>3, <4>4 DEF ErrorsTrapped
    <3>7. eflag' \in BOOLEAN
      BY <2>1 DEF ScopesInv
    <3> QED
      BY <2>2, <3>4, <3>5, <3>6, <3>7, ThenUnwind
  <2>5. ctl = Unwind \/ \E n : ctl = Leave(n)
    <3>1. ctl.op \in {"leave", "unwind"}
      BY DEF Pop
    <3> QED
      BY <3>1, CtlFacts DEF ScopesInv, ProgramOK
  <2> QED
    BY <2>3, <2>4, <2>5
<1> QED
  BY <1>2, <1>3

\* The end of a block is followed by a statement, with g for the frame.
LEMMA BlockStep ==
    ASSUME ScopesInv, BlockDone, uses' = uses, NEW g, Steady(uses, g), g.kind = Top.kind,
           frames' = WithTop(g), Data', ctl' = Run, eflag' = FALSE
    PROVE  ScopesInv'
<1>1. FramesOK(uses, frames, 0) /\ Top = frames[Len(frames)]
  BY AtLeave DEF BlockDone
<1>2. Changes(frames, g, frames')
  BY <1>1 DEF Changes, WithTop
<1>3. FramesOK(uses, frames', Len(Innermost(frames'[Len(frames')]).syms))
  BY <1>1, <1>2, FramesTopSteady
<1> QED
  BY <1>3, ThenRun

LEMMA LeaveBlockInv ==
    ASSUME ScopesInv, LeaveBlock \/ LeaveTry, uses' = uses
    PROVE  ScopesInv'
<1>1. /\ BlockDone /\ frames' = WithTop(Outer(Top)) /\ ctl' = Run
      /\ Innermost(Top).kind \in {"block", "loop", "try"} /\ UNCHANGED <<count, ret>>
      /\ eflag' \in {FALSE, eflag}
  BY DEF LeaveBlock, LeaveTry
<1>2. FrameOK(uses, Top, 0) /\ Len(Top.blocks) > 1 /\ ~eflag
  BY <1>1, AtLeave DEF BlockDone
<1>3. PICK g : g = Outer(Top)
  OBVIOUS
<1>4. Steady(uses, g) /\ g.kind = Top.kind
  BY <1>1, <1>2, <1>3, OuterSteady
<1>5. Data' /\ eflag' = FALSE
  BY <1>1, <1>2 DEF Data, ScopesInv
<1>6. frames' = WithTop(g)
  BY <1>1, <1>3
<1> QED
  BY <1>1, <1>4, <1>5, <1>6, BlockStep

LEMMA LoopBackInv ==
    ASSUME ScopesInv, LoopBack, uses' = uses
    PROVE  ScopesInv'
<1>1. PICK loop, h : loop = Innermost(Top) /\ h = WithLoop(Top)
  OBVIOUS
<1>2. h = [Outer(Top) EXCEPT !.blocks = Append(@, [loop EXCEPT !.syms = <<>>]),
                             !.next = loop.start]
  BY <1>1 DEF WithLoop
<1>3. BlockDone /\ loop.kind = "loop" /\ ctl' = Run /\ UNCHANGED <<eflag, ret>>
  BY <1>1 DEF LoopBack
<1>4. FrameOK(uses, Top, 0) /\ Len(Top.blocks) > 1 /\ ~eflag /\ count \in [Blocks -> Nat]
  BY <1>3, AtLeave DEF BlockDone
<1>5. eflag' = FALSE
  BY <1>3, <1>4 DEF ScopesInv
<1>6. CASE frames' = WithTop(h) /\ UNCHANGED count
  <2>1. Steady(uses, h) /\ h.kind = Top.kind
    BY <1>1, <1>3, <1>4, LoopSteady
  <2>2. Data'
    BY <1>3, <1>6 DEF Data, ScopesInv
  <2> QED
    BY <1>3, <1>5, <1>6, <2>1, <2>2, BlockStep
<1>7. ASSUME NEW b \in Blocks, loop.cond # 0, h.counter < MaxSlots,
             frames' = WithTop(PushReference([h EXCEPT !.slots[loop.cond] = b], loop.cond)),
             count' = [count EXCEPT ![b] = 1]
      PROVE  ScopesInv'
  <2>1. PICK g : g = PushReference([h EXCEPT !.slots[loop.cond] = b], loop.cond)
    OBVIOUS
  <2>2. b \in Values /\ Data'
    BY <1>3, <1>4, <1>7, FreshFacts
  <2>3. CallsAgain(Top, b, h, g)
    BY <1>1, <1>7, <2>1 DEF CallsAgain
  <2>4. Steady(uses, g) /\ g.kind = Top.kind
    BY <1>1, <1>3, <1>4, <2>2, <2>3, LoopCallSteady
  <2>5. frames' = WithTop(g)
    BY <1>7, <2>1
  <2> QED
    BY <1>3, <1>5, <2>2, <2>4, <2>5, BlockStep
<1>8. \/ frames' = WithTop(h) /\ UNCHANGED count
      \/ \E b \in Blocks :
           /\ loop.cond # 0 /\ h.counter < MaxSlots
           /\ frames' = WithTop(PushReference([h EXCEPT !.slots[loop.cond] = b], loop.cond))
           /\ count' = [count EXCEPT ![b] = 1]
  BY <1>1, <1>2, Zenon DEF LoopBack
<1> QED
  BY <1>6, <1>7, <1>8

\* In a sound program a handler is left from its own level, which is in no TRY.
LEMMA HandlerInNoTry ==
    ASSUME NEW f, NEW live \in Nat, FrameOK({}, f, live), Innermost(f).kind = "handler"
    PROVE  TryLevels(f) = {}
<1>1. PICK E : Shaped(f, E) /\ Stacked(f, E, live)
  BY FrameEntries
<1>2. PICK m \in Nat : m = Len(f.blocks) /\ Innermost(f) = f.blocks[m] /\ DOMAIN f.blocks = 1 .. m
  BY <1>1, ShapedFacts, FrameLemma, BlocksLemma
<1>3. PICK base \in 1 .. m, off \in [1 .. m -> Nat] : Segments(f, live, base, off)
  BY <1>1, <1>2 DEF Stacked
<1>4. /\ \A k \in base + 1 .. m : f.blocks[k].kind # "handler"
      /\ \A k \in 1 .. base : f.blocks[k].kind # "try"
  BY <1>2, <1>3 DEF Segments
<1>5. base = m
  <2>1. ~(m \in base + 1 .. m)
    BY <1>2, <1>4
  <2> QED
    BY <1>2, <2>1
<1> QED
  BY <1>2, <1>4, <1>5 DEF TryLevels

LEMMA LeaveHandlerInv ==
    ASSUME ScopesInv, LeaveHandler, uses' = uses
    PROVE  ScopesInv'
<1>1. BlockDone /\ Innermost(Top).kind = "handler" /\ count' = count
  BY DEF LeaveHandler
<1>2. /\ FramesOK(uses, frames, 0) /\ Top = frames[Len(frames)] /\ FrameOK(uses, Top, 0)
      /\ count \in [Blocks -> Nat]
  BY <1>1, AtLeave DEF BlockDone
<1>3. CASE Top.handlers # <<>>
  <2>1. HandleErrors(frames, Top)
    BY <1>3 DEF LeaveHandler
  <2>2. AtError(Top, 0)
    BY <1>1 DEF AtError
  <2>3. uses = {} => NothingHeld(Top)
    BY <1>1, <1>2, HandlerInNoTry DEF NothingHeld
  <2>4. count' \in [Blocks -> Nat] /\ 0 \in Nat
    BY <1>1, <1>2
  <2> QED
    BY <1>2, <2>1, <2>2, <2>3, <2>4, HandlerInv
<1>4. CASE Top.handlers = <<>>
  <2>1. /\ eflag' = (Top.kind # "main") /\ ctl' = Unwind /\ ret' = Empty /\ frames' = frames
    BY <1>4 DEF LeaveHandler
  <2>2. TryLevels(Top) = {}
    BY <1>2, <1>4, FrameHandlers
  <2>3. ErrorsTrapped'
    BY <1>4, <2>1, <2>2 DEF ErrorsTrapped, Top
  <2>4. Data' /\ eflag' \in BOOLEAN
    BY <1>1, <1>2, <2>1 DEF Data
  <2>5. FramesOK(uses, frames', 0)
    BY <1>2, <2>1
  <2> QED
    BY <2>1, <2>3, <2>4, <2>5, ThenUnwind
<1> QED
  BY <1>3, <1>4

LEMMA RetInv ==
    ASSUME ScopesInv, Ret, uses' = uses
    PROVE  ScopesInv'
<1>1. PICK callers : callers = Front(frames)
  OBVIOUS
<1>2. PICK caller : caller = Last(callers) /\ caller = callers[Len(callers)]
  BY DEF Last
<1>3. ctl = Unwind /\ Len(frames) > 1
  BY DEF Ret
<1>4. /\ FramesOK(uses, frames, -1) /\ Top = frames[Len(frames)]
      /\ count \in [Blocks -> Nat] /\ ret \in Blocks \cup {Empty}
  BY <1>3, AtUnwind
<1>5. /\ FramesOK(uses, callers, Len(Innermost(callers[Len(callers)]).syms))
      /\ Steady(uses, caller) /\ Caller(uses, caller, Top)
  BY <1>1, <1>2, <1>3, <1>4, FramesReturn
<1>6. CASE Top.entries # <<>>
  <2>1. Crash
    BY <1>6 DEF Ret
  <2> QED
    BY <2>1, CrashInv
<1>7. CASE Top.entries = <<>> /\ eflag
  <2>1. HandleErrors(callers, caller) /\ count' = count
    BY <1>1, <1>2, <1>7 DEF Ret
  <2>2. PICK live \in Nat : live = Len(Innermost(caller).syms)
    BY <1>5, FrameFacts DEF Steady
  <2>3. AtError(caller, live) /\ (uses = {} => NothingHeld(caller))
    BY <1>5, <2>2 DEF AtError, Caller
  <2>4. FramesOK(uses, callers, live) /\ count' \in [Blocks -> Nat]
    BY <1>2, <1>4, <1>5, <2>1, <2>2
  <2> QED
    BY <1>2, <2>1, <2>3, <2>4, HandlerInv
<1>8. CASE Top.entries = <<>> /\ ~eflag
  <2>1. /\ frames' = IF Top.kind = "fn" THEN [callers EXCEPT ![Len(callers)] = NewRef(caller, ret)]
                                        ELSE callers
        /\ ret' = Empty /\ ctl' = Run /\ UNCHANGED <<eflag, count>>
    BY <1>1, <1>2, <1>8 DEF Ret
  <2>2. Data' /\ eflag' = FALSE
    BY <1>4, <1>8, <2>1 DEF Data, ScopesInv
  <2>3. CASE Top.kind = "fn"
    <3>1. PICK g : g = NewRef(caller, ret)
      OBVIOUS
    <3>2. Room(caller)
      BY <1>5, <2>3 DEF Caller
    <3>3. ret \in Values /\ ret # Wild
      BY <1>4, SlotsLemma
    <3>4. Steady(uses, g) /\ g.kind = caller.kind
      BY <1>5, <3>1, <3>2, <3>3, NewRefSteady
    <3>5. Changes(callers, g, frames')
      BY <1>2, <2>1, <2>3, <3>1, <3>4 DEF Changes
    <3>6. FramesOK(uses, frames', Len(Innermost(frames'[Len(frames')]).syms))
      BY <1>5, <3>4, <3>5, FramesTopSteady
    <3> QED
      BY <2>1, <2>2, <3>6, ThenRun
  <2>4. CASE Top.kind # "fn"
    <3>1. FramesOK(uses, frames', Len(Innermost(frames'[Len(frames')]).syms))
      BY <1>5, <2>1, <2>4
    <3> QED
      BY <2>1, <2>2, <3>1, ThenRun
  <2> QED
    BY <2>3, <2>4
<1> QED
  BY <1>4, <1>6, <1>7, <1>8 DEF ScopesInv

LEMMA EndProgramInv ==
    ASSUME ScopesInv, EndProgram, uses' = uses
    PROVE  ScopesInv'
<1>1. ctl = Unwind /\ ctl' = Ended /\ UNCHANGED <<frames, count, eflag, ret>>
  BY DEF EndProgram
<1>2. FramesOK(uses, frames', -1)
  BY <1>1, AtUnwind
<1>3. Data' /\ eflag' \in BOOLEAN
  BY <1>1 DEF Data, ScopesInv
<1>4. ErrorsTrapped'
  BY <1>1, CtlFacts DEF ErrorsTrapped
<1> QED
  BY <1>1, <1>2, <1>3, <1>4, ThenUnwind

-----------------------------------------------------------------------------
(* The invariant is inductive *)

LEMMA InitInv == Init => ScopesInv
<1> SUFFICES ASSUME Init PROVE ScopesInv
  OBVIOUS
<1>1. PICK g : g = NewFrame("main")
  OBVIOUS
<1>2. Steady(uses, g) /\ g.kind = "main"
  BY <1>1, NewFrameSteady
<1>3. frames = <<g>> /\ frames \in Seq({g}) /\ Len(frames) = 1 /\ frames[1] = g
  BY <1>1 DEF Init
<1>4. FramesOK(uses, frames, Len(Innermost(g).syms))
  <2>1. 1 \in 1 .. MaxFrames
    BY SlotsLemma
  <2>2. \A i \in 1 .. 1 : frames[i].kind = "main" <=> i = 1
    BY <1>2, <1>3
  <2>3. \A i \in 1 .. 1 - 1 : FALSE
    OBVIOUS
  <2>4. FrameOK(uses, frames[1], Len(Innermost(g).syms))
    BY <1>2, <1>3 DEF Steady
  <2> QED
    BY <1>3, <2>1, <2>2, <2>3, <2>4 DEF FramesOK
<1>5. ctl = Run /\ eflag = FALSE /\ ret = Empty /\ count = [b \in Blocks |-> 0]
  BY DEF Init
<1>6. ProgramOK(uses, frames, ctl)
  BY <1>3, <1>4, <1>5 DEF ProgramOK
<1>7. ErrorsTrapped
  BY <1>5 DEF ErrorsTrapped
<1>8. count \in [Blocks -> Nat]
  BY <1>5
<1> QED
  BY <1>5, <1>6, <1>7, <1>8 DEF ScopesInv

LEMMA StatementInv ==
    ASSUME ScopesInv, Statement, uses' = uses
    PROVE  ScopesInv'
<1>1. CASE DeclareEmpty
  BY <1>1, DeclareEmptyInv
<1>2. CASE DeclareFails
  BY <1>2, DeclareFailsInv
<1>3. CASE EmptySlice
  BY <1>3, EmptySliceInv
<1>4. CASE EndProc \/ EndMain
  BY <1>4, EndProcInv
<1>5. CASE OnError
  BY <1>5, OnErrorInv
<1>6. CASE RaiseError
  BY <1>6, RaiseErrorInv
<1>7. CASE EndBlock
  BY <1>7, EndBlockInv
<1>8. ASSUME NEW b \in Blocks, DeclareConst(b) \/ EnterWhile(b) PROVE ScopesInv'
  BY <1>8, DeclareConstInv, EnterWhileInv
<1>9. ASSUME NEW x \in Names, DeclareCopy(x) PROVE ScopesInv'
  BY <1>9, DeclareCopyInv
<1>10. ASSUME NEW x \in Names, Return(x) PROVE ScopesInv'
  BY <1>10, ReturnInv
<1>11. ASSUME NEW x \in Names, AssignEmpty(x) PROVE ScopesInv'
  BY <1>11, AssignEmptyInv
<1>12. ASSUME NEW x \in Names, AssignFails(x) PROVE ScopesInv'
  BY <1>12, AssignFailsInv
<1>13. ASSUME NEW x \in Names, NEW y \in Names, AssignVar(x, y) PROVE ScopesInv'
  BY <1>13, AssignVarInv
<1>14. ASSUME NEW x \in Names, NEW b \in Blocks, AssignConst(x, b) PROVE ScopesInv'
  BY <1>14, AssignConstInv
<1>15. ASSUME NEW kind \in {"proc", "fn"}, Call(kind) PROVE ScopesInv'
  BY <1>15, CallInv
<1>16. ASSUME NEW kind \in {"proc", "fn"}, NEW x \in Names, CallWith(kind, x) PROVE ScopesInv'
  BY <1>16, CallWithInv
<1>17. ASSUME NEW kind \in {"block", "loop", "try"}, EnterBlock(kind) PROVE ScopesInv'
  BY <1>17, EnterBlockInv
<1> QED
  BY <1>1, <1>2, <1>3, <1>4, <1>5, <1>6, <1>7, <1>8, <1>9, <1>10, <1>11, <1>12, <1>13,
     <1>14, <1>15, <1>16, <1>17, Zenon DEF Statement

LEMMA MachineInv ==
    ASSUME ScopesInv, Machine, uses' = uses
    PROVE  ScopesInv'
<1>1. CASE Pop
  BY <1>1, PopInv
<1>2. CASE LeaveBlock \/ LeaveTry
  BY <1>2, LeaveBlockInv
<1>3. CASE LoopBack
  BY <1>3, LoopBackInv
<1>4. CASE LeaveHandler
  BY <1>4, LeaveHandlerInv
<1>5. CASE Ret
  BY <1>5, RetInv
<1>6. CASE EndProgram
  BY <1>6, EndProgramInv
<1> QED
  BY <1>1, <1>2, <1>3, <1>4, <1>5, <1>6 DEF Machine

LEMMA NextInv == ScopesInv /\ [Next]_vars => ScopesInv'
<1> SUFFICES ASSUME ScopesInv, [Next]_vars PROVE ScopesInv'
  OBVIOUS
<1>1. CASE Statement /\ UNCHANGED uses
  BY <1>1, StatementInv
<1>2. CASE Machine /\ UNCHANGED uses
  BY <1>2, MachineInv
<1>3. CASE UNCHANGED vars
  <2>1. UNCHANGED <<frames, count, eflag, ctl, ret, uses>>
    BY <1>3 DEF vars
  <2>2. ErrorsTrapped' = ErrorsTrapped
    BY <2>1 DEF ErrorsTrapped, Top
  <2> QED
    BY <2>1, <2>2 DEF ScopesInv
<1> QED
  BY <1>1, <1>2, <1>3 DEF Next, Finished

-----------------------------------------------------------------------------
(* What follows from the invariant *)

LEMMA EntriesOnTop ==
    ASSUME NEW f, NEW live \in Nat, FrameOK({}, f, live)
    PROVE  IsSuffix(SubSeq(Innermost(f).syms, 1, live), f.entries)
<1>1. PICK E : Shaped(f, E) /\ Stacked(f, E, live)
  BY FrameEntries
<1>2. PICK m \in Nat : m = Len(f.blocks) /\ Innermost(f) = f.blocks[m] /\ m \in 1 .. m
  <2>1. f.blocks \in Seq(Blk) /\ Len(f.blocks) \in Nat \ {0} /\ Innermost(f) = f.blocks[Len(f.blocks)]
    BY <1>1, ShapedFacts, FrameLemma
  <2> QED
    BY <2>1
<1>3. PICK base \in 1 .. m, off \in [1 .. m -> Nat] : Segments(f, live, base, off)
  BY <1>1, <1>2 DEF Stacked
<1>4. PICK syms : syms = Innermost(f).syms
  OBVIOUS
<1>5. PICK o \in Nat, e \in Nat : o = off[m] /\ e = Len(f.entries)
  BY <1>1, <1>2, ShapedFacts, FrameLemma
<1>6. syms \in Seq(Slots) /\ Len(syms) \in Nat /\ f.entries \in Seq(Slots)
  BY <1>1, <1>4, FrameFacts DEF Blk
<1>7. live <= Len(syms) /\ o + live = e
  BY <1>2, <1>3, <1>4, <1>5 DEF Segments
<1>8. \A j \in 1 .. live : f.entries[o + j] = syms[j]
  <2>1. m \in base .. m
    BY <1>2
  <2>2. \A k \in base .. m : \A j \in 1 .. IF k = m THEN live ELSE Len(f.blocks[k].syms) :
           f.entries[off[k] + j] = f.blocks[k].syms[j]
    BY <1>2, <1>3 DEF Segments
  <2> QED
    BY <1>2, <1>4, <1>5, <2>1, <2>2
<1>9. PICK s : s = SubSeq(syms, 1, live)
  OBVIOUS
<1>10. s \in Seq(Slots) /\ Len(s) = live /\ \A j \in 1 .. live : s[j] = syms[j]
  <2>1. \A i \in 1 .. live : syms[i] \in Slots
    <3>1. \A i \in 1 .. live : i \in 1 .. Len(syms)
      BY <1>6, <1>7
    <3> QED
      BY <1>6, <3>1, ElementOfSeq
  <2>2. 1 \in Int /\ live \in Int /\ live - 1 + 1 = live /\ \A i \in 1 .. live : 1 + i - 1 = i
    OBVIOUS
  <2>3. /\ s \in Seq(Slots) /\ Len(s) = IF 1 <= live THEN live - 1 + 1 ELSE 0
        /\ \A i \in 1 .. live - 1 + 1 : s[i] = syms[1 + i - 1]
    BY <1>9, <2>1, <2>2, SubSeqProperties
  <2>4. Len(s) = live
    BY <2>3
  <2> QED
    BY <2>2, <2>3, <2>4
<1>11. \A j \in 1 .. live : f.entries[e - live + j] = s[j]
  <2>1. e - live = o
    BY <1>7
  <2> QED
    BY <1>8, <1>10, <2>1
<1>12. live <= e
  BY <1>7
<1>13. IsSuffix(s, f.entries)
  BY <1>5, <1>6, <1>10, <1>11, <1>12, SuffixLemma
<1> QED
  BY <1>4, <1>9, <1>13

LEMMA HandlersProperty == ScopesInv => HandlersFollowBlocks
<1> SUFFICES ASSUME ScopesInv PROVE HandlersFollowBlocks
  OBVIOUS
<1>1. PICK live \in Int : FramesOK(uses, frames, live)
  BY AnyFrames
<1>2. DOMAIN frames = 1 .. Len(frames)
      /\ \A i \in 1 .. Len(frames) : \E l : FrameOK(uses, frames[i], l)
  BY <1>1, FramesFacts
<1> QED
  BY <1>2, FrameHandlers DEF HandlersFollowBlocks

LEMMA ErrorsProperty == ScopesInv => ErrorsStay
<1>1. ScopesInv => FlagClearInStatements
  BY CtlFacts DEF ScopesInv, FlagClearInStatements
<1> QED
  BY <1>1 DEF ScopesInv, ErrorsStay

LEMMA StackProperty == ScopesInv => StackAsCompiled
<1> SUFFICES ASSUME ScopesInv, uses = {} PROVE ScopeOnTop /\ CounterMatches
  BY DEF StackAsCompiled
<1>1. PICK live \in Int : FramesOK({}, frames, live)
  BY AnyFrames
<1>2. PICK n \in Nat \ {0} : n = Len(frames) /\ DOMAIN frames = 1 .. n
  BY <1>1, FramesFacts
<1>3. CounterMatches
  <2>1. \A i \in 1 .. n : \E l : FrameOK({}, frames[i], l)
    BY <1>1, <1>2, FramesFacts
  <2> QED
    BY <1>2, <2>1, FrameFacts DEF CounterMatches
<1>4. ScopeOnTop
  <2> SUFFICES ASSUME NEW i \in 1 .. n, NEW syms, syms = Innermost(frames[i]).syms,
                      ~(i = n /\ ctl.op \in {"unwind", "ended", "assert"})
               PROVE  IsSuffix(SubSeq(syms, 1, IF i = n /\ ctl.op = "leave" THEN ctl.left
                                                                            ELSE Len(syms)),
                               frames[i].entries)
    BY <1>2 DEF ScopeOnTop
  <2>1. ASSUME Steady({}, frames[i])
        PROVE  IsSuffix(SubSeq(syms, 1, Len(syms)), frames[i].entries)
    <3>1. FrameOK({}, frames[i], Len(syms)) /\ Len(syms) \in Nat
      BY <2>1, FrameFacts DEF Steady
    <3> QED
      BY <3>1, EntriesOnTop
  <2>2. CASE i # n
    <3>1. i \in 1 .. Len(frames) - 1
      BY <1>2, <2>2
    <3>2. Steady({}, frames[i])
      BY <1>1, <3>1 DEF FramesOK
    <3> QED
      BY <2>1, <2>2, <3>2
  <2>3. CASE i = n /\ ctl = Run
    <3>1. Steady({}, frames[i])
      BY <1>2, <2>3, AtStatement
    <3>2. ctl.op # "leave"
      BY <2>3, CtlFacts
    <3> QED
      BY <2>1, <3>1, <3>2
  <2>4. ASSUME i = n, NEW l, ctl = Leave(l)
        PROVE  IsSuffix(SubSeq(syms, 1, l), frames[i].entries) /\ ctl.op = "leave" /\ ctl.left = l
    <3>1. l \in Nat /\ FrameOK({}, frames[i], l)
      BY <1>2, <2>4, AtLeave
    <3> QED
      BY <2>4, <3>1, EntriesOnTop, CtlFacts
  <2>5. i = n => ctl = Run \/ \E l : ctl = Leave(l)
    <3>1. i = n => ctl \notin {Unwind, Ended, Asserted}
      BY CtlFacts
    <3> QED
      BY <3>1 DEF ScopesInv, ProgramOK
  <2> QED
    BY <2>2, <2>3, <2>4, <2>5
<1> QED
  BY <1>3, <1>4

LEMMA TypeProperty == ScopesInv => TypeOK
<1> SUFFICES ASSUME ScopesInv PROVE TypeOK
  OBVIOUS
<1>1. PICK live \in Int : FramesOK(uses, frames, live)
  BY AnyFrames
<1>2. /\ Len(frames) \in 1 .. MaxFrames /\ DOMAIN frames = 1 .. Len(frames)
      /\ \A i \in 1 .. Len(frames) : frames[i].kind = "main" <=> i = 1
      /\ \A i \in 1 .. Len(frames) : \E l : FrameOK(uses, frames[i], l)
  BY <1>1, FramesFacts DEF FramesOK
<1>3. ctl \in {Run, Unwind, Ended, Asserted} \cup {Leave(n) : n \in 0 .. Len(Innermost(Top).syms)}
  <2>1. CASE \E n \in Nat : ctl = Leave(n)
    <3>1. PICK n \in Nat : ctl = Leave(n)
      BY <2>1
    <3>2. n <= Len(Innermost(Top).syms) /\ Len(Innermost(Top).syms) \in Nat
      BY <3>1, AtLeave, FrameFacts
    <3> QED
      BY <3>1, <3>2
  <2> QED
    BY <2>1 DEF ScopesInv, ProgramOK
<1>4. ASSUME NEW u, NEW f, NEW l, FrameOK(u, f, l)
      PROVE  /\ f.kind \in {"main", "proc", "fn"}
             /\ f.slots \in [Slots -> Values]
             /\ f.next \in 1 .. f.limit + 1
             /\ f.limit \in Slots
             /\ f.counter \in 0 .. MaxSlots
             /\ ToSet(f.entries) \subseteq Slots
             /\ Level(f) \in 0 .. MaxLevel + 1
             /\ Symbols(f) \subseteq Slots
             /\ f.inHandler \in BOOLEAN
  <2>1. f.limit \in Nat /\ MaxSlots \in Nat /\ MaxLevel \in Nat
    BY <1>4, FrameFacts, SlotsLemma
  <2>2. f.next \in 1 .. f.limit + 1
    BY <1>4, <2>1, FrameFacts
  <2>3. f.counter \in 0 .. MaxSlots
    BY <1>4, <2>1, FrameFacts
  <2>4. Level(f) \in 0 .. MaxLevel + 1
    BY <1>4, <2>1, FrameFacts
  <2>5. ToSet(f.entries) \subseteq Slots
    BY <1>4, FrameFacts, ToSetLemma
  <2>6. Symbols(f) \subseteq Slots
    BY <1>4, SymbolsInRange
  <2> QED
    BY <1>4, <2>2, <2>3, <2>4, <2>5, <2>6, FrameFacts
<1> QED
  BY <1>2, <1>3, <1>4, Zenon DEF TypeOK, ScopesInv

-----------------------------------------------------------------------------
(* The theorems *)

\* Every procedure in progress is shaped by the text it was compiled from, and code
\* runs with the error flag clear (frontend/parser_*.c over common/ir.c's handler
\* list): the invariant the others follow from.
THEOREM Invariant == Spec => []ScopesInv
<1> QED
  BY InitInv, NextInv, PTL DEF Spec

\* Slots, symbols, levels, counters and the stack entries of every frame stay in
\* range, and the end of a block pops at most one entry per symbol of it
\* (subtilis_reference_deallocate_refs).
THEOREM TypeCorrect == Spec => []TypeOK
<1> QED
  BY Invariant, TypeProperty, PTL

\* In every program the handler list is sorted by level and its head is the
\* innermost TRY when there is one (subtilis_handler_list_update,
\* subtilis_handler_list_truncate).
THEOREM ErrorsGoToInnermost == Spec => []HandlersFollowBlocks
<1> QED
  BY Invariant, HandlersProperty, PTL

\* No statement runs while an error is on its way, and in a sound program no error
\* leaves a procedure that could handle it (subtilis_exp_handle_errors,
\* subtilis_exp_generate_error, subtilis_parser_onerror).
THEOREM ErrorsDoNotLeave == Spec => []ErrorsStay
<1> QED
  BY Invariant, ErrorsProperty, PTL

\* In a sound program the entries on top of the machine stack are those of the
\* symbols the compiler counted for the innermost block, through errors, handlers,
\* loops and calls, and the cleanup counter is the number of entries
\* (subtilis_reference_deallocate_refs, subtilis_reference_type_pop_and_deref).
THEOREM StackIsAsCompiled == Spec => []StackAsCompiled
<1> QED
  BY Invariant, StackProperty, PTL

-----------------------------------------------------------------------------
(* Places on the cleanup stacks, and how many of them hold a block *)

\* The frame, and the place on its cleanup stack.
Places == (1 .. MaxFrames) \X Slots

\* Place p of the frames fs will drop the block b.
HeldAt(fs, p, b) ==
    /\ p[1] \in DOMAIN fs /\ p[2] \in DOMAIN fs[p[1]].entries
    /\ fs[p[1]].slots[fs[p[1]].entries[p[2]]] = b

\* For each block the places that will drop it.
Holdings(fs) == [b \in Blocks |-> {p \in Places : HeldAt(fs, p, b)}]

\* The counts are the numbers of places, and the result on its way.
Counted(cnt, A, r) ==
    \A b \in Blocks : cnt[b] = Cardinality(A[b]) + (IF r = b THEN 1 ELSE 0)

\* In B place q will drop v too, if v is a block.
Plus(A, B, q, v) ==
    \A b \in Blocks : q \notin A[b] /\ B[b] = IF b = v THEN A[b] \cup {q} ELSE A[b]

LEMMA PlacesFinite ==
    /\ IsFiniteSet(Places)
    /\ \A A \in [Blocks -> SUBSET Places], b \in Blocks :
          IsFiniteSet(A[b]) /\ Cardinality(A[b]) \in Nat
<1>1. IsFiniteSet(Places)
  <2>1. MaxFrames \in Int /\ MaxSlots \in Int /\ 1 \in Int
    BY SlotsLemma
  <2>2. IsFiniteSet(1 .. MaxFrames) /\ IsFiniteSet(Slots)
    BY <2>1, FS_Interval DEF Slots
  <2> QED
    BY <2>2, FS_Product DEF Places
<1>2. ASSUME NEW A \in [Blocks -> SUBSET Places], NEW b \in Blocks
      PROVE  IsFiniteSet(A[b]) /\ Cardinality(A[b]) \in Nat
  <2>1. PICK T : T = A[b]
    OBVIOUS
  <2>2. T \in SUBSET Places
    BY <2>1
  <2>3. IsFiniteSet(T)
    BY <1>1, <2>2, FS_Subset
  <2>4. Cardinality(T) \in Nat
    BY <2>3, FS_CardinalityType
  <2> QED
    BY <2>1, <2>3, <2>4
<1> QED
  BY <1>1, <1>2

LEMMA HoldingsType ==
    ASSUME NEW fs
    PROVE  /\ Holdings(fs) \in [Blocks -> SUBSET Places]
           /\ \A b \in Blocks, p \in Places : p \in Holdings(fs)[b] <=> HeldAt(fs, p, b)
BY DEF Holdings

LEMMA PlusCard ==
    ASSUME NEW A \in [Blocks -> SUBSET Places], NEW B, NEW q, NEW v, Plus(A, B, q, v),
           NEW b \in Blocks
    PROVE  /\ Cardinality(A[b]) \in Nat
           /\ b = v => Cardinality(B[b]) = Cardinality(A[b]) + 1
           /\ b # v => Cardinality(B[b]) = Cardinality(A[b])
<1>1. PICK T : T = A[b]
  OBVIOUS
<1>2. IsFiniteSet(T) /\ Cardinality(T) \in Nat
  BY <1>1, PlacesFinite
<1>3. q \notin T /\ (b = v => B[b] = T \cup {q}) /\ (b # v => B[b] = T)
  BY <1>1 DEF Plus
<1>4. Cardinality(T \cup {q}) = Cardinality(T) + 1
  BY <1>2, <1>3, FS_AddElement
<1> QED
  BY <1>1, <1>2, <1>3, <1>4

\* REF of what a new place will drop.
LEMMA CountPlus ==
    ASSUME NEW cnt \in [Blocks -> Nat], NEW A \in [Blocks -> SUBSET Places], NEW B, NEW q,
           NEW v \in Blocks \cup {Empty}, NEW r \in Blocks \cup {Empty},
           Counted(cnt, A, r), Plus(A, B, q, v)
    PROVE  Counted(Add(cnt, v, 1), B, r)
<1>1. ASSUME NEW b \in Blocks
      PROVE  Add(cnt, v, 1)[b] = Cardinality(B[b]) + (IF r = b THEN 1 ELSE 0)
  <2>1. PICK k \in Nat : k = Cardinality(A[b])
    BY PlusCard
  <2>2. PICK e \in {0, 1} : e = IF r = b THEN 1 ELSE 0
    OBVIOUS
  <2>3. cnt[b] = k + e
    BY <2>1, <2>2 DEF Counted
  <2>4. CASE b = v
    <3>1. v # Empty
      BY <2>4, SlotsLemma
    <3>2. Add(cnt, v, 1)[b] = cnt[b] + 1
      BY <2>4, <3>1 DEF Add
    <3>3. Cardinality(B[b]) = k + 1
      BY <2>1, <2>4, PlusCard
    <3> QED
      BY <2>2, <2>3, <3>2, <3>3
  <2>5. CASE b # v
    <3>1. Add(cnt, v, 1)[b] = cnt[b]
      BY <2>5 DEF Add
    <3>2. Cardinality(B[b]) = k
      BY <2>1, <2>5, PlusCard
    <3> QED
      BY <2>2, <2>3, <3>1, <3>2
  <2> QED
    BY <2>4, <2>5
<1> QED
  BY <1>1 DEF Counted

\* DEREF of what a place that goes has held: it was in use.
LEMMA CountMinus ==
    ASSUME NEW cnt \in [Blocks -> Nat], NEW A \in [Blocks -> SUBSET Places], NEW B, NEW q,
           NEW v \in Blocks \cup {Empty}, NEW r \in Blocks \cup {Empty},
           Counted(cnt, B, r), Plus(A, B, q, v)
    PROVE  Counted(Add(cnt, v, -1), A, r) /\ (v # Empty => cnt[v] > 0)
<1>1. ASSUME NEW b \in Blocks
      PROVE  /\ Add(cnt, v, -1)[b] = Cardinality(A[b]) + (IF r = b THEN 1 ELSE 0)
             /\ b = v => cnt[b] > 0
  <2>1. PICK k \in Nat : k = Cardinality(A[b])
    BY PlusCard
  <2>2. PICK e \in {0, 1} : e = IF r = b THEN 1 ELSE 0
    OBVIOUS
  <2>3. cnt[b] = Cardinality(B[b]) + e
    BY <2>2 DEF Counted
  <2>4. CASE b = v
    <3>1. v # Empty
      BY <2>4, SlotsLemma
    <3>2. Add(cnt, v, -1)[b] = cnt[b] + -1
      BY <2>4, <3>1 DEF Add
    <3>3. Cardinality(B[b]) = k + 1
      BY <2>1, <2>4, PlusCard
    <3>4. cnt[b] = k + 1 + e /\ cnt[b] > 0
      BY <2>2, <2>3, <3>3
    <3> QED
      BY <2>1, <2>2, <3>2, <3>4
  <2>5. CASE b # v
    <3>1. Add(cnt, v, -1)[b] = cnt[b]
      BY <2>5 DEF Add
    <3>2. Cardinality(B[b]) = k
      BY <2>1, <2>5, PlusCard
    <3> QED
      BY <2>1, <2>2, <2>3, <2>5, <3>1, <3>2
  <2> QED
    BY <2>4, <2>5
<1> QED
  BY <1>1 DEF Counted

\* What a place will drop is in use.
LEMMA HeldInUse ==
    ASSUME NEW cnt \in [Blocks -> Nat], NEW A \in [Blocks -> SUBSET Places], NEW r,
           Counted(cnt, A, r), NEW b \in Blocks, NEW p, p \in A[b]
    PROVE  cnt[b] > 0
<1>1. PICK T : T = A[b]
  OBVIOUS
<1>2. IsFiniteSet(T) /\ Cardinality(T) \in Nat
  BY <1>1, PlacesFinite
<1>3. T # {}
  BY <1>1
<1>4. Cardinality(T) # 0
  BY <1>2, <1>3, FS_EmptySet
<1>5. cnt[b] = Cardinality(T) + (IF r = b THEN 1 ELSE 0)
  BY <1>1 DEF Counted
<1> QED
  BY <1>2, <1>4, <1>5

\* A block that is not in use is not held: a new one has the count 1.
LEMMA FreshAdds ==
    ASSUME NEW cnt \in [Blocks -> Nat], NEW b \in Blocks, cnt[b] = 0
    PROVE  [cnt EXCEPT ![b] = 1] = Add(cnt, b, 1)
<1>1. b # Empty
  BY SlotsLemma
<1>2. Add(cnt, b, 1) = [cnt EXCEPT ![b] = cnt[b] + 1]
  BY <1>1 DEF Add
<1>3. cnt[b] + 1 = 1
  OBVIOUS
<1> QED
  BY <1>2, <1>3

-----------------------------------------------------------------------------
(* One frame *)

\* Entry k of the frame will drop b.
Drops(f, k, b) == k \in 1 .. Len(f.entries) /\ f.slots[f.entries[k]] = b

\* In g entry k will drop v too.
Gains(f, g, k, v) ==
    /\ k \in Slots
    /\ \A b : ~Drops(f, k, b)
    /\ \A i \in Slots, b \in Blocks : Drops(g, i, b) <=> Drops(f, i, b) \/ (i = k /\ b = v)

NeverWild(f) == \A s \in Slots : f.slots[s] # Wild

LEMMA LiveFrame ==
    ASSUME NEW f, NEW live \in Nat, FrameOK({}, f, live)
    PROVE  /\ NeverWild(f)
           /\ \A i, j \in 1 .. Len(f.entries) : f.entries[i] = f.entries[j] => i = j
           /\ \A i \in 1 .. Len(f.entries) : f.next <= f.entries[i] => f.entries[i] > f.limit
           /\ \A k \in 1 .. Len(f.blocks) : f.blocks[k].cond = 0
<1>1. PICK E : Shaped(f, E) /\ Stacked(f, E, live)
  BY FrameEntries
<1>2. PICK base, off : Apart(f, E, base, off)
  BY <1>1 DEF Stacked
<1> QED
  BY <1>1, <1>2 DEF Stacked, Apart, NeverWild

\* A symbol has an entry.
LEMMA SymbolHeld ==
    ASSUME NEW f, Steady({}, f), NEW s \in Symbols(f)
    PROVE  \E k \in 1 .. Len(f.entries) : f.entries[k] = s
<1>1. PICK E : Shaped(f, E) /\ Stacked(f, E, Len(Innermost(f).syms))
  BY SteadyEntries
<1>2. f.blocks \in Seq(Blk) /\ Len(Innermost(f).syms) \in Nat
  BY FrameFacts DEF Steady
<1>3. DOMAIN f.blocks = 1 .. Len(f.blocks)
      /\ \A k \in 1 .. Len(f.blocks) : f.blocks[k].syms \in Seq(Slots)
  BY <1>2, BlocksLemma
<1>4. PICK k \in 1 .. Len(f.blocks) : s \in ToSet(f.blocks[k].syms)
  BY <1>3 DEF Symbols
<1>5. PICK j \in 1 .. Len(f.blocks[k].syms) : f.blocks[k].syms[j] = s
  BY <1>3, <1>4, ToSetLemma
<1>6. OnStack(f, f.blocks[k].syms)
  BY <1>1, <1>2, EntriesOnStack
<1> QED
  BY <1>5, <1>6 DEF OnStack

LEMMA EntrySlots ==
    ASSUME NEW u, NEW f, NEW live, FrameOK(u, f, live)
    PROVE  /\ Len(f.entries) \in 0 .. MaxSlots
           /\ DOMAIN f.entries = 1 .. Len(f.entries)
           /\ \A i \in 1 .. Len(f.entries) : i \in Slots /\ f.entries[i] \in Slots
           /\ f.slots \in [Slots -> Values]
<1>1. PICK n \in Nat : n = Len(f.entries) /\ n <= MaxSlots
  BY FrameFacts
<1>2. f.entries \in Seq(Slots)
  BY FrameFacts
<1>3. \A i \in 1 .. n : i \in Slots
  BY <1>1, SlotsLemma
<1>4. n \in 0 .. MaxSlots
  BY <1>1, SlotsLemma
<1> QED
  BY <1>1, <1>2, <1>3, <1>4, ElementOfSeq, LenProperties, FrameFacts

LEMMA NewRefGains ==
    ASSUME NEW f, NEW live \in Nat, FrameOK({}, f, live), Room(f), NEW v \in Values
    PROVE  \E k : Gains(f, NewRef(f, v), k, v)
<1>1. PICK g : g = NewRef(f, v)
  OBVIOUS
<1>2. PICK E : Shaped(f, E)
  BY FrameEntries
<1>3. RefAdded(f, v, g)
  BY <1>1, <1>2, NewRefFields
<1>4. PICK n \in Nat : n = Len(f.entries) /\ n < MaxSlots
  BY <1>2, FrameFacts DEF Room
<1>5. PICK next \in Slots : next = f.next /\ next <= f.limit
  BY <1>2, RoomLemma
<1>6. /\ Len(g.entries) = n + 1 /\ g.entries[n + 1] = next
      /\ \A i \in 1 .. n : g.entries[i] = f.entries[i]
      /\ \A t \in Slots : g.slots[t] = IF t = next THEN v ELSE f.slots[t]
  BY <1>3, <1>4, <1>5 DEF RefAdded
<1>7. \A i \in 1 .. n : f.entries[i] \in Slots /\ f.entries[i] # next
  <2>1. \A i \in 1 .. n : next <= f.entries[i] => f.entries[i] > f.limit
    BY <1>4, <1>5, LiveFrame
  <2>2. \A i \in 1 .. n : f.entries[i] \in Slots
    BY <1>4, EntrySlots
  <2>3. f.limit \in Nat /\ next \in Nat
    BY <1>5, FrameFacts, SlotsLemma
  <2> QED
    BY <1>5, <2>1, <2>2, <2>3
<1>8. \A i \in 1 .. n : g.slots[g.entries[i]] = f.slots[f.entries[i]]
  BY <1>6, <1>7
<1>9. g.slots[g.entries[n + 1]] = v
  BY <1>5, <1>6
<1>10. n + 1 \in Slots /\ ~(n + 1 \in 1 .. n)
  BY <1>4, SlotsLemma
<1>11. \A b : ~Drops(f, n + 1, b)
  BY <1>4, <1>10 DEF Drops
<1>12. ASSUME NEW i \in Slots, NEW b \in Blocks
       PROVE  Drops(g, i, b) <=> Drops(f, i, b) \/ (i = n + 1 /\ b = v)
  <2>1. CASE i \in 1 .. n
    <3>1. i \in 1 .. n + 1 /\ i # n + 1
      BY <1>4, <2>1
    <3> QED
      BY <1>4, <1>6, <1>8, <2>1, <3>1 DEF Drops
  <2>2. CASE i = n + 1
    <3>1. i \in 1 .. n + 1
      BY <2>2
    <3> QED
      BY <1>4, <1>6, <1>9, <1>10, <2>2, <3>1 DEF Drops
  <2>3. CASE ~(i \in 1 .. n + 1)
    <3>1. ~(i \in 1 .. n) /\ i # n + 1
      BY <1>4, <2>3
    <3> QED
      BY <1>4, <1>6, <2>3, <3>1 DEF Drops
  <2>4. i \in 1 .. n \/ i = n + 1 \/ ~(i \in 1 .. n + 1)
    BY <1>4
  <2> QED
    BY <2>1, <2>2, <2>3, <2>4
<1> QED
  BY <1>1, <1>10, <1>11, <1>12 DEF Gains

SlotSet(f, k, s, v, g) ==
    k \in 1 .. Len(f.entries) /\ s = f.entries[k] /\ g = [f EXCEPT !.slots[s] = v]

\* Entry k, of slot s, drops v in g, and the others what they do in f.
Redrops(f, k, s, v, g) ==
    /\ k \in Slots
    /\ \A b : Drops(f, k, b) <=> b = f.slots[s]
    /\ \A b : Drops(g, k, b) <=> b = v
    /\ \A i \in Slots : \A b : i # k => (Drops(g, i, b) <=> Drops(f, i, b))

\* A slot with an entry is assigned: the entry drops the new value.
LEMMA SlotDrops ==
    ASSUME NEW f, NEW live \in Nat, FrameOK({}, f, live), NEW k, NEW s, NEW v \in Values,
           NEW g, SlotSet(f, k, s, v, g)
    PROVE  Redrops(f, k, s, v, g)
<1> USE DEF SlotSet, Redrops
<1>1. PICK E : Shaped(f, E)
  BY FrameEntries
<1>2. g.entries = f.entries /\ \A t \in Slots : g.slots[t] = IF t = s THEN v ELSE f.slots[t]
  <2>1. f \in Frame(E) /\ f.slots \in [Slots -> Values]
    BY <1>1, FrameFacts, ShapedFacts
  <2>2. g.entries = f.entries /\ g.slots = [f.slots EXCEPT ![s] = v]
    BY <2>1 DEF Frame, SlotSet
  <2> QED
    BY <2>1, <2>2
<1>3. k \in Slots /\ s \in Slots /\ \A i \in 1 .. Len(f.entries) : f.entries[i] \in Slots
  BY EntrySlots
<1>4. \A i \in 1 .. Len(f.entries) : i # k => f.entries[i] # s
  BY LiveFrame
<1> QED
  BY <1>2, <1>3, <1>4 DEF Drops

LEMMA PopGains ==
    ASSUME NEW u, NEW f, NEW live, FrameOK(u, f, live), NEW g, Pops(f, g)
    PROVE  /\ Gains(g, f, Len(f.entries), f.slots[Last(f.entries)])
           /\ Last(f.entries) \in Slots /\ g.slots = f.slots
<1>1. PICK n \in Nat : n = Len(f.entries) /\ n >= 1
  BY FrameFacts, EmptySeq DEF Pops
<1>2. PICK E : Shaped(f, E)
  BY DEF FrameOK
<1>3. /\ g.slots = f.slots /\ Len(g.entries) = n - 1
      /\ \A i \in 1 .. n - 1 : g.entries[i] = f.entries[i]
  <2>1. Popped(f, g)
    BY <1>2, PopShaped DEF Pops
  <2> QED
    BY <1>1, <2>1 DEF Popped
<1>4. Last(f.entries) = f.entries[n]
  BY <1>1 DEF Last
<1>5. n \in 1 .. n /\ ~(n \in 1 .. n - 1)
  BY <1>1
<1>6. n \in Slots /\ Last(f.entries) \in Slots
  BY <1>1, <1>4, <1>5, EntrySlots
<1>7. ASSUME NEW i \in Slots, NEW b
      PROVE  Drops(f, i, b) <=> Drops(g, i, b) \/ (i = n /\ b = f.slots[Last(f.entries)])
  <2>1. CASE i \in 1 .. n - 1
    <3>1. i \in 1 .. n /\ i # n
      BY <1>1, <2>1
    <3> QED
      BY <1>1, <1>3, <2>1, <3>1 DEF Drops
  <2>2. CASE i = n
    BY <1>1, <1>3, <1>4, <1>5, <2>2 DEF Drops
  <2>3. CASE ~(i \in 1 .. n)
    <3>1. ~(i \in 1 .. n - 1) /\ i # n
      BY <1>1, <2>3
    <3> QED
      BY <1>1, <1>3, <2>3, <3>1 DEF Drops
  <2>4. i \in 1 .. n - 1 \/ i = n \/ ~(i \in 1 .. n)
    BY <1>1
  <2> QED
    BY <2>1, <2>2, <2>3, <2>4
<1>8. \A b : ~Drops(g, n, b)
  BY <1>3, <1>5 DEF Drops
<1> QED
  BY <1>1, <1>3, <1>6, <1>7, <1>8 DEF Gains

-----------------------------------------------------------------------------
(* The frames of a program *)

LEMMA HeldFrames ==
    ASSUME NEW u, NEW fs, NEW live, FramesOK(u, fs, live), NEW p, NEW b
    PROVE  HeldAt(fs, p, b) <=> p[1] \in 1 .. Len(fs) /\ Drops(fs[p[1]], p[2], b)
<1>1. DOMAIN fs = 1 .. Len(fs) /\ \A i \in 1 .. Len(fs) : \E l : FrameOK(u, fs[i], l)
  BY FramesFacts
<1>2. \A i \in 1 .. Len(fs) : DOMAIN fs[i].entries = 1 .. Len(fs[i].entries)
  BY <1>1, EntrySlots
<1> QED
  BY <1>1, <1>2 DEF HeldAt, Drops

LEMMA PlaceLemma ==
    \A p \in Places : p[1] \in 1 .. MaxFrames /\ p[2] \in Slots /\ p = <<p[1], p[2]>>
BY DEF Places

LEMMA PlaceAt ==
    ASSUME NEW i \in 1 .. MaxFrames, NEW k \in Slots, NEW q, q = <<i, k>>
    PROVE  q \in Places /\ q[1] = i /\ q[2] = k
BY DEF Places

\* Frame n has one more entry, for v.
LEMMA PlusFrames ==
    ASSUME NEW u, NEW fs, NEW live, FramesOK(u, fs, live), NEW r, NEW l, FramesOK(u, r, l),
           Len(r) = Len(fs), NEW n \in 1 .. Len(fs),
           \A i \in 1 .. Len(fs) : i # n => r[i] = fs[i],
           NEW k, NEW v, Gains(fs[n], r[n], k, v)
    PROVE  Plus(Holdings(fs), Holdings(r), <<n, k>>, v)
<1>1. PICK m \in Nat : m = Len(fs) /\ m <= MaxFrames
  BY FramesFacts
<1>2. n \in 1 .. MaxFrames /\ k \in Slots
  BY <1>1, SlotsLemma DEF Gains
<1>3. PICK q : q = <<n, k>> /\ q \in Places /\ q[1] = n /\ q[2] = k
  <2>1. PICK q : q = <<n, k>>
    OBVIOUS
  <2> QED
    BY <1>2, <2>1, PlaceAt
<1>4. \A p, b : /\ HeldAt(fs, p, b) <=> p[1] \in 1 .. m /\ Drops(fs[p[1]], p[2], b)
                /\ HeldAt(r, p, b) <=> p[1] \in 1 .. m /\ Drops(r[p[1]], p[2], b)
  BY <1>1, HeldFrames
<1>5. ASSUME NEW p \in Places, NEW b \in Blocks
      PROVE  HeldAt(r, p, b) <=> HeldAt(fs, p, b) \/ (p = q /\ b = v)
  <2>1. p[2] \in Slots /\ p = <<p[1], p[2]>>
    BY PlaceLemma
  <2>2. CASE p[1] = n
    <3>1. p = q <=> p[2] = k
      BY <1>3, <2>1, <2>2
    <3>2. Drops(r[n], p[2], b) <=> Drops(fs[n], p[2], b) \/ (p[2] = k /\ b = v)
      BY <2>1 DEF Gains
    <3> QED
      BY <1>1, <1>4, <2>2, <3>1, <3>2
  <2>3. CASE p[1] # n
    <3>1. p # q
      BY <1>3, <2>3
    <3> QED
      BY <1>1, <1>4, <2>3, <3>1
  <2> QED
    BY <2>2, <2>3
<1>6. \A b : ~HeldAt(fs, q, b)
  BY <1>3, <1>4 DEF Gains
<1>7. ASSUME NEW b \in Blocks
      PROVE  /\ q \notin Holdings(fs)[b]
             /\ Holdings(r)[b] = IF b = v THEN Holdings(fs)[b] \cup {q} ELSE Holdings(fs)[b]
  <2>1. /\ Holdings(fs)[b] \subseteq Places /\ Holdings(r)[b] \subseteq Places
        /\ \A p \in Places : /\ p \in Holdings(fs)[b] <=> HeldAt(fs, p, b)
                             /\ p \in Holdings(r)[b] <=> HeldAt(r, p, b)
    BY HoldingsType
  <2>2. q \notin Holdings(fs)[b]
    BY <1>3, <1>6, <2>1
  <2>3. b = v => Holdings(r)[b] = Holdings(fs)[b] \cup {q}
    BY <1>3, <1>5, <2>1
  <2>4. b # v => Holdings(r)[b] = Holdings(fs)[b]
    BY <1>5, <2>1
  <2> QED
    BY <2>2, <2>3, <2>4
<1> QED
  BY <1>3, <1>7 DEF Plus

SameStack(f, g) == g.entries = f.entries /\ g.slots = f.slots

\* The stacks are the same, but for frames without entries.
LEMMA SameHoldings ==
    ASSUME NEW u, NEW fs, NEW live, FramesOK(u, fs, live), NEW r, NEW l, FramesOK(u, r, l),
           \A i \in 1 .. Len(fs) : i \in 1 .. Len(r) /\ SameStack(fs[i], r[i]),
           \A i \in 1 .. Len(r) : i \in 1 .. Len(fs) \/ r[i].entries = <<>>
    PROVE  Holdings(r) = Holdings(fs)
<1>1. \A p, b : /\ HeldAt(fs, p, b) <=> p[1] \in 1 .. Len(fs) /\ Drops(fs[p[1]], p[2], b)
                /\ HeldAt(r, p, b) <=> p[1] \in 1 .. Len(r) /\ Drops(r[p[1]], p[2], b)
  BY HeldFrames
<1>2. \A i \in 1 .. Len(fs) : \A k, b : Drops(fs[i], k, b) <=> Drops(r[i], k, b)
  BY DEF SameStack, Drops
<1>3. \A i \in 1 .. Len(r) : \A k, b : Drops(r[i], k, b) => i \in 1 .. Len(fs)
  <2> SUFFICES ASSUME NEW i \in 1 .. Len(r), r[i].entries = <<>>, NEW k, NEW b, Drops(r[i], k, b)
               PROVE  FALSE
    OBVIOUS
  <2>1. Len(r[i].entries) = 0
    OBVIOUS
  <2> QED
    BY <2>1 DEF Drops
<1>4. \A p, b : HeldAt(r, p, b) <=> HeldAt(fs, p, b)
  BY <1>1, <1>2, <1>3
<1> QED
  BY <1>4 DEF Holdings

LEMMA LiveFrames ==
    ASSUME NEW u, NEW fs, NEW live \in Nat, FramesOK(u, fs, live)
    PROVE  \A i \in 1 .. Len(fs) : \E l \in Nat : FrameOK(u, fs[i], l)
<1> SUFFICES ASSUME NEW i \in 1 .. Len(fs) PROVE \E l \in Nat : FrameOK(u, fs[i], l)
  OBVIOUS
<1>1. CASE i \in 1 .. Len(fs) - 1
  <2>1. FrameOK(u, fs[i], Len(Innermost(fs[i]).syms))
    BY <1>1 DEF FramesOK, Steady
  <2>2. Len(Innermost(fs[i]).syms) \in Nat
    BY <2>1, FrameFacts
  <2> QED
    BY <2>1, <2>2
<1>2. CASE i = Len(fs)
  BY <1>2 DEF FramesOK
<1>3. Len(fs) \in Nat
  BY FramesFacts
<1> QED
  BY <1>1, <1>2, <1>3

\* The places without q.
Without(A, q) == [b \in Blocks |-> A[b] \ {q}]

\* A variable with an entry is assigned: its place will drop v.
LEMMA AssignedHoldings ==
    ASSUME NEW fs, NEW live \in Nat, FramesOK({}, fs, live), NEW j, NEW s, NEW v, NEW r,
           Assigned({}, fs, j, s, v, r), NEW k \in 1 .. Len(fs[j].entries),
           fs[j].entries[k] = s, NEW C, C = Without(Holdings(fs), <<j, k>>)
    PROVE  /\ C \in [Blocks -> SUBSET Places]
           /\ Plus(C, Holdings(fs), <<j, k>>, fs[j].slots[s])
           /\ Plus(C, Holdings(r), <<j, k>>, v)
<1>1. FramesOK({}, r, live) /\ Len(r) = Len(fs)
  BY FramesSlot
<1>2. PICK m \in Nat : m = Len(fs) /\ m <= MaxFrames /\ DOMAIN fs = 1 .. m
  BY FramesFacts
<1>3. j \in 1 .. m /\ v \in Values /\ r = [fs EXCEPT ![j].slots[s] = v]
  BY <1>2 DEF Assigned
<1>4. PICK f, g : f = fs[j] /\ g = [f EXCEPT !.slots[s] = v]
  OBVIOUS
<1>5. r[j] = g /\ \A i \in 1 .. m : i # j => r[i] = fs[i]
  BY <1>2, <1>3, <1>4
<1>6. PICK l \in Nat : FrameOK({}, f, l)
  BY <1>2, <1>3, <1>4, LiveFrames
<1>7. /\ k \in Slots
      /\ \A b : Drops(f, k, b) <=> b = f.slots[s]
      /\ \A b : Drops(g, k, b) <=> b = v
      /\ \A i \in Slots : \A b : i # k => (Drops(g, i, b) <=> Drops(f, i, b))
  <2>1. SlotSet(f, k, s, v, g)
    BY <1>4 DEF SlotSet
  <2>2. v \in Values
    BY <1>3
  <2>3. Redrops(f, k, s, v, g)
    BY <1>6, <2>1, <2>2, SlotDrops
  <2> QED
    BY <2>3 DEF Redrops
<1>8. j \in 1 .. MaxFrames
  BY <1>2, <1>3, SlotsLemma
<1>9. PICK q : q = <<j, k>> /\ q \in Places /\ q[1] = j /\ q[2] = k
  <2>1. PICK q : q = <<j, k>>
    OBVIOUS
  <2> QED
    BY <1>7, <1>8, <2>1, PlaceAt
<1>10. \A p, b : /\ HeldAt(fs, p, b) <=> p[1] \in 1 .. m /\ Drops(fs[p[1]], p[2], b)
                 /\ HeldAt(r, p, b) <=> p[1] \in 1 .. m /\ Drops(r[p[1]], p[2], b)
  BY <1>1, <1>2, HeldFrames
<1>11. \A b : (HeldAt(fs, q, b) <=> b = f.slots[s]) /\ (HeldAt(r, q, b) <=> b = v)
  <2> TAKE b
  <2>1. HeldAt(fs, q, b) <=> j \in 1 .. m /\ Drops(fs[j], k, b)
    BY <1>9, <1>10
  <2>2. HeldAt(r, q, b) <=> j \in 1 .. m /\ Drops(r[j], k, b)
    BY <1>9, <1>10
  <2> QED
    BY <1>3, <1>4, <1>5, <1>7, <2>1, <2>2
<1>12. ASSUME NEW p \in Places, NEW b, p # q
       PROVE  HeldAt(r, p, b) <=> HeldAt(fs, p, b)
  <2>1. p[2] \in Slots /\ p = <<p[1], p[2]>>
    BY PlaceLemma
  <2>2. CASE p[1] = j
    <3>1. p[2] # k
      BY <1>9, <1>12, <2>1, <2>2
    <3> QED
      BY <1>4, <1>5, <1>7, <1>10, <2>1, <2>2, <3>1
  <2>3. CASE p[1] # j
    BY <1>5, <1>10, <2>3
  <2> QED
    BY <2>2, <2>3
<1>13. ASSUME NEW b \in Blocks
       PROVE  /\ C[b] = Holdings(fs)[b] \ {q} /\ C[b] \subseteq Places
              /\ Holdings(fs)[b] = IF b = f.slots[s] THEN C[b] \cup {q} ELSE C[b]
              /\ Holdings(r)[b] = IF b = v THEN C[b] \cup {q} ELSE C[b]
  <2>1. /\ Holdings(fs)[b] \subseteq Places /\ Holdings(r)[b] \subseteq Places
        /\ \A p \in Places : /\ p \in Holdings(fs)[b] <=> HeldAt(fs, p, b)
                             /\ p \in Holdings(r)[b] <=> HeldAt(r, p, b)
    BY HoldingsType
  <2>2. C[b] = Holdings(fs)[b] \ {q}
    BY <1>9 DEF Without
  <2>3. (q \in Holdings(fs)[b] <=> b = f.slots[s]) /\ (q \in Holdings(r)[b] <=> b = v)
    BY <1>9, <1>11, <2>1
  <2>4. \A p \in Places : p # q => (p \in Holdings(r)[b] <=> p \in Holdings(fs)[b])
    BY <1>12, <2>1
  <2>5. Holdings(r)[b] \ {q} = Holdings(fs)[b] \ {q}
    BY <2>1, <2>4
  <2>6. b = f.slots[s] => Holdings(fs)[b] = C[b] \cup {q}
    BY <2>2, <2>3
  <2>7. b # f.slots[s] => Holdings(fs)[b] = C[b]
    BY <2>2, <2>3
  <2>8. b = v => Holdings(r)[b] = C[b] \cup {q}
    BY <2>2, <2>3, <2>5
  <2>9. b # v => Holdings(r)[b] = C[b]
    BY <2>2, <2>3, <2>5
  <2> QED
    BY <2>1, <2>2, <2>6, <2>7, <2>8, <2>9
<1>14. C \in [Blocks -> SUBSET Places]
  <2>1. \A b \in Blocks : Holdings(fs)[b] \ {q} \in SUBSET Places
    BY HoldingsType
  <2> QED
    BY <1>9, <2>1 DEF Without
<1>15. \A b \in Blocks : q \notin C[b]
  <2> TAKE b \in Blocks
  <2>1. C[b] = Holdings(fs)[b] \ {q}
    BY <1>13
  <2> QED
    BY <2>1
<1>16. Plus(C, Holdings(fs), q, f.slots[s]) /\ Plus(C, Holdings(r), q, v)
  BY <1>13, <1>15 DEF Plus
<1> QED
  BY <1>4, <1>9, <1>14, <1>16

-----------------------------------------------------------------------------
(* Steps of the frames *)

LEMMA AnyFramesState == ScopesInv => \E live \in Int : FramesOK(uses, frames, live)
BY AnyFrames

LEMMA AnyFramesNext == ScopesInv' => \E live \in Int : FramesOK(uses', frames', live)
<1>1. (ScopesInv => \E live \in Int : FramesOK(uses, frames, live))'
  BY AnyFramesState, PTL
<1> QED
  BY <1>1

TopIs(fs, g, r) == r = [fs EXCEPT ![Len(fs)] = g]

LEMMA TopReplaced ==
    ASSUME NEW u, NEW fs, NEW live, FramesOK(u, fs, live), NEW g, NEW r, TopIs(fs, g, r)
    PROVE  /\ Len(fs) \in 1 .. Len(fs) /\ Len(r) = Len(fs) /\ r[Len(fs)] = g
           /\ \A i \in 1 .. Len(fs) : i # Len(fs) => r[i] = fs[i]
<1> USE DEF TopIs
<1>1. PICK n \in Nat \ {0} : n = Len(fs) /\ n \in 1 .. n /\ DOMAIN fs = 1 .. n
  BY FramesFacts
<1>2. PICK S : fs \in Seq(S)
  BY DEF FramesOK
<1>3. PICK T : T = S \cup {g}
  OBVIOUS
<1>4. fs \in Seq(T) /\ g \in T
  <2>1. \A i \in 1 .. Len(fs) : fs[i] \in T
    BY <1>2, <1>3, ElementOfSeq
  <2> QED
    BY <1>2, <1>3, <2>1, SeqOfElements
<1>5. Len(r) = n /\ \A i \in 1 .. n : r[i] = IF i = n THEN g ELSE fs[i]
  BY <1>1, <1>4, ExceptSeq
<1> QED
  BY <1>1, <1>5

\* The procedure that runs gets a new reference.
LEMMA NewRefHoldings ==
    ASSUME NEW fs, NEW live \in Nat, FramesOK({}, fs, live), NEW v \in Values,
           Room(fs[Len(fs)]), NEW r, TopIs(fs, NewRef(fs[Len(fs)], v), r),
           NEW l, FramesOK({}, r, l)
    PROVE  \E q : Plus(Holdings(fs), Holdings(r), q, v)
<1>1. PICK f, g, n : f = fs[Len(fs)] /\ g = NewRef(f, v) /\ n = Len(fs)
  OBVIOUS
<1>2. FrameOK({}, f, live) /\ Room(f)
  BY <1>1 DEF FramesOK
<1>3. PICK k : Gains(f, g, k, v)
  BY <1>1, <1>2, NewRefGains
<1>4. /\ n \in 1 .. n /\ Len(r) = n /\ r[n] = g
      /\ \A i \in 1 .. n : i # n => r[i] = fs[i]
  <2>1. TopIs(fs, g, r)
    BY <1>1
  <2> QED
    BY <1>1, <2>1, TopReplaced
<1>5. Plus(Holdings(fs), Holdings(r), <<n, k>>, v)
  BY <1>1, <1>3, <1>4, PlusFrames
<1> QED
  BY <1>5

\* The procedure that runs goes on with the same stack.
LEMMA SameTop ==
    ASSUME NEW u, NEW fs, NEW live, FramesOK(u, fs, live), NEW r, NEW l, FramesOK(u, r, l),
           NEW g, TopIs(fs, g, r), SameStack(fs[Len(fs)], g)
    PROVE  Holdings(r) = Holdings(fs)
<1>1. PICK n : n = Len(fs)
  OBVIOUS
<1>2. /\ n \in 1 .. n /\ Len(r) = n /\ r[n] = g
      /\ \A i \in 1 .. n : i # n => r[i] = fs[i]
  BY <1>1, TopReplaced
<1>3. \A i \in 1 .. n : SameStack(fs[i], r[i])
  BY <1>1, <1>2 DEF SameStack
<1> QED
  BY <1>1, <1>2, <1>3, SameHoldings

\* A call, before the callee has copied a parameter.
LEMMA CallHoldings ==
    ASSUME NEW u, NEW fs, NEW live, FramesOK(u, fs, live), NEW g, g.entries = <<>>,
           NEW r, r = Append(fs, g), NEW l, FramesOK(u, r, l)
    PROVE  Holdings(r) = Holdings(fs)
<1>1. PICK n \in Nat : n = Len(fs)
  BY FramesFacts
<1>2. PICK S : fs \in Seq(S)
  BY DEF FramesOK
<1>3. PICK T : T = S \cup {g}
  OBVIOUS
<1>4. fs \in Seq(T) /\ g \in T
  <2>1. \A i \in 1 .. Len(fs) : fs[i] \in T
    BY <1>2, <1>3, ElementOfSeq
  <2> QED
    BY <1>2, <1>3, <2>1, SeqOfElements
<1>5. Len(r) = n + 1 /\ r[n + 1] = g /\ \A i \in 1 .. n : r[i] = fs[i]
  BY <1>1, <1>4, AppendProperties
<1>6. \A i \in 1 .. n : i \in 1 .. n + 1 /\ SameStack(fs[i], r[i])
  BY <1>5 DEF SameStack
<1>7. \A i \in 1 .. n + 1 : i \in 1 .. n \/ r[i].entries = <<>>
  <2>1. \A i \in 1 .. n + 1 : i \in 1 .. n \/ i = n + 1
    BY <1>1
  <2> QED
    BY <1>5, <2>1
<1> QED
  BY <1>1, <1>5, <1>6, <1>7, SameHoldings

\* A return from a procedure with an empty stack.
LEMMA ReturnHoldings ==
    ASSUME NEW u, NEW fs, NEW live, FramesOK(u, fs, live), Len(fs) > 1,
           fs[Len(fs)].entries = <<>>
    PROVE  Holdings(Front(fs)) = Holdings(fs)
<1>1. PICK n \in Nat : n = Len(fs) /\ n > 1
  BY FramesFacts
<1>2. PICK r : r = Front(fs)
  OBVIOUS
<1>3. PICK l : FramesOK(u, r, l)
  BY <1>2, FramesReturn
<1>4. Len(r) = n - 1 /\ \A i \in 1 .. n - 1 : r[i] = fs[i]
  BY <1>1, <1>2, FramesReturn
<1>5. \A i \in 1 .. n - 1 : i \in 1 .. n /\ SameStack(r[i], fs[i])
  BY <1>1, <1>4 DEF SameStack
<1>6. \A i \in 1 .. n : i \in 1 .. n - 1 \/ fs[i].entries = <<>>
  <2>1. \A i \in 1 .. n : i \in 1 .. n - 1 \/ i = n
    BY <1>1
  <2> QED
    BY <1>1, <2>1
<1>7. Holdings(fs) = Holdings(r)
  BY <1>1, <1>3, <1>4, <1>5, <1>6, SameHoldings
<1> QED
  BY <1>2, <1>7

\* What a statement or the end of a block makes of a frame, but for its stack.
LEMMA SameStacks ==
    ASSUME NEW u, NEW f, NEW live, FrameOK(u, f, live)
    PROVE  /\ SameStack(f, Outer(f)) /\ SameStack(f, WithLoop(f))
           /\ SameStack(f, WithTry(f)) /\ SameStack(f, WithOnError(f))
           /\ \A b : SameStack(f, [f EXCEPT !.blocks = Append(@, b)])
           /\ f.handlers # <<>> => SameStack(f, AtHandler(f))
<1>1. PICK E : Shaped(f, E)
  BY DEF FrameOK
<1>2. f \in Frame(E)
  BY <1>1, ShapedFacts
<1>3. SameStack(f, Outer(f))
  BY <1>2 DEF Outer, Frame, SameStack
<1>4. SameStack(f, WithLoop(f))
  BY <1>2 DEF WithLoop, Outer, Frame, SameStack
<1>5. SameStack(f, WithTry(f))
  BY <1>2 DEF WithTry, Frame, SameStack
<1>6. SameStack(f, WithOnError(f))
  BY <1>2 DEF WithOnError, Frame, SameStack
<1>7. \A b : SameStack(f, [f EXCEPT !.blocks = Append(@, b)])
  BY <1>2 DEF Frame, SameStack
<1>8. f.handlers # <<>> => SameStack(f, AtHandler(f))
  <2>1. f.handlers # <<>> => Head(f.handlers).label.kind \in {"try", "onerror"}
    BY FrameHandlers
  <2>2. CASE Head(f.handlers).label.kind = "try"
    BY <1>2, <2>2 DEF AtHandler, Frame, SameStack
  <2>3. CASE Head(f.handlers).label.kind = "onerror"
    BY <1>2, <2>3 DEF AtHandler, Frame, SameStack
  <2> QED
    BY <2>1, <2>2, <2>3
<1> QED
  BY <1>3, <1>4, <1>5, <1>6, <1>7, <1>8

-----------------------------------------------------------------------------
(* The invariant of a sound program *)

(***************************************************************************)
(* The counts are right and no assertion has failed; a result is on its    *)
(* way only while a function unwinds without an error; the slots whose     *)
(* references an unwinding drops hold blocks, and the stack of main is     *)
(* empty at the end.                                                       *)
(***************************************************************************)
CountsInv ==
    /\ Counted(count, Holdings(frames), ret)
    /\ ctl # Asserted
    /\ ret # Empty => ctl = Unwind /\ Top.kind = "fn" /\ ~eflag
    /\ ctl = Unwind => NeverWild(Top)
    /\ ctl = Ended => Len(frames) = 1 /\ Top.entries = <<>>

Sound == ScopesInv /\ uses = {} /\ CountsInv

LEMMA SoundRun ==
    ASSUME Sound, ctl = Run
    PROVE  /\ \E live \in Nat : FramesOK({}, frames, live)
           /\ \A i \in 1 .. Len(frames) : Steady({}, frames[i])
           /\ Len(frames) \in 1 .. Len(frames) /\ 1 \in 1 .. Len(frames)
           /\ Top = frames[Len(frames)] /\ ret = Empty /\ NeverWild(Top)
           /\ count \in [Blocks -> Nat] /\ Counted(count, Holdings(frames), Empty)
<1>1. /\ FramesOK({}, frames, Len(Innermost(frames[Len(frames)]).syms))
      /\ Top = frames[Len(frames)] /\ Steady({}, Top) /\ count \in [Blocks -> Nat]
  BY AtStatement DEF Sound
<1>2. PICK live \in Nat : live = Len(Innermost(frames[Len(frames)]).syms)
  BY <1>1, FrameFacts DEF Steady
<1>3. PICK n \in Nat \ {0} : n = Len(frames)
  BY <1>1, FramesFacts
<1>4. ASSUME NEW i \in 1 .. n
      PROVE  Steady({}, frames[i])
  <2>1. CASE i \in 1 .. n - 1
    BY <1>1, <1>3, <2>1 DEF FramesOK
  <2>2. CASE i = n
    BY <1>1, <1>3, <2>2
  <2> QED
    BY <2>1, <2>2
<1>5. n \in 1 .. n /\ 1 \in 1 .. n
  OBVIOUS
<1>6. ret = Empty
  BY CtlFacts DEF Sound, CountsInv
<1>7. Counted(count, Holdings(frames), Empty)
  BY <1>6 DEF Sound, CountsInv
<1>8. NeverWild(Top)
  BY <1>1, <1>2, LiveFrame DEF Steady
<1> QED
  BY <1>1, <1>2, <1>3, <1>4, <1>5, <1>6, <1>7, <1>8

\* A name has an entry on the stack of its frame.
LEMMA NameHeld ==
    ASSUME Sound, ctl = Run, NEW x \in Names
    PROVE  /\ x = <<x[1], x[2]>> /\ x[1] \in 1 .. Len(frames)
           /\ \E k \in 1 .. Len(frames[x[1]].entries) : frames[x[1]].entries[k] = x[2]
<1>1. /\ \A i \in 1 .. Len(frames) : Steady({}, frames[i])
      /\ Len(frames) \in 1 .. Len(frames) /\ 1 \in 1 .. Len(frames)
      /\ Top = frames[Len(frames)]
  BY SoundRun
<1>2. PICK i, s : x = <<i, s>> /\ i \in 1 .. Len(frames) /\ s \in Symbols(frames[i])
  <2>1. CASE x \in {<<Len(frames), s>> : s \in Symbols(Top)}
    BY <1>1, <2>1
  <2>2. CASE x \in {<<1, s>> : s \in ToSet(frames[1].blocks[1].syms)}
    <3>1. ToSet(frames[1].blocks[1].syms) \subseteq Symbols(frames[1])
      BY <1>1, SymbolsInRange DEF Steady
    <3> QED
      BY <1>1, <2>2, <3>1
  <2> QED
    BY <2>1, <2>2 DEF Names
<1>3. x[1] = i /\ x[2] = s
  BY <1>2
<1>4. \E k \in 1 .. Len(frames[i].entries) : frames[i].entries[k] = s
  BY <1>1, <1>2, SymbolHeld
<1> QED
  BY <1>2, <1>3, <1>4

\* Entry k of frame i is a place that drops what its slot holds.
LEMMA EntryPlace ==
    ASSUME NEW fs, NEW live, FramesOK({}, fs, live), NEW i \in 1 .. Len(fs),
           NEW k \in 1 .. Len(fs[i].entries), NEW q, q = <<i, k>>,
           NEW b \in Blocks, fs[i].slots[fs[i].entries[k]] = b
    PROVE  q \in Holdings(fs)[b]
<1>1. PICK m \in Nat : m = Len(fs) /\ m <= MaxFrames
  BY FramesFacts
<1>2. PICK l : FrameOK({}, fs[i], l)
  BY FramesFacts
<1>3. i \in 1 .. MaxFrames /\ k \in Slots
  BY <1>1, <1>2, EntrySlots, SlotsLemma
<1>4. q \in Places /\ q[1] = i /\ q[2] = k
  BY <1>3, PlaceAt
<1>5. HeldAt(fs, q, b)
  BY <1>4, HeldFrames DEF Drops
<1> QED
  BY <1>4, <1>5, HoldingsType

\* A name in scope holds nothing or a block in use.
LEMMA NameValid ==
    ASSUME Sound, ctl = Run, NEW x \in Names
    PROVE  /\ Valid(Value(x)) /\ Value(x) \in Blocks \cup {Empty} /\ Value(x) \in Values
           /\ Value(x) # Wild
<1>1. PICK live \in Nat : FramesOK({}, frames, live)
  BY SoundRun
<1>2. PICK i, s : i = x[1] /\ s = x[2]
  OBVIOUS
<1>3. i \in 1 .. Len(frames) /\ s \in Slots /\ Value(x) = frames[i].slots[s] /\ Value(x) \in Values
  BY <1>1, <1>2, ValueFacts
<1>4. PICK k \in 1 .. Len(frames[i].entries) : frames[i].entries[k] = s
  BY <1>2, NameHeld
<1>5. Value(x) # Wild
  <2>1. PICK l \in Nat : FrameOK({}, frames[i], l)
    BY <1>1, <1>3, LiveFrames
  <2> QED
    BY <1>3, <2>1, LiveFrame DEF NeverWild
<1>6. Value(x) \in Blocks \cup {Empty}
  BY <1>3, <1>5 DEF Values
<1>7. ASSUME Value(x) \in Blocks
      PROVE  count[Value(x)] > 0
  <2>1. PICK b \in Blocks : b = Value(x)
    BY <1>7
  <2>2. PICK q : q = <<i, k>>
    OBVIOUS
  <2>3. q \in Holdings(frames)[b]
    BY <1>1, <1>3, <1>4, <2>1, <2>2, EntryPlace
  <2>4. /\ count \in [Blocks -> Nat] /\ Counted(count, Holdings(frames), Empty)
        /\ Holdings(frames) \in [Blocks -> SUBSET Places]
    BY SoundRun, HoldingsType
  <2> QED
    BY <2>1, <2>3, <2>4, HeldInUse
<1> QED
  BY <1>3, <1>5, <1>6, <1>7 DEF Valid, InUse

\* The places without the one of the name x, which is given up and taken again.
GivenUp(x, C) ==
    /\ C \in [Blocks -> SUBSET Places]
    /\ \E q :
          /\ Plus(C, Holdings(frames), q, Value(x))
          /\ \A v, r : Assigned({}, frames, x[1], x[2], v, r) => Plus(C, Holdings(r), q, v)
    /\ \A y \in Names : y # x /\ Value(y) \in Blocks => C[Value(y)] # {}

LEMMA NameGivenUp ==
    ASSUME Sound, ctl = Run, NEW x \in Names
    PROVE  \E C : GivenUp(x, C)
<1>1. PICK live \in Nat : FramesOK({}, frames, live)
  BY SoundRun
<1>2. PICK j, s : j = x[1] /\ s = x[2]
  OBVIOUS
<1>3. x = <<j, s>> /\ j \in 1 .. Len(frames) /\ Value(x) = frames[j].slots[s] /\ Value(x) \in Values
      /\ Value(x) # Wild
  BY <1>1, <1>2, NameHeld, NameValid, ValueFacts
<1>4. PICK k \in 1 .. Len(frames[j].entries) : frames[j].entries[k] = s
  BY <1>2, NameHeld
<1>5. PICK q : q = <<j, k>>
  OBVIOUS
<1>6. PICK C : C = Without(Holdings(frames), q)
  OBVIOUS
<1>7. \A v, r : Assigned({}, frames, j, s, v, r) =>
         /\ C \in [Blocks -> SUBSET Places] /\ Plus(C, Holdings(frames), q, Value(x))
         /\ Plus(C, Holdings(r), q, v)
  <2> TAKE v, r
  <2> HAVE Assigned({}, frames, j, s, v, r)
  <2>1. C = Without(Holdings(frames), <<j, k>>)
    BY <1>5, <1>6
  <2>2. /\ C \in [Blocks -> SUBSET Places]
        /\ Plus(C, Holdings(frames), <<j, k>>, frames[j].slots[s])
        /\ Plus(C, Holdings(r), <<j, k>>, v)
    BY <1>1, <1>4, <2>1, AssignedHoldings
  <2> QED
    BY <1>3, <1>5, <2>2
<1>8. C \in [Blocks -> SUBSET Places] /\ Plus(C, Holdings(frames), q, Value(x))
  <2>1. \E r : Assigned({}, frames, j, s, Value(x), r)
    BY <1>3 DEF Assigned
  <2> QED
    BY <1>7, <2>1
<1>9. ASSUME NEW y \in Names, y # x, Value(y) \in Blocks
      PROVE  C[Value(y)] # {}
  <2>1. PICK b \in Blocks : b = Value(y)
    BY <1>9
  <2>2. PICK i, t : i = y[1] /\ t = y[2]
    OBVIOUS
  <2>3. y = <<i, t>> /\ i \in 1 .. Len(frames) /\ Value(y) = frames[i].slots[t]
    BY <1>1, <2>2, NameHeld, ValueFacts
  <2>4. PICK l \in 1 .. Len(frames[i].entries) : frames[i].entries[l] = t
    BY <2>2, NameHeld
  <2>5. PICK p : p = <<i, l>>
    OBVIOUS
  <2>6. p \in Holdings(frames)[b]
    BY <1>1, <2>1, <2>3, <2>4, <2>5, EntryPlace
  <2>7. p # q
    <3>1. i = j /\ l = k => t = s
      BY <1>4, <2>4
    <3>2. p = q => i = j /\ l = k
      BY <1>5, <2>5
    <3> QED
      BY <1>3, <1>9, <2>3, <3>1, <3>2
  <2>8. p \in C[b]
    BY <1>6, <2>6, <2>7 DEF Without
  <2> QED
    BY <2>1, <2>8
<1> QED
  BY <1>2, <1>7, <1>8, <1>9 DEF GivenUp

-----------------------------------------------------------------------------
(* Steps and the counts *)

\* A result is counted before it has a place: REF for it, and its place later.
LEMMA CountResult ==
    ASSUME NEW cnt \in [Blocks -> Nat], NEW A \in [Blocks -> SUBSET Places],
           NEW v \in Blocks \cup {Empty}, Counted(cnt, A, Empty)
    PROVE  Counted(Add(cnt, v, 1), A, v)
<1> SUFFICES ASSUME NEW b \in Blocks
             PROVE  Add(cnt, v, 1)[b] = Cardinality(A[b]) + (IF v = b THEN 1 ELSE 0)
  BY DEF Counted
<1>1. PICK k \in Nat : k = Cardinality(A[b])
  BY PlacesFinite
<1>2. b # Empty
  BY SlotsLemma
<1>3. cnt[b] = k
  BY <1>1, <1>2 DEF Counted
<1>4. CASE v = b
  <2>1. Add(cnt, v, 1)[b] = cnt[b] + 1
    BY <1>2, <1>4 DEF Add
  <2> QED
    BY <1>1, <1>3, <1>4, <2>1
<1>5. CASE v # b
  <2>1. Add(cnt, v, 1)[b] = cnt[b]
    BY <1>5 DEF Add
  <2> QED
    BY <1>1, <1>3, <1>5, <2>1
<1> QED
  BY <1>4, <1>5

LEMMA CountPlaced ==
    ASSUME NEW cnt, NEW A \in [Blocks -> SUBSET Places], NEW B, NEW q,
           NEW v \in Blocks \cup {Empty}, Counted(cnt, A, v), Plus(A, B, q, v)
    PROVE  Counted(cnt, B, Empty)
<1> SUFFICES ASSUME NEW b \in Blocks
             PROVE  cnt[b] = Cardinality(B[b]) + (IF Empty = b THEN 1 ELSE 0)
  BY DEF Counted
<1>1. PICK k \in Nat : k = Cardinality(A[b])
  BY PlusCard
<1>2. b # Empty
  BY SlotsLemma
<1>3. cnt[b] = k + (IF v = b THEN 1 ELSE 0)
  BY <1>1 DEF Counted
<1>4. Cardinality(B[b]) = IF v = b THEN k + 1 ELSE k
  BY <1>1, PlusCard
<1> QED
  BY <1>1, <1>2, <1>3, <1>4

LEMMA CountsRun ==
    ASSUME ctl' = Run \/ \E n : ctl' = Leave(n), ret' = Empty,
           Counted(count', Holdings(frames'), Empty)
    PROVE  CountsInv'
<1>1. ctl' # Unwind /\ ctl' # Ended /\ ctl' # Asserted
  BY CtlFacts
<1> QED
  BY <1>1 DEF CountsInv

LEMMA CountsUnwind ==
    ASSUME ctl' = Unwind, NeverWild(frames'[Len(frames')]),
           ret' # Empty => frames'[Len(frames')].kind = "fn" /\ eflag' = FALSE,
           Counted(count', Holdings(frames'), ret')
    PROVE  CountsInv'
<1>1. ctl' # Ended /\ ctl' # Asserted
  BY CtlFacts
<1>2. Top' = frames'[Len(frames')]
  BY DEF Top
<1> QED
  BY <1>1, <1>2 DEF CountsInv

LEMMA CountsErrors ==
    ASSUME NEW fs, NEW live \in Nat, FramesOK({}, fs, live), HandleErrors(fs, fs[Len(fs)]),
           ScopesInv', uses' = {}, Counted(count', Holdings(fs), Empty)
    PROVE  CountsInv'
<1>1. PICK f : f = fs[Len(fs)]
  OBVIOUS
<1>2. FrameOK({}, f, live)
  BY <1>1 DEF FramesOK
<1>3. HandleErrors(fs, f)
  BY <1>1
<1>4. ret' = Empty
  BY <1>3 DEF HandleErrors
<1>5. CASE f.handlers # <<>>
  <2>1. TopIs(fs, AtHandler(f), frames') /\ ctl' = Run
    BY <1>3, <1>5 DEF HandleErrors, TopIs
  <2>2. SameStack(fs[Len(fs)], AtHandler(f))
    BY <1>1, <1>2, <1>5, SameStacks
  <2>3. PICK l : FramesOK({}, frames', l)
    BY AnyFramesNext
  <2>4. Holdings(frames') = Holdings(fs)
    BY <2>1, <2>2, <2>3, SameTop
  <2> QED
    BY <1>4, <2>1, <2>4, CountsRun
<1>6. CASE f.handlers = <<>>
  <2>1. frames' = fs /\ ctl' = Unwind
    BY <1>3, <1>6 DEF HandleErrors
  <2>2. NeverWild(frames'[Len(frames')])
    BY <1>1, <1>2, <2>1, LiveFrame
  <2> QED
    BY <1>4, <2>1, <2>2, CountsUnwind
<1> QED
  BY <1>5, <1>6

\* A statement of a sound program, and the state it leads to.
LEMMA SoundStep ==
    ASSUME Sound, ScopesInv', uses' = uses
    PROVE  /\ uses' = {} /\ count \in [Blocks -> Nat] /\ ret \in Blocks \cup {Empty}
           /\ Counted(count, Holdings(frames), ret)
           /\ \E l \in Int : FramesOK({}, frames', l)
<1>1. uses' = {}
  BY DEF Sound
<1>2. \E l \in Int : FramesOK({}, frames', l)
  BY <1>1, AnyFramesNext
<1> QED
  BY <1>1, <1>2 DEF Sound, ScopesInv, CountsInv

\* A new reference to v, counted.
LEMMA DeclareCounts ==
    ASSUME Sound, ScopesInv', uses' = uses, ctl = Run, Room(Top), NEW v \in Blocks \cup {Empty},
           frames' = WithTop(NewRef(Top, v)), count' = Add(count, v, 1), UNCHANGED <<ctl, ret>>
    PROVE  CountsInv'
<1>1. PICK live \in Nat : FramesOK({}, frames, live)
  BY SoundRun
<1>2. /\ Top = frames[Len(frames)] /\ ret = Empty /\ count \in [Blocks -> Nat]
      /\ Counted(count, Holdings(frames), Empty)
  BY SoundRun
<1>3. PICK l : FramesOK({}, frames', l)
  BY SoundStep
<1>4. v \in Values
  BY DEF Values
<1>5. TopIs(frames, NewRef(frames[Len(frames)], v), frames') /\ Room(frames[Len(frames)])
  BY <1>2 DEF TopIs, WithTop
<1>6. PICK q : Plus(Holdings(frames), Holdings(frames'), q, v)
  BY <1>1, <1>3, <1>4, <1>5, NewRefHoldings
<1>7. Holdings(frames) \in [Blocks -> SUBSET Places] /\ Empty \in Blocks \cup {Empty}
  BY HoldingsType
<1>8. Counted(Add(count, v, 1), Holdings(frames'), Empty)
  BY <1>2, <1>6, <1>7, CountPlus
<1> QED
  BY <1>2, <1>8, CountsRun

LEMMA DeclareEmptyCounts ==
    ASSUME Sound, ScopesInv', uses' = uses, DeclareEmpty
    PROVE  CountsInv'
<1>1. /\ ctl = Run /\ Room(Top) /\ frames' = WithTop(NewRef(Top, Empty))
      /\ UNCHANGED <<count, ctl, ret>>
  BY DEF DeclareEmpty
<1>2. count' = Add(count, Empty, 1)
  BY <1>1 DEF Add
<1> QED
  BY <1>1, <1>2, DeclareCounts

LEMMA DeclareCopyCounts ==
    ASSUME Sound, ScopesInv', uses' = uses, NEW y \in Names, DeclareCopy(y)
    PROVE  CountsInv'
<1>1. ctl = Run /\ Room(Top)
  BY DEF DeclareCopy
<1>2. Valid(Value(y)) /\ Value(y) \in Blocks \cup {Empty}
  BY <1>1, NameValid
<1>3. PICK v \in Blocks \cup {Empty} : v = Value(y)
  BY <1>2
<1>4. frames' = WithTop(NewRef(Top, v)) /\ count' = Add(count, v, 1) /\ UNCHANGED <<ctl, ret>>
  BY <1>2, <1>3 DEF DeclareCopy
<1> QED
  BY <1>1, <1>4, DeclareCounts

LEMMA DeclareConstCounts ==
    ASSUME Sound, ScopesInv', uses' = uses, NEW b \in Blocks, DeclareConst(b)
    PROVE  CountsInv'
<1>1. /\ ctl = Run /\ Room(Top) /\ count[b] = 0 /\ frames' = WithTop(NewRef(Top, b))
      /\ count' = [count EXCEPT ![b] = 1] /\ UNCHANGED <<ctl, ret>>
  BY DEF DeclareConst, Fresh
<1>2. count' = Add(count, b, 1)
  BY <1>1, SoundStep, FreshAdds
<1> QED
  BY <1>1, <1>2, DeclareCounts

\* A statement fails.
LEMMA FailCounts ==
    ASSUME Sound, ScopesInv', uses' = uses, ctl = Run, HandleErrors(frames, Top),
           count' = count
    PROVE  CountsInv'
<1>1. PICK live \in Nat : FramesOK({}, frames, live)
  BY SoundRun
<1>2. /\ Top = frames[Len(frames)] /\ Counted(count, Holdings(frames), Empty)
  BY SoundRun
<1> QED
  BY <1>1, <1>2, SoundStep, CountsErrors

\* The variable x gives up its value: the others are still in use.
LEMMA NameLeft ==
    ASSUME Sound, ctl = Run, NEW x \in Names, NEW C, GivenUp(x, C),
           NEW left, left = Add(count, Value(x), -1)
    PROVE  /\ left \in [Blocks -> Nat] /\ Counted(left, C, Empty)
           /\ \A y \in Names : y # x /\ Value(y) \in Blocks => left[Value(y)] > 0
<1>1. /\ count \in [Blocks -> Nat] /\ Counted(count, Holdings(frames), Empty)
      /\ Empty \in Blocks \cup {Empty}
  BY SoundRun
<1>2. PICK v \in Blocks \cup {Empty} : v = Value(x)
  BY NameValid
<1>3. C \in [Blocks -> SUBSET Places] /\ \E q : Plus(C, Holdings(frames), q, v)
  BY <1>2 DEF GivenUp
<1>4. Counted(Add(count, v, -1), C, Empty) /\ (v # Empty => count[v] > 0)
  BY <1>1, <1>3, CountMinus
<1>5. left \in [Blocks -> Nat] /\ Counted(left, C, Empty)
  BY <1>1, <1>2, <1>4, AddFacts
<1>6. ASSUME NEW y \in Names, y # x, Value(y) \in Blocks
      PROVE  left[Value(y)] > 0
  <2>1. PICK b \in Blocks : b = Value(y)
    BY <1>6
  <2>2. PICK p : p \in C[b]
    BY <1>6, <2>1 DEF GivenUp
  <2> QED
    BY <1>3, <1>5, <2>1, <2>2, HeldInUse
<1> QED
  BY <1>5, <1>6

\* The variable x gets the value w, counted.
LEMMA AssignCounts ==
    ASSUME Sound, ScopesInv', uses' = uses, ctl = Run, NEW x \in Names,
           NEW w \in Blocks \cup {Empty}, count' = Add(Add(count, Value(x), -1), w, 1),
           frames' = [frames EXCEPT ![x[1]].slots[x[2]] = w], UNCHANGED <<ctl, ret>>
    PROVE  CountsInv'
<1>1. PICK C, left : GivenUp(x, C) /\ left = Add(count, Value(x), -1)
  BY NameGivenUp
<1>2. left \in [Blocks -> Nat] /\ Counted(left, C, Empty) /\ C \in [Blocks -> SUBSET Places]
  BY <1>1, NameLeft DEF GivenUp
<1>3. Assigned({}, frames, x[1], x[2], w, frames')
  <2>1. w \in Values /\ w # Wild
    BY SlotsLemma DEF Values
  <2> QED
    BY <2>1, NameHeld DEF Assigned
<1>4. PICK q : Plus(C, Holdings(frames'), q, w)
  BY <1>1, <1>3 DEF GivenUp
<1>5. Counted(Add(left, w, 1), Holdings(frames'), Empty)
  <2>1. Empty \in Blocks \cup {Empty}
    OBVIOUS
  <2> QED
    BY <1>2, <1>4, <2>1, CountPlus
<1>6. ctl' = Run /\ ret' = Empty /\ count' = Add(left, w, 1)
  BY <1>1, SoundRun
<1> QED
  BY <1>5, <1>6, CountsRun

LEMMA AssignVarCounts ==
    ASSUME Sound, ScopesInv', uses' = uses, NEW x \in Names, NEW y \in Names, AssignVar(x, y)
    PROVE  CountsInv'
<1>1. ctl = Run /\ x # y
  BY DEF AssignVar, Sound
<1>2. PICK left : left = Add(count, Value(x), -1)
  OBVIOUS
<1>3. PICK w \in Blocks \cup {Empty} : w = Value(y)
  BY <1>1, NameValid
<1>4. Valid(Value(x)) /\ Valid(w)
  BY <1>1, <1>3, NameValid
<1>5. w = Empty \/ (InUse(w) /\ left[w] > 0)
  <2>1. PICK C : GivenUp(x, C)
    BY <1>1, NameGivenUp
  <2>2. w \in Blocks => left[w] > 0
    BY <1>1, <1>2, <1>3, <2>1, NameLeft
  <2>3. w # Empty => InUse(w)
    BY <1>4 DEF Valid
  <2> QED
    BY <2>2, <2>3
<1>6. /\ count' = Add(left, w, 1) /\ frames' = [frames EXCEPT ![x[1]].slots[x[2]] = w]
      /\ UNCHANGED <<ctl, ret>>
  BY <1>2, <1>3, <1>4, <1>5 DEF AssignVar
<1> QED
  BY <1>1, <1>2, <1>6, AssignCounts

LEMMA AssignEmptyCounts ==
    ASSUME Sound, ScopesInv', uses' = uses, NEW x \in Names, AssignEmpty(x)
    PROVE  CountsInv'
<1>1. ctl = Run
  BY DEF AssignEmpty
<1>2. Valid(Value(x))
  BY <1>1, NameValid
<1>3. PICK w \in Blocks \cup {Empty} : w = Empty
  OBVIOUS
<1>4. /\ count' = Add(count, Value(x), -1) /\ UNCHANGED <<ctl, ret>>
      /\ frames' = [frames EXCEPT ![x[1]].slots[x[2]] = w]
  BY <1>2, <1>3 DEF AssignEmpty
<1>5. count' = Add(Add(count, Value(x), -1), w, 1)
  BY <1>3, <1>4 DEF Add
<1> QED
  BY <1>1, <1>4, <1>5, AssignCounts

LEMMA AssignConstCounts ==
    ASSUME Sound, ScopesInv', uses' = uses, NEW x \in Names, NEW b \in Blocks,
           AssignConst(x, b)
    PROVE  CountsInv'
<1>1. ctl = Run
  BY DEF AssignConst
<1>2. Valid(Value(x))
  BY <1>1, NameValid
<1>3. PICK left : left = Add(count, Value(x), -1)
  OBVIOUS
<1>4. /\ left[b] = 0 /\ count' = [left EXCEPT ![b] = 1]
      /\ frames' = [frames EXCEPT ![x[1]].slots[x[2]] = b] /\ UNCHANGED <<ctl, ret>>
  BY <1>2, <1>3 DEF AssignConst
<1>5. left \in [Blocks -> Nat]
  <2>1. PICK C : GivenUp(x, C)
    BY <1>1, NameGivenUp
  <2> QED
    BY <1>1, <1>3, <2>1, NameLeft
<1>6. count' = Add(Add(count, Value(x), -1), b, 1)
  BY <1>3, <1>4, <1>5, FreshAdds
<1> QED
  BY <1>1, <1>4, <1>6, AssignCounts

\* A call whose frame is g, without entries.
LEMMA CalledHoldings ==
    ASSUME Sound, ctl = Run, Len(frames) < MaxFrames, MayFail(Top), NEW kind \in {"proc", "fn"},
           kind = "fn" => Room(Top), NEW r, r = Append(frames, NewFrame(kind))
    PROVE  /\ \E live \in Nat : FramesOK({}, r, live)
           /\ Holdings(r) = Holdings(frames)
           /\ r[Len(r)] = NewFrame(kind) /\ Len(r) = Len(frames) + 1
<1>1. /\ FramesOK({}, frames, Len(Innermost(frames[Len(frames)]).syms))
      /\ Top = frames[Len(frames)]
  BY AtStatement DEF Sound
<1>2. PICK g : g = NewFrame(kind)
  OBVIOUS
<1>3. Steady({}, g) /\ g.kind = kind
  BY <1>2, NewFrameSteady
<1>4. Caller({}, frames[Len(frames)], g)
  BY <1>1, <1>3 DEF Caller, MayFail, NothingToLose, NothingHeld, Sound
<1>5. g.kind \in {"proc", "fn"}
  BY <1>3
<1>6. r = Append(frames, g)
  BY <1>2
<1>7. FramesOK({}, r, Len(Innermost(r[Len(r)]).syms))
  BY <1>1, <1>3, <1>4, <1>5, <1>6, FramesCall
<1>8. Steady({}, r[Len(r)])
  BY <1>7 DEF FramesOK, Steady
<1>9. PICK live \in Nat : live = Len(Innermost(r[Len(r)]).syms)
  BY <1>8, FrameFacts DEF Steady
<1>10. FramesOK({}, r, live)
  BY <1>7, <1>9
<1>11. g.entries = <<>>
  BY <1>2 DEF NewFrame
<1>12. Holdings(r) = Holdings(frames)
  BY <1>1, <1>6, <1>10, <1>11, CallHoldings
<1>13. r[Len(r)] = g /\ Len(r) = Len(frames) + 1
  <2>1. PICK S : frames \in Seq(S)
    BY <1>1 DEF FramesOK
  <2>2. frames \in Seq(S \cup {g})
    <3>1. \A i \in 1 .. Len(frames) : frames[i] \in S \cup {g}
      BY <2>1, ElementOfSeq
    <3> QED
      BY <2>1, <3>1, SeqOfElements
  <2> QED
    BY <1>6, <2>2, AppendProperties
<1> QED
  BY <1>2, <1>10, <1>12, <1>13

\* The new frame changes before the callee runs.
LEMMA AppendExcept ==
    ASSUME NEW S, NEW s \in Seq(S), NEW a, NEW b
    PROVE  Append(s, b) = [Append(s, a) EXCEPT ![Len(Append(s, a))] = b]
<1>0. PICK r : r = Append(s, a)
  OBVIOUS
<1>1. PICK T : T = S \cup {a, b}
  OBVIOUS
<1>2. s \in Seq(T) /\ a \in T /\ b \in T
  <2>1. \A i \in 1 .. Len(s) : s[i] \in T
    BY <1>1, ElementOfSeq
  <2> QED
    BY <1>1, <2>1, SeqOfElements
<1>3. PICK n \in Nat : n = Len(s)
  BY LenProperties
<1>4. r \in Seq(T) /\ Len(r) = n + 1 /\ \A i \in 1 .. n : r[i] = s[i]
  BY <1>0, <1>2, <1>3, AppendProperties
<1>5. PICK q : q = Append(s, b)
  OBVIOUS
<1>6. q \in Seq(T) /\ Len(q) = n + 1 /\ q[n + 1] = b /\ \A i \in 1 .. n : q[i] = s[i]
  BY <1>2, <1>3, <1>5, AppendProperties
<1>7. PICK p : p = [r EXCEPT ![Len(r)] = b]
  OBVIOUS
<1>8. n + 1 \in 1 .. n + 1
  BY <1>3
<1>9. p \in Seq(T) /\ Len(p) = n + 1 /\ \A i \in 1 .. n + 1 : p[i] = IF i = n + 1 THEN b ELSE r[i]
  <2>1. PICK m : m = n + 1
    OBVIOUS
  <2>2. Len(r) = m /\ m \in 1 .. Len(r) /\ r \in Seq(T) /\ b \in T /\ p = [r EXCEPT ![m] = b]
    BY <1>2, <1>4, <1>7, <1>8, <2>1
  <2>3. /\ [r EXCEPT ![m] = b] \in Seq(T) /\ Len([r EXCEPT ![m] = b]) = Len(r)
        /\ \A i \in 1 .. Len(r) : [r EXCEPT ![m] = b][i] = IF i = m THEN b ELSE r[i]
    BY <2>2, ExceptSeq
  <2> QED
    BY <2>1, <2>2, <2>3
<1>10. \A i \in 1 .. n + 1 : p[i] = q[i]
  <2>1. \A i \in 1 .. n + 1 : i = n + 1 \/ i \in 1 .. n
    BY <1>3
  <2> QED
    BY <1>4, <1>6, <1>9, <2>1
<1>11. p = q
  BY <1>6, <1>9, <1>10, SeqEqual
<1> QED
  BY <1>0, <1>5, <1>7, <1>11

LEMMA CallCounts ==
    ASSUME Sound, ScopesInv', uses' = uses, NEW kind \in {"proc", "fn"}, Call(kind)
    PROVE  CountsInv'
<1>1. /\ ctl = Run /\ Len(frames) < MaxFrames /\ MayFail(Top) /\ (kind = "fn" => Room(Top))
      /\ frames' = Append(frames, NewFrame(kind)) /\ UNCHANGED <<count, ctl, ret>>
  BY DEF Call
<1>2. Holdings(frames') = Holdings(frames)
  BY <1>1, CalledHoldings
<1>3. ret = Empty /\ Counted(count, Holdings(frames), Empty)
  BY <1>1, SoundRun
<1> QED
  BY <1>1, <1>2, <1>3, CountsRun

LEMMA CallWithCounts ==
    ASSUME Sound, ScopesInv', uses' = uses, NEW kind \in {"proc", "fn"}, NEW x \in Names,
           CallWith(kind, x)
    PROVE  CountsInv'
<1>1. ctl = Run /\ Len(frames) < MaxFrames /\ MayFail(Top) /\ (kind = "fn" => Room(Top))
  BY DEF CallWith
<1>2. Valid(Value(x)) /\ Value(x) \in Blocks \cup {Empty}
  BY <1>1, NameValid
<1>3. PICK v \in Blocks \cup {Empty} : v = Value(x)
  BY <1>2
<1>4. /\ frames' = Append(frames, NewRef(NewFrame(kind), v)) /\ count' = Add(count, v, 1)
      /\ UNCHANGED <<ctl, ret>>
  BY <1>2, <1>3 DEF CallWith
<1>5. PICK r : r = Append(frames, NewFrame(kind))
  OBVIOUS
<1>6. PICK live \in Nat : FramesOK({}, r, live)
  BY <1>1, <1>5, CalledHoldings
<1>7. /\ Holdings(r) = Holdings(frames) /\ r[Len(r)] = NewFrame(kind)
      /\ Len(r) = Len(frames) + 1
  BY <1>1, <1>5, CalledHoldings
<1>8. frames' = [r EXCEPT ![Len(r)] = NewRef(NewFrame(kind), v)]
  <2>1. PICK S : frames \in Seq(S)
    BY <1>1, SoundRun DEF FramesOK
  <2> QED
    BY <1>4, <1>5, <2>1, AppendExcept
<1>9. TopIs(r, NewRef(r[Len(r)], v), frames')
  BY <1>7, <1>8 DEF TopIs
<1>10. Room(r[Len(r)])
  BY <1>7, NewFrameSteady
<1>11. PICK l : FramesOK({}, frames', l)
  BY SoundStep
<1>12. v \in Values
  BY DEF Values
<1>13. PICK q : Plus(Holdings(r), Holdings(frames'), q, v)
  BY <1>6, <1>9, <1>10, <1>11, <1>12, NewRefHoldings
<1>14. /\ count \in [Blocks -> Nat] /\ Counted(count, Holdings(r), Empty) /\ ret = Empty
       /\ Holdings(r) \in [Blocks -> SUBSET Places] /\ Empty \in Blocks \cup {Empty}
  BY <1>1, <1>7, SoundRun, HoldingsType
<1>15. Counted(count', Holdings(frames'), Empty)
  BY <1>4, <1>13, <1>14, CountPlus
<1> QED
  BY <1>1, <1>4, <1>14, <1>15, CountsRun

\* The procedure that runs goes on, with the same stack.
LEMMA SameCounts ==
    ASSUME Sound, ScopesInv', uses' = uses, NEW live, FramesOK({}, frames, live), ret = Empty,
           NEW g, SameStack(Top, g), frames' = WithTop(g), ctl' = Run, UNCHANGED <<count, ret>>
    PROVE  CountsInv'
<1>1. TopIs(frames, g, frames') /\ SameStack(frames[Len(frames)], g)
  BY DEF TopIs, WithTop, Top
<1>2. PICK l : FramesOK({}, frames', l)
  BY SoundStep
<1>3. Holdings(frames') = Holdings(frames)
  BY <1>1, <1>2, SameTop
<1>4. Counted(count, Holdings(frames), Empty)
  BY SoundStep
<1> QED
  BY <1>3, <1>4, CountsRun

LEMMA EnterBlockCounts ==
    ASSUME Sound, ScopesInv', uses' = uses, NEW kind \in {"block", "loop", "try"},
           EnterBlock(kind)
    PROVE  CountsInv'
<1>1. ctl = Run /\ ctl' = Run /\ UNCHANGED <<count, ret>>
  BY DEF EnterBlock
<1>2. PICK live \in Nat : FramesOK({}, frames, live)
  BY <1>1, SoundRun
<1>3. ret = Empty /\ FrameOK({}, Top, live)
  BY <1>1, <1>2, SoundRun DEF FramesOK
<1>4. CASE kind = "try"
  <2>1. PICK g : g = WithTry(Top) /\ SameStack(Top, g)
    BY <1>3, SameStacks
  <2>2. frames' = WithTop(g)
    BY <1>4, <2>1 DEF EnterBlock, WithTry
  <2> QED
    BY <1>1, <1>2, <1>3, <2>1, <2>2, SameCounts
<1>5. CASE kind \in {"block", "loop"}
  <2>1. PICK g : g = [Top EXCEPT !.blocks = Append(@, Block(kind, Top.next))]
    OBVIOUS
  <2>2. SameStack(Top, g)
    BY <1>3, <2>1, SameStacks
  <2>3. frames' = WithTop(g)
    BY <1>5, <2>1 DEF EnterBlock
  <2> QED
    BY <1>1, <1>2, <1>3, <2>2, <2>3, SameCounts
<1> QED
  BY <1>4, <1>5

LEMMA OnErrorCounts ==
    ASSUME Sound, ScopesInv', uses' = uses, OnError
    PROVE  CountsInv'
<1>1. ctl = Run /\ ctl' = Run /\ UNCHANGED <<count, ret>>
  BY DEF OnError
<1>2. PICK live \in Nat : FramesOK({}, frames, live)
  BY <1>1, SoundRun
<1>3. ret = Empty /\ FrameOK({}, Top, live)
  BY <1>1, <1>2, SoundRun DEF FramesOK
<1>4. PICK g : g = WithOnError(Top) /\ SameStack(Top, g)
  BY <1>3, SameStacks
<1>5. frames' = WithTop(g)
  BY <1>4 DEF OnError, WithOnError
<1> QED
  BY <1>1, <1>2, <1>3, <1>4, <1>5, SameCounts

\* The end of a procedure, with the result r.
LEMMA EndCounts ==
    ASSUME Sound, ScopesInv', uses' = uses, ctl = Run, frames' = frames, ctl' = Unwind,
           ret' # Empty => Top.kind = "fn" /\ eflag' = FALSE,
           Counted(count', Holdings(frames), ret')
    PROVE  CountsInv'
<1>1. Top = frames[Len(frames)] /\ NeverWild(Top)
  BY SoundRun
<1> QED
  BY <1>1, CountsUnwind

LEMMA EndProcCounts ==
    ASSUME Sound, ScopesInv', uses' = uses, EndProc \/ EndMain
    PROVE  CountsInv'
<1>1. ctl = Run /\ ctl' = Unwind /\ UNCHANGED <<frames, count, ret>>
  BY DEF EndProc, EndMain
<1>2. ret = Empty /\ Counted(count, Holdings(frames), Empty)
  BY <1>1, SoundRun
<1> QED
  BY <1>1, <1>2, EndCounts

LEMMA ReturnCounts ==
    ASSUME Sound, ScopesInv', uses' = uses, NEW x \in Names, Return(x)
    PROVE  CountsInv'
<1>1. ctl = Run /\ Top.kind = "fn"
  BY DEF Return
<1>2. Valid(Value(x)) /\ Value(x) \in Blocks \cup {Empty}
  BY <1>1, NameValid
<1>3. PICK v \in Blocks \cup {Empty} : v = Value(x)
  BY <1>2
<1>4. /\ ret' = v /\ count' = Add(count, v, 1) /\ ctl' = Unwind
      /\ UNCHANGED <<frames, eflag>>
  BY <1>2, <1>3 DEF Return
<1>5. /\ count \in [Blocks -> Nat] /\ Counted(count, Holdings(frames), Empty)
      /\ Holdings(frames) \in [Blocks -> SUBSET Places]
  BY <1>1, SoundRun, HoldingsType
<1>6. Counted(count', Holdings(frames), ret')
  BY <1>4, <1>5, CountResult
<1>7. eflag' = FALSE
  BY <1>1, <1>4, AtStatement DEF Sound, ScopesInv
<1> QED
  BY <1>1, <1>4, <1>6, <1>7, EndCounts

LEMMA RaiseErrorCounts ==
    ASSUME Sound, ScopesInv', uses' = uses, RaiseError
    PROVE  CountsInv'
<1>1. ctl = Run /\ count' = count
  BY DEF RaiseError
<1>2. CASE Top.inHandler
  <2>1. ctl' = Unwind /\ ret' = Empty /\ frames' = frames
    BY <1>2 DEF RaiseError
  <2>2. Counted(count, Holdings(frames), Empty)
    BY <1>1, SoundRun
  <2> QED
    BY <1>1, <2>1, <2>2, EndCounts
<1>3. CASE ~Top.inHandler
  <2>1. HandleErrors(frames, Top)
    BY <1>3 DEF RaiseError
  <2> QED
    BY <1>1, <2>1, FailCounts
<1> QED
  BY <1>2, <1>3

LEMMA EndBlockCounts ==
    ASSUME Sound, ScopesInv', uses' = uses, EndBlock
    PROVE  CountsInv'
<1>1. ctl = Run /\ ctl' = Leave(Len(Innermost(Top).syms)) /\ UNCHANGED <<frames, count, ret>>
  BY DEF EndBlock
<1>2. ret = Empty /\ Counted(count, Holdings(frames), Empty)
  BY <1>1, SoundRun
<1>3. \E n : ctl' = Leave(n)
  BY <1>1
<1> QED
  BY <1>1, <1>2, <1>3, CountsRun

LEMMA StatementCounts ==
    ASSUME Sound, ScopesInv', uses' = uses, Statement
    PROVE  CountsInv'
<1>1. CASE DeclareEmpty
  BY <1>1, DeclareEmptyCounts
<1>2. CASE DeclareFails
  <2>1. ctl = Run /\ HandleErrors(frames, Top) /\ count' = count
    BY <1>2 DEF DeclareFails
  <2> QED
    BY <2>1, FailCounts
<1>3. CASE EmptySlice \/ (\E b \in Blocks : EnterWhile(b)) \/ \E x \in Names : AssignFails(x)
  BY <1>3 DEF EmptySlice, EnterWhile, AssignFails, Sound
<1>4. CASE EndProc \/ EndMain
  BY <1>4, EndProcCounts
<1>5. CASE OnError
  BY <1>5, OnErrorCounts
<1>6. CASE RaiseError
  BY <1>6, RaiseErrorCounts
<1>7. CASE EndBlock
  BY <1>7, EndBlockCounts
<1>8. ASSUME NEW b \in Blocks, DeclareConst(b)
      PROVE  CountsInv'
  BY <1>8, DeclareConstCounts
<1>9. ASSUME NEW x \in Names, DeclareCopy(x)
      PROVE  CountsInv'
  BY <1>9, DeclareCopyCounts
<1>10. ASSUME NEW x \in Names, Return(x)
       PROVE  CountsInv'
  BY <1>10, ReturnCounts
<1>11. ASSUME NEW x \in Names, AssignEmpty(x)
       PROVE  CountsInv'
  BY <1>11, AssignEmptyCounts
<1>12. ASSUME NEW x \in Names, NEW y \in Names, AssignVar(x, y)
       PROVE  CountsInv'
  BY <1>12, AssignVarCounts
<1>13. ASSUME NEW x \in Names, NEW b \in Blocks, AssignConst(x, b)
       PROVE  CountsInv'
  BY <1>13, AssignConstCounts
<1>14. ASSUME NEW kind \in {"proc", "fn"}, Call(kind)
       PROVE  CountsInv'
  BY <1>14, CallCounts
<1>15. ASSUME NEW kind \in {"proc", "fn"}, NEW x \in Names, CallWith(kind, x)
       PROVE  CountsInv'
  BY <1>15, CallWithCounts
<1>16. ASSUME NEW kind \in {"block", "loop", "try"}, EnterBlock(kind)
       PROVE  CountsInv'
  BY <1>16, EnterBlockCounts
<1> QED
  BY <1>1, <1>2, <1>3, <1>4, <1>5, <1>6, <1>7, <1>8, <1>9, <1>10, <1>11, <1>12, <1>13, <1>14,
     <1>15, <1>16, Zenon DEF Statement

-----------------------------------------------------------------------------
(* The machine and the counts *)

LEMMA SoundLeave ==
    ASSUME Sound, NEW n, ctl = Leave(n)
    PROVE  /\ n \in Nat /\ FramesOK({}, frames, n) /\ Top = frames[Len(frames)]
           /\ FrameOK({}, Top, n) /\ NeverWild(Top) /\ ret = Empty /\ ctl.op = "leave"
           /\ Counted(count, Holdings(frames), Empty)
<1>1. /\ n \in Nat /\ FramesOK({}, frames, n) /\ Top = frames[Len(frames)] /\ FrameOK({}, Top, n)
  BY AtLeave DEF Sound
<1>2. ctl.op = "leave" /\ ctl # Unwind
  BY CtlFacts
<1>3. ret = Empty /\ Counted(count, Holdings(frames), Empty)
  BY <1>2 DEF Sound, CountsInv
<1>4. NeverWild(Top)
  BY <1>1, LiveFrame
<1> QED
  BY <1>1, <1>2, <1>3, <1>4

LEMMA SoundUnwind ==
    ASSUME Sound, ctl = Unwind
    PROVE  /\ FramesOK({}, frames, -1) /\ Top = frames[Len(frames)] /\ FrameOK({}, Top, -1)
           /\ NeverWild(Top) /\ ctl.op = "unwind"
           /\ ret # Empty => Top.kind = "fn" /\ ~eflag
<1>1. FramesOK({}, frames, -1) /\ Top = frames[Len(frames)] /\ FrameOK({}, Top, -1)
  BY AtUnwind DEF Sound
<1>2. ctl.op = "unwind"
  BY CtlFacts
<1> QED
  BY <1>1, <1>2 DEF Sound, CountsInv

\* The last entry is popped, and the reference dropped: it held a block in use.
LEMMA PoppedCounts ==
    ASSUME Sound, NEW live, FramesOK({}, frames, live), NeverWild(Top), NEW g, Pops(Top, g),
           NEW r, TopIs(frames, g, r), NEW l, FramesOK({}, r, l),
           NEW v, v = Top.slots[Last(Top.entries)]
    PROVE  Valid(v) /\ Counted(Add(count, v, -1), Holdings(r), ret)
<1>1. PICK n : n = Len(frames)
  OBVIOUS
<1>2. Top = frames[n] /\ FrameOK({}, Top, live)
  BY <1>1 DEF Top, FramesOK
<1>3. /\ n \in 1 .. n /\ Len(r) = n /\ r[n] = g
      /\ \A i \in 1 .. n : i # n => r[i] = frames[i]
  BY <1>1, TopReplaced
<1>4. PICK k : k = Len(Top.entries)
  OBVIOUS
<1>5. Gains(g, Top, k, v) /\ Last(Top.entries) \in Slots
  BY <1>2, <1>4, PopGains
<1>6. Plus(Holdings(r), Holdings(frames), <<n, k>>, v)
  <2>1. \A i \in 1 .. n : i # n => frames[i] = r[i]
    BY <1>3
  <2>2. Gains(r[n], frames[n], k, v)
    BY <1>2, <1>3, <1>5
  <2> QED
    BY <1>1, <1>3, <2>1, <2>2, PlusFrames
<1>7. v \in Blocks \cup {Empty}
  <2>1. v \in Values
    BY <1>2, <1>5, EntrySlots
  <2>2. v # Wild
    BY <1>5 DEF NeverWild
  <2> QED
    BY <2>1, <2>2 DEF Values
<1>8. /\ count \in [Blocks -> Nat] /\ ret \in Blocks \cup {Empty}
      /\ Counted(count, Holdings(frames), ret) /\ Holdings(r) \in [Blocks -> SUBSET Places]
  BY HoldingsType DEF Sound, ScopesInv, CountsInv
<1>9. Counted(Add(count, v, -1), Holdings(r), ret) /\ (v # Empty => count[v] > 0)
  BY <1>6, <1>7, <1>8, CountMinus
<1> QED
  BY <1>7, <1>9 DEF Valid, InUse

LEMMA PopCounts ==
    ASSUME Sound, ScopesInv', uses' = uses, Pop
    PROVE  CountsInv'
<1>1. PICK v, g : /\ v = Top.slots[Last(Top.entries)]
                  /\ g = [Top EXCEPT !.entries = Front(@), !.counter = @ - 1]
  OBVIOUS
<1>2. Pops(Top, g) <=> Top.entries # <<>>
  BY <1>1 DEF Pops
<1>3. Top.entries # <<>> /\ Valid(v) =>
         /\ count' = Add(count, v, -1) /\ frames' = WithTop(g)
         /\ ctl' = IF ctl.op = "leave" THEN Leave(ctl.left - 1) ELSE ctl
         /\ UNCHANGED <<eflag, ret>>
  BY <1>1 DEF Pop
<1>4. PICK r : r = WithTop(g)
  OBVIOUS
<1>5. TopIs(frames, g, r)
  BY <1>4 DEF TopIs, WithTop
<1>6. ASSUME NEW n, ctl = Leave(n)
      PROVE  CountsInv'
  <2>1. /\ FramesOK({}, frames, n) /\ Top = frames[Len(frames)] /\ FrameOK({}, Top, n)
        /\ NeverWild(Top) /\ ret = Empty /\ ctl.op = "leave"
    BY <1>6, SoundLeave
  <2>2. n \in Nat \ {0}
    <3>1. n \in Nat /\ n > 0
      BY <1>6, SoundLeave, CtlFacts DEF Pop
    <3> QED
      BY <3>1
  <2>3. Top.entries # <<>>
    <3>1. PICK E : Stacked(Top, E, n)
      BY <2>1, <2>2, FrameEntries
    <3>2. PICK m \in Nat : m = Len(Top.blocks) /\ m >= 1
      BY <2>1, FrameFacts
    <3>3. PICK base \in 1 .. m, off \in [1 .. m -> Nat] : Segments(Top, n, base, off)
      BY <3>1, <3>2 DEF Stacked
    <3>4. off[m] + n = Len(Top.entries) /\ off[m] \in Nat
      BY <3>2, <3>3 DEF Segments
    <3> QED
      BY <2>2, <3>4, EmptySeq
  <2>4. FrameOK({}, g, n - 1) /\ g.kind = Top.kind
    BY <1>2, <2>1, <2>2, <2>3, PopOK
  <2>5. Changes(frames, g, r)
    BY <1>4, <2>1, <2>4 DEF Changes, WithTop
  <2>6. FramesOK({}, r, n - 1)
    BY <2>1, <2>4, <2>5, FramesTop
  <2>7. Valid(v) /\ Counted(Add(count, v, -1), Holdings(r), ret)
    BY <1>1, <1>2, <1>5, <2>1, <2>3, <2>6, PoppedCounts
  <2>8. \E k : ctl' = Leave(k)
    BY <1>3, <2>1, <2>3, <2>7
  <2>9. ret' = Empty /\ Counted(count', Holdings(frames'), Empty)
    BY <1>3, <1>4, <2>1, <2>3, <2>7
  <2> QED
    BY <2>8, <2>9, CountsRun
<1>7. CASE ctl = Unwind
  <2>1. /\ FramesOK({}, frames, -1) /\ Top = frames[Len(frames)] /\ FrameOK({}, Top, -1)
        /\ NeverWild(Top) /\ ctl.op = "unwind"
        /\ ret # Empty => Top.kind = "fn" /\ ~eflag
    BY <1>7, SoundUnwind
  <2>2. Top.entries # <<>>
    <3>1. Top.counter # 0 /\ Top.counter = Len(Top.entries)
      BY <2>1, FrameFacts DEF Pop
    <3> QED
      BY <3>1, EmptySeq
  <2>3. FrameOK({}, g, -1) /\ g.kind = Top.kind
    BY <1>2, <2>1, <2>2, PopUnwound
  <2>4. Changes(frames, g, r)
    BY <1>4, <2>1, <2>3 DEF Changes, WithTop
  <2>5. FramesOK({}, r, -1) /\ r[Len(r)] = g
    BY <2>1, <2>3, <2>4, FramesTop
  <2>6. Valid(v) /\ Counted(Add(count, v, -1), Holdings(r), ret)
    BY <1>1, <1>2, <1>5, <2>1, <2>2, <2>5, PoppedCounts
  <2>7. /\ frames' = r /\ count' = Add(count, v, -1) /\ ret' = ret /\ eflag' = eflag
        /\ ctl' = Unwind
    BY <1>3, <1>4, <1>7, <2>1, <2>2, <2>6
  <2>8. NeverWild(g)
    <3>1. g.slots = Top.slots
      BY <1>2, <2>1, <2>2, PopGains
    <3> QED
      BY <2>1, <3>1 DEF NeverWild
  <2>9. ret' # Empty => g.kind = "fn" /\ eflag' = FALSE
    BY <2>1, <2>3, <2>7 DEF Sound, ScopesInv
  <2> QED
    BY <2>5, <2>6, <2>7, <2>8, <2>9, CountsUnwind
<1>8. ctl = Unwind \/ \E n : ctl = Leave(n)
  <2>1. ctl.op \in {"leave", "unwind"}
    BY DEF Pop
  <2> QED
    BY <2>1, CtlFacts DEF Sound, ScopesInv, ProgramOK
<1> QED
  BY <1>6, <1>7, <1>8

LEMMA LeaveBlockCounts ==
    ASSUME Sound, ScopesInv', uses' = uses, LeaveBlock \/ LeaveTry
    PROVE  CountsInv'
<1>1. ctl = Leave(0) /\ frames' = WithTop(Outer(Top)) /\ ctl' = Run /\ UNCHANGED <<count, ret>>
  BY DEF LeaveBlock, LeaveTry, BlockDone
<1>2. FramesOK({}, frames, 0) /\ FrameOK({}, Top, 0) /\ ret = Empty
  BY <1>1, SoundLeave
<1>3. PICK g : g = Outer(Top) /\ SameStack(Top, g)
  BY <1>2, SameStacks
<1> QED
  BY <1>1, <1>2, <1>3, SameCounts

LEMMA LoopBackCounts ==
    ASSUME Sound, ScopesInv', uses' = uses, LoopBack
    PROVE  CountsInv'
<1>1. ctl = Leave(0) /\ ctl' = Run /\ ret' = ret
  BY DEF LoopBack, BlockDone
<1>2. FramesOK({}, frames, 0) /\ FrameOK({}, Top, 0) /\ ret = Empty
  BY <1>1, SoundLeave
<1>3. Innermost(Top).cond = 0
  BY <1>2, LiveFrame, FrameFacts
<1>4. PICK g : g = WithLoop(Top) /\ SameStack(Top, g)
  BY <1>2, SameStacks
<1>5. frames' = WithTop(g) /\ count' = count
  BY <1>3, <1>4 DEF LoopBack, WithLoop
<1> QED
  BY <1>1, <1>2, <1>4, <1>5, SameCounts

LEMMA LeaveHandlerCounts ==
    ASSUME Sound, ScopesInv', uses' = uses, LeaveHandler
    PROVE  CountsInv'
<1>1. ctl = Leave(0) /\ count' = count
  BY DEF LeaveHandler, BlockDone
<1>2. /\ FramesOK({}, frames, 0) /\ Top = frames[Len(frames)] /\ NeverWild(Top)
      /\ Counted(count, Holdings(frames), Empty)
  BY <1>1, SoundLeave
<1>3. CASE Top.handlers # <<>>
  <2>1. HandleErrors(frames, frames[Len(frames)]) /\ 0 \in Nat
    BY <1>2, <1>3 DEF LeaveHandler
  <2> QED
    BY <1>1, <1>2, <2>1, SoundStep, CountsErrors
<1>4. CASE Top.handlers = <<>>
  <2>1. ctl' = Unwind /\ ret' = Empty /\ frames' = frames
    BY <1>4 DEF LeaveHandler
  <2> QED
    BY <1>1, <1>2, <2>1, CountsUnwind
<1> QED
  BY <1>3, <1>4

LEMMA RetCounts ==
    ASSUME Sound, ScopesInv', uses' = uses, Ret
    PROVE  CountsInv'
<1>1. PICK callers : callers = Front(frames)
  OBVIOUS
<1>2. PICK caller : caller = Last(callers) /\ caller = callers[Len(callers)]
  BY DEF Last
<1>3. ctl = Unwind /\ Len(frames) > 1 /\ Top.counter = 0
  BY DEF Ret
<1>4. /\ FramesOK({}, frames, -1) /\ Top = frames[Len(frames)] /\ FrameOK({}, Top, -1)
      /\ ret # Empty => Top.kind = "fn" /\ ~eflag
  BY <1>3, SoundUnwind
<1>5. Top.entries = <<>>
  <2>1. Len(Top.entries) = 0 /\ Top.entries \in Seq(Slots)
    BY <1>3, <1>4, FrameFacts
  <2> QED
    BY <2>1, EmptySeq
<1>6. /\ FramesOK({}, callers, Len(Innermost(callers[Len(callers)]).syms))
      /\ Steady({}, caller) /\ Caller({}, caller, Top)
  BY <1>1, <1>2, <1>3, <1>4, FramesReturn
<1>7. PICK live \in Nat : live = Len(Innermost(caller).syms)
  BY <1>6, FrameFacts DEF Steady
<1>8. FramesOK({}, callers, live)
  BY <1>2, <1>6, <1>7
<1>9. Holdings(callers) = Holdings(frames)
  BY <1>1, <1>3, <1>4, <1>5, ReturnHoldings
<1>10. count' = count
  BY <1>5 DEF Ret
<1>11. /\ Counted(count, Holdings(callers), ret) /\ ret \in Blocks \cup {Empty}
       /\ Holdings(callers) \in [Blocks -> SUBSET Places]
  BY <1>9, SoundStep, HoldingsType
<1>12. CASE eflag
  <2>1. HandleErrors(callers, callers[Len(callers)])
    BY <1>1, <1>2, <1>5, <1>12 DEF Ret
  <2>2. Counted(count', Holdings(callers), Empty)
    BY <1>4, <1>10, <1>11, <1>12
  <2> QED
    BY <1>8, <2>1, <2>2, SoundStep, CountsErrors
<1>13. CASE ~eflag
  <2>1. /\ frames' = IF Top.kind = "fn" THEN [callers EXCEPT ![Len(callers)] = NewRef(caller, ret)]
                                        ELSE callers
        /\ ret' = Empty /\ ctl' = Run
    BY <1>1, <1>2, <1>5, <1>13 DEF Ret
  <2>2. CASE Top.kind = "fn"
    <3>1. Room(callers[Len(callers)])
      BY <1>2, <1>6, <2>2 DEF Caller
    <3>2. ret \in Values
      BY <1>11 DEF Values
    <3>3. TopIs(callers, NewRef(callers[Len(callers)], ret), frames')
      BY <1>2, <2>1, <2>2 DEF TopIs
    <3>4. PICK l : FramesOK({}, frames', l)
      BY SoundStep
    <3>5. PICK q : Plus(Holdings(callers), Holdings(frames'), q, ret)
      BY <1>8, <3>1, <3>2, <3>3, <3>4, NewRefHoldings
    <3>6. Counted(count', Holdings(frames'), Empty)
      BY <1>10, <1>11, <3>5, CountPlaced
    <3> QED
      BY <2>1, <3>6, CountsRun
  <2>3. CASE Top.kind # "fn"
    <3>1. frames' = callers /\ ret = Empty
      BY <1>4, <2>1, <2>3
    <3> QED
      BY <1>10, <1>11, <2>1, <3>1, CountsRun
  <2> QED
    BY <2>2, <2>3
<1> QED
  BY <1>12, <1>13

LEMMA EndProgramCounts ==
    ASSUME Sound, ScopesInv', uses' = uses, EndProgram
    PROVE  CountsInv'
<1>1. /\ ctl = Unwind /\ Top.counter = 0 /\ Len(frames) = 1 /\ ctl' = Ended
      /\ UNCHANGED <<frames, count, eflag, ret>>
  BY DEF EndProgram
<1>2. /\ FramesOK({}, frames, -1) /\ Top = frames[Len(frames)] /\ FrameOK({}, Top, -1)
      /\ ret # Empty => Top.kind = "fn"
  BY <1>1, SoundUnwind
<1>3. Top.entries = <<>>
  <2>1. Len(Top.entries) = 0 /\ Top.entries \in Seq(Slots)
    BY <1>1, <1>2, FrameFacts
  <2> QED
    BY <2>1, EmptySeq
<1>4. ret = Empty
  <2>1. Top.kind = "main"
    BY <1>1, <1>2, FramesFacts
  <2> QED
    BY <1>2, <2>1
<1>5. ctl' # Asserted /\ ctl' # Unwind
  BY <1>1, CtlFacts
<1>6. Top' = Top
  BY <1>1 DEF Top
<1>7. Counted(count, Holdings(frames), ret)
  BY SoundStep
<1> QED
  BY <1>1, <1>3, <1>4, <1>5, <1>6, <1>7 DEF CountsInv

LEMMA MachineCounts ==
    ASSUME Sound, ScopesInv', uses' = uses, Machine
    PROVE  CountsInv'
<1>1. CASE Pop
  BY <1>1, PopCounts
<1>2. CASE LeaveBlock \/ LeaveTry
  BY <1>2, LeaveBlockCounts
<1>3. CASE LoopBack
  BY <1>3, LoopBackCounts
<1>4. CASE LeaveHandler
  BY <1>4, LeaveHandlerCounts
<1>5. CASE Ret
  BY <1>5, RetCounts
<1>6. CASE EndProgram
  BY <1>6, EndProgramCounts
<1> QED
  BY <1>1, <1>2, <1>3, <1>4, <1>5, <1>6 DEF Machine

-----------------------------------------------------------------------------
(* Theorems *)

SoundInv == ScopesInv /\ (uses = {} => CountsInv)

LEMMA InitCounts == Init => SoundInv
<1> SUFFICES ASSUME Init, uses = {} PROVE CountsInv
  BY InitInv DEF SoundInv
<1>1. PICK f : f = NewFrame("main")
  OBVIOUS
<1>2. frames = <<f>> /\ f.entries = <<>> /\ f.slots = [s \in Slots |-> Empty]
  BY <1>1 DEF Init, NewFrame
<1>3. Len(frames) = 1 /\ frames[1] = f /\ DOMAIN frames = {1} /\ Top = f
  BY <1>2 DEF Top
<1>4. \A p, b : ~HeldAt(frames, p, b)
  BY <1>2, <1>3 DEF HeldAt
<1>5. \A b \in Blocks : Holdings(frames)[b] = {}
  BY <1>4 DEF Holdings
<1>6. ret = Empty /\ ctl = Run /\ \A b \in Blocks : count[b] = 0
  BY DEF Init
<1>7. Counted(count, Holdings(frames), ret)
  <2> SUFFICES ASSUME NEW b \in Blocks
               PROVE  count[b] = Cardinality(Holdings(frames)[b]) + (IF ret = b THEN 1 ELSE 0)
    BY DEF Counted
  <2>1. Cardinality(Holdings(frames)[b]) = 0
    BY <1>5, FS_EmptySet
  <2>2. ret # b
    BY <1>6, SlotsLemma
  <2> QED
    BY <1>6, <2>1, <2>2
<1> QED
  BY <1>6, <1>7, CtlFacts DEF CountsInv

LEMMA NextCounts == SoundInv /\ [Next]_vars => SoundInv'
<1> SUFFICES ASSUME SoundInv, [Next]_vars PROVE SoundInv'
  OBVIOUS
<1>1. ScopesInv'
  BY NextInv DEF SoundInv
<1>2. CASE (Statement \/ Machine) /\ UNCHANGED uses
  <2>1. CASE uses = {}
    <3>1. Sound /\ uses' = uses
      BY <1>2, <2>1 DEF Sound, SoundInv
    <3>2. CountsInv'
      BY <1>1, <1>2, <3>1, StatementCounts, MachineCounts
    <3> QED
      BY <1>1, <3>2 DEF SoundInv
  <2>2. CASE uses # {}
    BY <1>1, <1>2, <2>2 DEF SoundInv
  <2> QED
    BY <2>1, <2>2
<1>3. CASE UNCHANGED vars
  <2>1. Top' = Top
    BY <1>3 DEF vars, Top
  <2>2. CountsInv => CountsInv'
    BY <1>3, <2>1 DEF vars, CountsInv
  <2>3. uses' = uses
    BY <1>3 DEF vars
  <2> QED
    BY <1>1, <2>2, <2>3 DEF SoundInv
<1> QED
  BY <1>2, <1>3 DEF Next, Finished

LEMMA OwnersProperty == SoundInv => OwnersCounted
<1> SUFFICES ASSUME SoundInv, uses = {}
             PROVE  CountsMatchOwners /\ NoDangling /\ NoLeak
  BY DEF OwnersCounted
<1>1. ScopesInv /\ CountsInv /\ Sound
  BY DEF SoundInv, Sound
<1>2. \A b \in Blocks : Holdings(frames)[b] = Holders(b)
  BY DEF Holdings, HeldAt, Holders, Places
<1>3. CountsMatchOwners
  BY <1>1, <1>2 DEF CountsMatchOwners, Owners, CountsInv, Counted
<1>4. NoDangling
  BY <1>1, NameValid DEF NoDangling
<1>5. NoLeak
  <2> SUFFICES ASSUME ctl = Ended, NEW b \in Blocks PROVE count[b] = 0
    BY DEF NoLeak
  <2>1. Len(frames) = 1 /\ Top.entries = <<>>
    BY <1>1 DEF CountsInv
  <2>2. PICK live : FramesOK({}, frames, live)
    BY <1>1, AnyFrames DEF Sound
  <2>3. DOMAIN frames = 1 .. 1 /\ frames[1].entries = <<>>
    BY <2>1, <2>2, FramesFacts DEF Top
  <2>4. \A p : ~HeldAt(frames, p, b)
    BY <2>3 DEF HeldAt
  <2>5. Holdings(frames)[b] = {}
    BY <2>4 DEF Holdings
  <2>6. Cardinality(Holdings(frames)[b]) = 0
    BY <2>5, FS_EmptySet
  <2>7. ret # b
    <3>1. ret = Empty
      BY <1>1, CtlFacts DEF CountsInv
    <3> QED
      BY <3>1, SlotsLemma
  <2>8. count[b] = Cardinality(Holdings(frames)[b]) + (IF ret = b THEN 1 ELSE 0)
    BY <1>1 DEF CountsInv, Counted
  <2> QED
    BY <2>6, <2>7, <2>8
<1> QED
  BY <1>3, <1>4, <1>5

\* The counts of a sound program are right in every state.
THEOREM CountsAreKept == Spec => []SoundInv
<1>1. Init => SoundInv
  BY InitCounts
<1>2. SoundInv /\ [Next]_vars => SoundInv'
  BY NextCounts
<1> QED
  BY <1>1, <1>2, PTL DEF Spec

\* In a sound program the count of a block is the number of cleanup entries that
\* will drop it (subtilis_reference_type_push_reference,
\* subtilis_reference_type_pop_and_deref), a variable in scope holds nothing or a
\* block in use, and a program that ends has freed all it allocated: through every
\* mix of calls, results, assignments, errors, handlers and loops.
THEOREM OwnersAreCounted == Spec => []OwnersCounted
<1>1. SoundInv => OwnersCounted
  BY OwnersProperty
<1> QED
  BY <1>1, CountsAreKept, PTL

\* The assertions of prv_deref, prv_ref and prv_ret_gen of frontend/vm.c never fail
\* in a sound program, and in every program the frames stay in range.
THEOREM NoAssertionFails == Spec => []AssertionsHold
<1>1. SoundInv => AssertionsHold
  BY TypeProperty DEF SoundInv, CountsInv, NoAssertion, AssertionsHold
<1> QED
  BY <1>1, CountsAreKept, PTL

-----------------------------------------------------------------------------
(* The steps of an unwinding *)

\* The procedures in progress, but the innermost, that have a handler.
Catchers == {i \in 1 .. Len(frames) - 1 : frames[i].handlers # <<>>}

\* The unwinding comes closer to its end: by a procedure, or by an entry.
Closer ==
    \/ Len(frames') < Len(frames)
    \/ Len(frames') = Len(frames) /\ Top'.counter \in 0 .. Top.counter - 1

(***************************************************************************)
(* Which procedures may handle an error is settled when it leaves its own: *)
(* no step of the unwinding adds or loses one.  Every step takes the       *)
(* unwinding closer to its end, and the first procedure it comes back to   *)
(* that has a handler goes on, with the flag clear; main ends when there   *)
(* is none (subtilis_exp_handle_errors, the code after a call).            *)
(***************************************************************************)
UnwindingStep ==
    ctl = Unwind =>
      \/ ctl' = Unwind /\ Closer /\ eflag' = eflag /\ (eflag => Catchers' = Catchers)
      \/ /\ ctl' = Run /\ Len(frames') = Len(frames) - 1 /\ ~eflag'
         /\ eflag => Len(frames') \in Catchers
      \/ ctl' = Ended /\ (eflag => Catchers = {})
      \/ ctl' = Asserted /\ uses # {}

LEMMA CrashAsserts ==
    ASSUME SoundInv', Crash, uses' = uses
    PROVE  ctl' = Asserted /\ uses # {}
<1>1. ctl' = Asserted
  BY DEF Crash
<1> QED
  BY <1>1 DEF SoundInv, CountsInv

LEMMA PopCounter ==
    ASSUME NEW u, NEW f, NEW live, FrameOK(u, f, live), NEW g, Pops(f, g)
    PROVE  g.counter = f.counter - 1
<1> USE DEF Pops
<1>1. PICK E : Shaped(f, E)
  BY DEF FrameOK
<1>2. Shaped(g, E) /\ Popped(f, g)
  BY <1>1, PopShaped
<1>3. Len(f.entries) \in Nat
  BY <1>1, ShapedFacts, FrameLemma
<1> QED
  BY <1>1, <1>2, <1>3 DEF Shaped, Popped

LEMMA PopCloser ==
    ASSUME SoundInv, SoundInv', Pop, uses' = uses, ctl = Unwind
    PROVE  UnwindingStep
<1>1. PICK v, g : /\ v = Top.slots[Last(Top.entries)]
                  /\ g = [Top EXCEPT !.entries = Front(@), !.counter = @ - 1]
  OBVIOUS
<1>2. CASE ~(Top.entries # <<>> /\ Valid(v))
  BY <1>1, <1>2, CrashAsserts DEF Pop, UnwindingStep
<1>3. CASE Top.entries # <<>> /\ Valid(v)
  <2>1. frames' = WithTop(g) /\ ctl' = Unwind /\ eflag' = eflag
    BY <1>1, <1>3, CtlFacts DEF Pop
  <2>2. /\ FramesOK(uses, frames, -1) /\ Top = frames[Len(frames)]
        /\ FrameOK(uses, Top, -1)
    BY AtUnwind DEF SoundInv
  <2>3. PICK n \in Nat \ {0} : n = Len(frames) /\ DOMAIN frames = 1 .. n
    BY <2>2, FramesFacts
  <2>4. Len(frames') = n /\ frames'[n] = g /\ \A i \in 1 .. n - 1 : frames'[i] = frames[i]
    BY <2>1, <2>2, <2>3 DEF WithTop, FramesOK
  <2>5. PICK c \in Nat : c = Top.counter
    BY <2>2, FrameFacts
  <2>6. c # 0
    BY <2>5, CtlFacts DEF Pop
  <2>7. g.counter = c - 1
    <3>1. Pops(Top, g)
      BY <1>1, <1>3 DEF Pops
    <3> QED
      BY <2>2, <2>5, <3>1, PopCounter
  <2>8. Top' = g
    BY <2>3, <2>4 DEF Top
  <2>9. Closer
    BY <2>3, <2>4, <2>5, <2>6, <2>7, <2>8 DEF Closer
  <2>10. Catchers' = Catchers
    BY <2>3, <2>4 DEF Catchers
  <2> QED
    BY <2>1, <2>9, <2>10 DEF UnwindingStep
<1> QED
  BY <1>2, <1>3

LEMMA RetCloser ==
    ASSUME SoundInv, SoundInv', Ret, uses' = uses
    PROVE  UnwindingStep
<1>1. PICK callers : callers = Front(frames)
  OBVIOUS
<1>2. PICK caller : caller = Last(callers) /\ caller = callers[Len(callers)]
  BY DEF Last
<1>3. ctl = Unwind /\ Len(frames) > 1
  BY DEF Ret
<1>4. FramesOK(uses, frames, -1) /\ eflag \in BOOLEAN
  BY <1>3, AtUnwind DEF SoundInv, ScopesInv
<1>5. PICK n \in Nat \ {0} : n = Len(frames) /\ n > 1
  BY <1>3, <1>4, FramesFacts
<1>6. /\ Len(callers) = n - 1 /\ DOMAIN callers = 1 .. n - 1
      /\ \A i \in 1 .. n - 1 : callers[i] = frames[i]
  BY <1>1, <1>4, <1>5 DEF FramesOK, Front
<1>7. CASE Top.entries # <<>>
  BY <1>7, CrashAsserts DEF Ret, UnwindingStep
<1>8. CASE Top.entries = <<>> /\ eflag
  <2>1. HandleErrors(callers, caller)
    BY <1>1, <1>2, <1>8 DEF Ret
  <2>2. CASE caller.handlers # <<>>
    <3>1. ctl' = Run /\ eflag' = FALSE
      BY <2>1, <2>2 DEF HandleErrors
    <3>2. Len(frames') = n - 1
      BY <1>5, <1>6, <2>1, <2>2 DEF HandleErrors
    <3>3. n - 1 \in Catchers
      BY <1>2, <1>5, <1>6, <2>2 DEF Catchers
    <3> QED
      BY <1>5, <3>1, <3>2, <3>3 DEF UnwindingStep
  <2>3. CASE caller.handlers = <<>>
    <3>1. ctl' = Unwind /\ eflag' = TRUE /\ frames' = callers
      BY <2>1, <2>3 DEF HandleErrors
    <3>2. Closer
      BY <1>5, <1>6, <3>1 DEF Closer
    <3>3. frames[n - 1].handlers = <<>>
      BY <1>2, <1>5, <1>6, <2>3
    <3>4. \A i \in 1 .. n - 2 : callers[i] = frames[i]
      BY <1>5, <1>6
    <3>5. Catchers = {i \in 1 .. n - 2 : frames[i].handlers # <<>>}
      BY <1>5, <3>3 DEF Catchers
    <3>6. Catchers' = {i \in 1 .. n - 2 : callers[i].handlers # <<>>}
      BY <1>5, <1>6, <3>1 DEF Catchers
    <3>7. Catchers' = Catchers
      BY <3>4, <3>5, <3>6
    <3> QED
      BY <1>8, <3>1, <3>2, <3>7 DEF UnwindingStep
  <2> QED
    BY <2>2, <2>3
<1>9. CASE Top.entries = <<>> /\ ~eflag
  <2>1. /\ frames' = IF Top.kind = "fn" THEN [callers EXCEPT ![Len(callers)] = NewRef(caller, ret)]
                                        ELSE callers
        /\ ctl' = Run /\ eflag' = eflag
    BY <1>1, <1>2, <1>9 DEF Ret
  <2>2. Len(frames') = n - 1
    BY <1>5, <1>6, <2>1
  <2> QED
    BY <1>5, <1>9, <2>1, <2>2 DEF UnwindingStep
<1> QED
  BY <1>4, <1>7, <1>8, <1>9

LEMMA UnwindCloser == SoundInv /\ [Next]_vars => [UnwindingStep]_vars
<1> SUFFICES ASSUME SoundInv, Next, ctl = Unwind PROVE UnwindingStep
  BY DEF UnwindingStep
<1>1. SoundInv'
  BY NextCounts
<1>2. ctl # Run /\ ctl.op = "unwind" /\ \A n : ctl # Leave(n)
  BY CtlFacts
<1>3. ctl \notin {Ended, Asserted}
  BY <1>2, CtlFacts
<1>4. (Statement \/ Machine) /\ uses' = uses
  BY <1>3 DEF Next, Finished
<1>5. ~Statement
  <2>1. ~(\/ DeclareEmpty \/ DeclareFails \/ EmptySlice
          \/ EndProc \/ EndMain \/ OnError \/ RaiseError \/ EndBlock)
    BY <1>2 DEF DeclareEmpty, DeclareFails, EmptySlice, EndProc, EndMain, OnError,
       RaiseError, EndBlock
  <2>2. \A b : ~DeclareConst(b) /\ ~EnterWhile(b)
    BY <1>2 DEF DeclareConst, EnterWhile
  <2>3. \A x : ~DeclareCopy(x) /\ ~Return(x) /\ ~AssignEmpty(x) /\ ~AssignFails(x)
    BY <1>2 DEF DeclareCopy, Return, AssignEmpty, AssignFails
  <2>4. \A x, y : ~AssignVar(x, y) /\ ~AssignConst(x, y)
    BY <1>2 DEF AssignVar, AssignConst
  <2>5. \A kind : ~Call(kind) /\ ~EnterBlock(kind) /\ \A x : ~CallWith(kind, x)
    BY <1>2 DEF Call, CallWith, EnterBlock
  <2> QED
    BY <2>1, <2>2, <2>3, <2>4, <2>5, Zenon DEF Statement
<1>6. ~LeaveBlock /\ ~LeaveTry /\ ~LoopBack /\ ~LeaveHandler
  <2>1. ~BlockDone
    BY <1>2 DEF BlockDone
  <2> QED
    BY <2>1, Zenon DEF LeaveBlock, LeaveTry, LoopBack, LeaveHandler
<1>7. CASE Pop
  BY <1>1, <1>4, <1>7, PopCloser
<1>8. CASE Ret
  BY <1>1, <1>4, <1>8, RetCloser
<1>9. CASE EndProgram
  <2>1. ctl' = Ended /\ Len(frames) = 1
    BY <1>9 DEF EndProgram
  <2>2. Catchers = {}
    BY <2>1 DEF Catchers
  <2> QED
    BY <2>1, <2>2 DEF UnwindingStep
<1> QED
  BY <1>4, <1>5, <1>6, <1>7, <1>8, <1>9 DEF Machine

\* In every program, however deep its calls are, an unwinding comes closer to its end
\* with every step, and an error on its way reaches the innermost caller that has a
\* handler; a sound program is not stopped on the way by an assertion
\* (subtilis_exp_handle_errors, subtilis_reference_type_pop_and_deref).
THEOREM ErrorsReachCatchers == Spec => [][UnwindingStep]_vars
<1>1. SoundInv /\ [Next]_vars => [UnwindingStep]_vars
  BY UnwindCloser
<1> QED
  BY <1>1, CountsAreKept, PTL DEF Spec

=============================================================================
