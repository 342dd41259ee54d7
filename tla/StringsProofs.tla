--------------------------- MODULE StringsProofs ---------------------------
(***************************************************************************)
(* Proofs about Strings, for any variables, literals, blocks and bounds:   *)
(* strings are values, and the counts of their blocks are right.           *)
(*                                                                         *)
(* The statements are compositions of a few operations on the memory:      *)
(* dropping and taking a reference, allocating a block, writing to one     *)
(* that has one reference, and growing a string.  The invariant, Good, is  *)
(* parameterised by the slots that own a reference: the operations add one *)
(* to them or take one away.  Each of the lemmas in the second part says   *)
(* what an operation does to the owners and to the texts of the others.    *)
(***************************************************************************)
EXTENDS Strings, ListLemmas, FiniteSetTheorems

Block == [refs : Nat, used : Nat, data : Seq(Nat)]
Reference == [size : Nat, heap : Ptrs \cup {Nowhere}, off : Nat]
Blocks == [Ptrs -> Block]
Refs == [Slots -> Reference]
Memory == [blocks : Blocks, refs : Refs, temps : Nat, pushed : SUBSET Nat, fault : {"none", "assert", "overrun"}]

\* The slots of O that refer to block p.
Own(r, O, p) == {s \in O : r[s].size > 0 /\ r[s].heap = p}

\* The reference covers part of the string of its block; with the REALLOC of the
\* interpreter, which moves whole blocks, all of it.
Fits(b, ref) ==
    /\ ref.heap \in Ptrs
    /\ ref.off + ref.size <= b[ref.heap].used
    /\ HaveAlloc => ref.off = 0 /\ ref.size = b[ref.heap].used /\ ref.size = Len(b[ref.heap].data)

Counted(b, r, O) == \A p \in Ptrs : b[p].refs = Cardinality(Own(r, O, p))

Fit(b, r, O) == \A s \in O : r[s].size > 0 => Fits(b, r[s])

InBlocks(b) == \A p \in Ptrs : b[p].refs > 0 => b[p].used <= Len(b[p].data)

Sound(b, r, O) == Counted(b, r, O) /\ Fit(b, r, O) /\ InBlocks(b)

Good(m, O) == m \in Memory /\ m.fault = "none" /\ O \subseteq Slots /\ Sound(m.blocks, m.refs, O)

-----------------------------------------------------------------------------
(* Counts, as functions of the blocks b and the references r *)

LEMMA SlotsFinite == IsFiniteSet(Slots)
<1>1. IsFiniteSet(Temps)
  BY StringsAssumption, FS_Interval DEF Temps
<1>2. IsFiniteSet(Vars)
  BY StringsAssumption, FS_Subset
<1> QED
  BY <1>1, <1>2, FS_Union DEF Slots

LEMMA OwnFinite ==
    ASSUME NEW r, NEW O \in SUBSET Slots, NEW p
    PROVE  IsFiniteSet(Own(r, O, p)) /\ Cardinality(Own(r, O, p)) \in Nat
<1>1. Own(r, O, p) \in SUBSET Slots
  BY DEF Own
<1> QED
  BY <1>1, SlotsFinite, FS_Subset, FS_CardinalityType

\* The block of an owner is in use, and one that is not has no owner.
LEMMA OwnerLive ==
    ASSUME NEW b \in Blocks, NEW r \in Refs, NEW O \in SUBSET Slots, Sound(b, r, O),
           NEW s \in O, r[s].size > 0
    PROVE  r[s].heap \in Ptrs /\ b[r[s].heap].refs \in Nat \ {0}
<1> DEFINE p == r[s].heap
<1>1. p \in Ptrs
  BY DEF Sound, Fit, Fits
<1>2. s \in Own(r, O, p)
  BY DEF Own
<1>3. Cardinality(Own(r, O, p)) # 0
  BY <1>2, OwnFinite, FS_EmptySet
<1>4. b[p].refs = Cardinality(Own(r, O, p))
  BY <1>1 DEF Sound, Counted
<1> QED
  BY <1>1, <1>3, <1>4, OwnFinite

\* The owner of a block with one reference is its only one.
LEMMA OneOwner ==
    ASSUME NEW b \in Blocks, NEW r \in Refs, NEW O \in SUBSET Slots, Sound(b, r, O),
           NEW s \in O, r[s].size > 0, NEW p, p = r[s].heap, b[p].refs = 1
    PROVE  \A t \in O : r[t].size > 0 /\ r[t].heap = p => t = s
<1>1. p \in Ptrs
  BY DEF Sound, Fit, Fits
<1>2. s \in Own(r, O, p)
  BY DEF Own
<1>3. Cardinality(Own(r, O, p)) = 1
  BY <1>1 DEF Sound, Counted
<1>4. PICK x : Own(r, O, p) = {x}
  BY <1>3, OwnFinite, FS_Singleton
<1> QED
  BY <1>2, <1>4 DEF Own

\* An owner drops its reference.
LEMMA DropSound ==
    ASSUME NEW b \in Blocks, NEW r \in Refs, NEW O \in SUBSET Slots, Sound(b, r, O),
           NEW s \in O, r[s].size > 0,
           NEW d \in Blocks, d = [b EXCEPT ![r[s].heap].refs = b[r[s].heap].refs - 1]
    PROVE  Sound(d, r, O \ {s})
<1> DEFINE p == r[s].heap
<1>1. p \in Ptrs /\ b[p].refs \in Nat \ {0}
  BY OwnerLive
<1>2. /\ \A q \in Ptrs : d[q].used = b[q].used /\ d[q].data = b[q].data
      /\ \A q \in Ptrs : d[q].refs = IF q = p THEN b[q].refs - 1 ELSE b[q].refs
  BY <1>1 DEF Blocks, Block
<1> HIDE DEF p
<1>3. Counted(d, r, O \ {s})
  <2> SUFFICES ASSUME NEW q \in Ptrs
               PROVE  d[q].refs = Cardinality(Own(r, O \ {s}, q))
    BY DEF Counted
  <2>1. b[q].refs = Cardinality(Own(r, O, q))
    BY DEF Sound, Counted
  <2>2. Own(r, O \ {s}, q) = Own(r, O, q) \ {s}
    BY DEF Own
  <2>3. s \in Own(r, O, q) <=> q = p
    BY DEF Own, p
  <2>4. Cardinality(Own(r, O, q) \ {s}) =
          IF s \in Own(r, O, q) THEN Cardinality(Own(r, O, q)) - 1 ELSE Cardinality(Own(r, O, q))
    BY OwnFinite, FS_RemoveElement
  <2> QED
    BY <1>2, <2>1, <2>2, <2>3, <2>4
<1>4. Fit(d, r, O \ {s})
  BY <1>2 DEF Sound, Fit, Fits
<1>5. InBlocks(d)
  <2> SUFFICES ASSUME NEW q \in Ptrs, d[q].refs > 0 PROVE d[q].used <= Len(d[q].data)
    BY DEF InBlocks
  <2>1. b[q].refs > 0
    BY <1>1, <1>2
  <2>2. b[q].used <= Len(b[q].data)
    BY <2>1 DEF Sound, InBlocks
  <2> QED
    BY <1>2, <2>2
<1> QED
  BY <1>3, <1>4, <1>5 DEF Sound

\* A slot gets a reference to a block that is in use.
LEMMA TakeSound ==
    ASSUME NEW b \in Blocks, NEW r \in Refs, NEW O \in SUBSET Slots, Sound(b, r, O),
           NEW s \in Slots \ O, NEW ref \in Reference, ref.size > 0, Fits(b, ref),
           NEW p, p = ref.heap, b[p].refs > 0,
           NEW d \in Blocks, \A q \in Ptrs : d[q].used = b[q].used /\ d[q].data = b[q].data,
           \A q \in Ptrs : d[q].refs = IF q = p THEN b[q].refs + 1 ELSE b[q].refs,
           NEW e \in Refs, e[s] = ref, \A t \in Slots \ {s} : e[t] = r[t]
    PROVE  Sound(d, e, O \cup {s})
<1>1. p \in Ptrs
  BY DEF Fits
<1>2. /\ \A q \in Ptrs : d[q].used = b[q].used /\ d[q].data = b[q].data
      /\ \A q \in Ptrs : d[q].refs = IF q = p THEN b[q].refs + 1 ELSE b[q].refs
  OBVIOUS
<1>3. e[s] = ref /\ \A t \in Slots \ {s} : e[t] = r[t]
  OBVIOUS
<1>4. Counted(d, e, O \cup {s})
  <2> SUFFICES ASSUME NEW q \in Ptrs
               PROVE  d[q].refs = Cardinality(Own(e, O \cup {s}, q))
    BY DEF Counted
  <2>1. b[q].refs = Cardinality(Own(r, O, q))
    BY DEF Sound, Counted
  <2>2. Own(e, O \cup {s}, q) = IF q = p THEN Own(r, O, q) \cup {s} ELSE Own(r, O, q)
    BY <1>3 DEF Own
  <2>3. s \notin Own(r, O, q)
    BY DEF Own
  <2>4. Cardinality(Own(r, O, q) \cup {s}) = Cardinality(Own(r, O, q)) + 1
    BY <2>3, OwnFinite, FS_AddElement
  <2> QED
    BY <1>2, <2>1, <2>2, <2>4
<1>5. Fit(d, e, O \cup {s})
  BY <1>1, <1>2, <1>3 DEF Sound, Fit, Fits
<1>6. InBlocks(d)
  <2> SUFFICES ASSUME NEW q \in Ptrs, d[q].refs > 0 PROVE d[q].used <= Len(d[q].data)
    BY DEF InBlocks
  <2>1. b[q].refs > 0
    BY <1>2
  <2> QED
    BY <1>2, <2>1 DEF Sound, InBlocks
<1> QED
  BY <1>4, <1>5, <1>6 DEF Sound

\* A slot that owns nothing gets an empty reference.
LEMMA EmptySound ==
    ASSUME NEW b \in Blocks, NEW r \in Refs, NEW O \in SUBSET Slots, Sound(b, r, O),
           NEW s \in Slots \ O, NEW e \in Refs, e[s].size = 0, \A t \in Slots \ {s} : e[t] = r[t]
    PROVE  Sound(b, e, O \cup {s}) /\ Sound(b, e, O)
<1>1. \A p \in Ptrs : Own(e, O \cup {s}, p) = Own(r, O, p) /\ Own(e, O, p) = Own(r, O, p)
  BY DEF Own
<1>2. Fit(b, e, O \cup {s}) /\ Fit(b, e, O)
  BY DEF Sound, Fit
<1> QED
  BY <1>1, <1>2 DEF Sound, Counted

\* A slot gets a new block.
LEMMA NewSound ==
    ASSUME NEW b \in Blocks, NEW r \in Refs, NEW O \in SUBSET Slots, Sound(b, r, O),
           NEW s \in Slots \ O, NEW p \in Ptrs, b[p].refs = 0,
           NEW d \in Blocks, d[p].refs = 1, d[p].used <= Len(d[p].data),
           \A q \in Ptrs \ {p} : d[q] = b[q],
           NEW e \in Refs, e[s].size > 0, e[s].heap = p, Fits(d, e[s]),
           \A t \in Slots \ {s} : e[t] = r[t]
    PROVE  Sound(d, e, O \cup {s})
<1>1. \A q \in Ptrs \ {p} : d[q] = b[q]
  OBVIOUS
<1>2. e[s].heap = p /\ e[s].size > 0 /\ \A t \in Slots \ {s} : e[t] = r[t]
  OBVIOUS
<1>3. Own(r, O, p) = {}
  <2>1. Cardinality(Own(r, O, p)) = 0
    BY DEF Sound, Counted
  <2> QED
    BY <2>1, OwnFinite, FS_EmptySet
<1>4. Counted(d, e, O \cup {s})
  <2> SUFFICES ASSUME NEW q \in Ptrs
               PROVE  d[q].refs = Cardinality(Own(e, O \cup {s}, q))
    BY DEF Counted
  <2>1. b[q].refs = Cardinality(Own(r, O, q))
    BY DEF Sound, Counted
  <2>2. Own(e, O \cup {s}, q) = IF q = p THEN {s} ELSE Own(r, O, q)
    BY <1>2, <1>3 DEF Own
  <2>3. Cardinality({s}) = 1
    BY FS_Singleton
  <2> QED
    BY <1>1, <2>1, <2>2, <2>3
<1>5. Fit(d, e, O \cup {s})
  <2> SUFFICES ASSUME NEW t \in O, r[t].size > 0 PROVE Fits(d, r[t])
    BY <1>2 DEF Fit
  <2>1. Fits(b, r[t])
    BY DEF Sound, Fit
  <2>2. r[t].heap # p
    BY <1>3 DEF Own
  <2> QED
    BY <1>1, <2>1, <2>2 DEF Fits
<1>6. InBlocks(d)
  BY <1>1 DEF Sound, InBlocks
<1> QED
  BY <1>4, <1>5, <1>6 DEF Sound

\* Characters of a block change.
LEMMA DataSound ==
    ASSUME NEW b \in Blocks, NEW r \in Refs, NEW O \in SUBSET Slots, Sound(b, r, O),
           NEW d \in Blocks,
           \A q \in Ptrs : d[q].refs = b[q].refs /\ d[q].used = b[q].used /\ Len(d[q].data) = Len(b[q].data)
    PROVE  Sound(d, r, O)
<1>1. Counted(d, r, O)
  BY DEF Sound, Counted
<1>2. Fit(d, r, O)
  BY DEF Sound, Fit, Fits
<1>3. InBlocks(d)
  BY DEF Sound, InBlocks
<1> QED
  BY <1>1, <1>2, <1>3 DEF Sound

\* The string of a block that has one reference is extended where it is.
LEMMA ExtendSound ==
    ASSUME NEW b \in Blocks, NEW r \in Refs, NEW O \in SUBSET Slots, Sound(b, r, O), ~HaveAlloc,
           NEW s \in O, r[s].size > 0, NEW p, p = r[s].heap, b[p].refs = 1,
           NEW more \in Nat, b[p].used + more <= Len(b[p].data),
           NEW d \in Blocks,
           \A q \in Ptrs : d[q].refs = b[q].refs /\ d[q].data = b[q].data,
           \A q \in Ptrs : d[q].used = IF q = p THEN b[q].used + more ELSE b[q].used,
           NEW e \in Refs, e[s].size = r[s].size + more, e[s].heap = p, e[s].off = r[s].off,
           \A t \in Slots \ {s} : e[t] = r[t]
    PROVE  Sound(d, e, O)
<1>0. r[s] \in Reference
  BY DEF Refs
<1>1. p \in Ptrs /\ \A t \in O : r[t].size > 0 /\ r[t].heap = p => t = s
  <2>1. p \in Ptrs
    BY OwnerLive
  <2>2. \A t \in O : r[t].size > 0 /\ r[t].heap = p => t = s
    BY OneOwner
  <2> QED
    BY <2>1, <2>2
<1>4. \A q \in Ptrs : Own(e, O, q) = Own(r, O, q)
  BY <1>0 DEF Own, Reference
<1>5. Counted(d, e, O)
  BY <1>4 DEF Sound, Counted
<1>6. Fit(d, e, O)
  <2> SUFFICES ASSUME NEW t \in O, e[t].size > 0 PROVE Fits(d, e[t])
    BY DEF Fit
  <2>1. CASE t = s
    <3>1. Fits(b, r[s])
      BY DEF Sound, Fit
    <3>2. r[s].off + r[s].size <= b[p].used
      BY <3>1 DEF Fits
    <3>3. b[p].used \in Nat
      BY <1>1 DEF Blocks, Block
    <3>4. e[s].off + e[s].size <= d[p].used
      <4>1. PICK off, size, used : off = r[s].off /\ size = r[s].size /\ used = b[p].used
        OBVIOUS
      <4>2. off \in Nat /\ size \in Nat /\ used \in Nat
        BY <1>0, <3>3, <4>1 DEF Reference
      <4>3. off + size <= used
        BY <3>2, <4>1
      <4>4. e[s].off = off /\ e[s].size = size + more /\ d[p].used = used + more
        BY <1>1, <4>1
      <4>5. off + (size + more) <= used + more
        BY <4>2, <4>3
      <4> QED
        BY <4>4, <4>5
    <3> QED
      BY <1>1, <2>1, <3>4 DEF Fits
  <2>2. CASE t # s
    <3>1. Fits(b, r[t]) /\ r[t].heap # p
      BY <1>1, <2>2 DEF Sound, Fit
    <3> QED
      BY <2>2, <3>1 DEF Fits
  <2> QED
    BY <2>1, <2>2
<1>7. InBlocks(d)
  BY <1>1 DEF Sound, InBlocks
<1> QED
  BY <1>5, <1>6, <1>7 DEF Sound

-----------------------------------------------------------------------------
(* Texts *)

\* The text of a slot.
TextAt(m, s) == Text(m, m.refs[s])

LEMMA FunctionIsSeq ==
    ASSUME NEW k \in Nat, NEW e \in [1 .. k -> Nat]
    PROVE  e \in Seq(Nat) /\ Len(e) = k
OBVIOUS

LEMMA GoodLemma ==
    ASSUME NEW m, NEW O, Good(m, O)
    PROVE  /\ m \in Memory /\ m.blocks \in Blocks /\ m.refs \in Refs /\ O \in SUBSET Slots
           /\ m.fault = "none" /\ Sound(m.blocks, m.refs, O)
           /\ \A p \in Ptrs : /\ m.blocks[p] \in Block
                              /\ m.blocks[p].refs \in Nat /\ m.blocks[p].used \in Nat
                              /\ m.blocks[p].data \in Seq(Nat)
           /\ \A s \in Slots : m.refs[s] \in Reference /\ m.refs[s].size \in Nat /\ m.refs[s].off \in Nat
<1>1. m \in Memory /\ O \in SUBSET Slots /\ m.fault = "none" /\ Sound(m.blocks, m.refs, O)
  BY DEF Good
<1>2. m.blocks \in Blocks /\ m.refs \in Refs
  BY <1>1 DEF Memory
<1> QED
  BY <1>1, <1>2 DEF Blocks, Block, Refs, Reference

\* The block of an owner holds its text.
LEMMA OwnerLemma ==
    ASSUME NEW m, NEW O, Good(m, O), NEW s \in O, m.refs[s].size > 0
    PROVE  /\ m.refs[s].heap \in Ptrs /\ m.blocks[m.refs[s].heap].refs > 0
           /\ m.blocks[m.refs[s].heap].refs \in Nat \ {0}
           /\ Fits(m.blocks, m.refs[s])
           /\ m.blocks[m.refs[s].heap].used <= Len(m.blocks[m.refs[s].heap].data)
           /\ m.refs[s].off + m.refs[s].size <= m.blocks[m.refs[s].heap].used
<1>1. /\ m.blocks \in Blocks /\ m.refs \in Refs /\ O \in SUBSET Slots
      /\ Sound(m.blocks, m.refs, O)
  BY GoodLemma
<1>2. m.refs[s].heap \in Ptrs /\ m.blocks[m.refs[s].heap].refs \in Nat \ {0}
  BY <1>1, OwnerLive
<1>3. Fits(m.blocks, m.refs[s])
  BY <1>1 DEF Sound, Fit
<1>4. m.blocks[m.refs[s].heap].refs > 0
  BY <1>2
<1>5. m.blocks[m.refs[s].heap].used <= Len(m.blocks[m.refs[s].heap].data)
  BY <1>1, <1>2, <1>4 DEF Sound, InBlocks
<1> QED
  BY <1>2, <1>3, <1>4, <1>5 DEF Fits

LEMMA TextLemma ==
    ASSUME NEW m \in Memory, NEW ref \in Reference, ref.size > 0 => ref.heap \in Ptrs
    PROVE  /\ Text(m, ref) \in Seq(Nat) /\ Len(Text(m, ref)) = ref.size
           /\ Text(m, ref) = [i \in 1 .. ref.size |-> Text(m, ref)[i]]
           /\ \A i \in 1 .. ref.size :
                Text(m, ref)[i] = IF ref.off + i \in 1 .. Len(m.blocks[ref.heap].data)
                                    THEN m.blocks[ref.heap].data[ref.off + i] ELSE Junk
<1> DEFINE d == m.blocks[ref.heap].data
           t == Text(m, ref)
<1>1. ref.size \in Nat /\ ref.off \in Nat
  BY DEF Reference
<1>2. t = [i \in 1 .. ref.size |-> IF ref.off + i \in DOMAIN d THEN d[ref.off + i] ELSE Junk]
  BY DEF Text
<1>3. \A i \in 1 .. ref.size : ref.heap \in Ptrs /\ d \in Seq(Nat)
  BY <1>1 DEF Memory, Blocks, Block
<1> HIDE DEF t, d
<1>4. \A i \in 1 .. ref.size : DOMAIN d = 1 .. Len(d) /\ \A j \in 1 .. Len(d) : d[j] \in Nat
  BY <1>3
<1>5. \A i \in 1 .. ref.size : t[i] = IF ref.off + i \in 1 .. Len(d) THEN d[ref.off + i] ELSE Junk
  BY <1>2, <1>4
<1>6. t \in [1 .. ref.size -> Nat]
  <2>1. \A i \in 1 .. ref.size : t[i] \in Nat
    BY <1>4, <1>5 DEF Junk
  <2> QED
    BY <1>2, <2>1
<1>7. t \in Seq(Nat) /\ Len(t) = ref.size
  BY <1>1, <1>6, FunctionIsSeq
<1>8. t = [i \in 1 .. ref.size |-> t[i]]
  BY <1>2
<1> QED
  BY <1>5, <1>7, <1>8 DEF t, d

\* The text of a reference depends on the characters of its block only.
LEMMA TextSame ==
    ASSUME NEW m, NEW n, NEW ref \in Reference,
           ref.size > 0 => n.blocks[ref.heap].data = m.blocks[ref.heap].data
    PROVE  Text(n, ref) = Text(m, ref)
<1>1. \A i \in 1 .. ref.size : n.blocks[ref.heap].data = m.blocks[ref.heap].data
  BY DEF Reference
<1> QED
  BY <1>1 DEF Text

LEMMA TextEmpty ==
    ASSUME NEW m \in Memory, NEW ref \in Reference, ref.size = 0
    PROVE  Text(m, ref) = <<>>
<1>1. Text(m, ref) \in Seq(Nat) /\ Len(Text(m, ref)) = 0
  BY TextLemma
<1> QED
  BY <1>1, EmptySeq

-----------------------------------------------------------------------------
(* Dropping and taking references *)

\* Neither temporaries nor characters change.
Still(m, n) ==
    /\ n.temps = m.temps /\ n.pushed = m.pushed
    /\ \A q \in Ptrs : n.blocks[q].data = m.blocks[q].data

\* What is free stays free.
Frees(m, n) == \A q \in Ptrs : m.blocks[q].refs = 0 => n.blocks[q].refs = 0

Others(m, n, s) == \A t \in Slots \ {s} : n.refs[t] = m.refs[t]

LEMMA CountType ==
    ASSUME NEW b \in Blocks, NEW p \in Ptrs, NEW k \in Nat
    PROVE  [b EXCEPT ![p].refs = k] \in Blocks
<1>1. b[p] \in Block
  BY DEF Blocks
<1>2. [b[p] EXCEPT !.refs = k] \in Block
  BY <1>1 DEF Block
<1> QED
  BY <1>2 DEF Blocks

LEMMA DerefLemma ==
    ASSUME NEW m \in Memory, NEW p \in Ptrs, m.blocks[p].refs \in Nat \ {0}
    PROVE  /\ CallDeref(m, p) \in Memory
           /\ CallDeref(m, p).blocks = [m.blocks EXCEPT ![p].refs = m.blocks[p].refs - 1]
           /\ CallDeref(m, p).refs = m.refs /\ CallDeref(m, p).fault = m.fault
           /\ CallDeref(m, p).temps = m.temps /\ CallDeref(m, p).pushed = m.pushed
           /\ \A q \in Ptrs : /\ CallDeref(m, p).blocks[q].data = m.blocks[q].data
                              /\ CallDeref(m, p).blocks[q].used = m.blocks[q].used
                              /\ CallDeref(m, p).blocks[q].refs =
                                    IF q = p THEN m.blocks[p].refs - 1 ELSE m.blocks[q].refs
<1>1. Live(m, p)
  BY DEF Live
<1>2. CallDeref(m, p) = [m EXCEPT !.blocks = [m.blocks EXCEPT ![p].refs = m.blocks[p].refs - 1]]
  BY <1>1 DEF CallDeref
<1>3. [m.blocks EXCEPT ![p].refs = m.blocks[p].refs - 1] \in Blocks
  <2>1. m.blocks \in Blocks /\ m.blocks[p].refs - 1 \in Nat
    BY DEF Memory
  <2> QED
    BY <2>1, CountType
<1>4. CallDeref(m, p) \in Memory
  BY <1>2, <1>3 DEF Memory
<1>5. CallDeref(m, p).blocks = [m.blocks EXCEPT ![p].refs = m.blocks[p].refs - 1]
  BY <1>2 DEF Memory
<1>6. /\ CallDeref(m, p).refs = m.refs /\ CallDeref(m, p).fault = m.fault
      /\ CallDeref(m, p).temps = m.temps /\ CallDeref(m, p).pushed = m.pushed
  BY <1>2 DEF Memory
<1> QED
  BY <1>4, <1>5, <1>6 DEF Memory, Blocks, Block

\* n is m with one reference less to block h.
Released(m, n, h) ==
    /\ n \in Memory /\ n.refs = m.refs /\ n.fault = m.fault
    /\ n.temps = m.temps /\ n.pushed = m.pushed
    /\ n.blocks = [m.blocks EXCEPT ![h].refs = m.blocks[h].refs - 1]
    /\ \A q \in Ptrs : n.blocks[q].data = m.blocks[q].data /\ n.blocks[q].used = m.blocks[q].used

LEMMA ReleaseLemma ==
    ASSUME NEW m \in Memory, NEW h \in Ptrs, m.blocks[h].refs \in Nat \ {0}
    PROVE  Released(m, CallDeref(m, h), h)
BY DerefLemma DEF Released

LEMMA SameRelease ==
    ASSUME NEW b \in Blocks, NEW e \in Blocks, NEW h \in Ptrs, NEW q \in Ptrs,
           e[h] = b[h], e[q] = b[q]
    PROVE  [e EXCEPT ![h].refs = e[h].refs - 1][q] = [b EXCEPT ![h].refs = b[h].refs - 1][q]
BY DEF Blocks

\* An owner drops its reference.
LEMMA DropLemma ==
    ASSUME NEW m, NEW O, Good(m, O), NEW s \in O
    PROVE  /\ Good(DerefSlot(m, s), O \ {s})
           /\ DerefSlot(m, s).refs = m.refs
           /\ Still(m, DerefSlot(m, s)) /\ Frees(m, DerefSlot(m, s))
<1> DEFINE n == DerefSlot(m, s)
           p == m.refs[s].heap
<1>0. /\ m \in Memory /\ m.blocks \in Blocks /\ m.refs \in Refs /\ O \in SUBSET Slots
      /\ m.fault = "none" /\ Sound(m.blocks, m.refs, O) /\ m.refs[s].size \in Nat
  BY GoodLemma
<1>1. CASE m.refs[s].size = 0
  <2>1. n = m
    BY <1>1 DEF DerefSlot
  <2>2. \A q \in Ptrs : Own(m.refs, O \ {s}, q) = Own(m.refs, O, q)
    BY <1>1 DEF Own
  <2>3. Sound(m.blocks, m.refs, O \ {s})
    BY <1>0, <2>2 DEF Sound, Counted, Fit
  <2> QED
    BY <1>0, <2>1, <2>3 DEF Good, Still, Frees
<1>2. CASE m.refs[s].size > 0
  <2>1. p \in Ptrs /\ m.blocks[p].refs \in Nat \ {0}
    BY <1>2, OwnerLemma
  <2>2. n = CallDeref(m, p)
    BY <1>2 DEF DerefSlot
  <2>3. /\ n \in Memory /\ n.refs = m.refs /\ n.fault = m.fault
        /\ n.temps = m.temps /\ n.pushed = m.pushed
        /\ n.blocks = [m.blocks EXCEPT ![p].refs = m.blocks[p].refs - 1]
        /\ \A q \in Ptrs : n.blocks[q].data = m.blocks[q].data
        /\ \A q \in Ptrs : n.blocks[q].refs = IF q = p THEN m.blocks[p].refs - 1 ELSE m.blocks[q].refs
    <3>1. PICK q : q = p
      OBVIOUS
    <3>2. q \in Ptrs /\ m.blocks[q].refs \in Nat \ {0} /\ n = CallDeref(m, q)
      BY <2>1, <2>2, <3>1
    <3>3. /\ n \in Memory /\ n.refs = m.refs /\ n.fault = m.fault
          /\ n.temps = m.temps /\ n.pushed = m.pushed
          /\ n.blocks = [m.blocks EXCEPT ![q].refs = m.blocks[q].refs - 1]
          /\ \A x \in Ptrs : n.blocks[x].data = m.blocks[x].data
          /\ \A x \in Ptrs : n.blocks[x].refs = IF x = q THEN m.blocks[q].refs - 1 ELSE m.blocks[x].refs
      BY <1>0, <3>2, DerefLemma
    <3> QED
      BY <3>1, <3>3
  <2>4. n.blocks \in Blocks
    BY <2>3 DEF Memory
  <2>5. Sound(n.blocks, m.refs, O \ {s})
    BY <1>0, <1>2, <2>3, <2>4, DropSound
  <2>6. Good(n, O \ {s})
    BY <1>0, <2>3, <2>5 DEF Good
  <2>7. Frees(m, n)
    BY <2>1, <2>3 DEF Frees
  <2> QED
    BY <2>3, <2>6, <2>7 DEF Still
<1> QED
  BY <1>0, <1>1, <1>2

LEMMA RefLemma ==
    ASSUME NEW m \in Memory, NEW p \in Ptrs, m.blocks[p].refs \in Nat \ {0},
           NEW s \in Slots, NEW size \in Nat, NEW off \in Nat
    PROVE  /\ SetRef(CallRef(m, p), s, size, p, off) \in Memory
           /\ \A q \in Ptrs :
                /\ SetRef(CallRef(m, p), s, size, p, off).blocks[q].data = m.blocks[q].data
                /\ SetRef(CallRef(m, p), s, size, p, off).blocks[q].used = m.blocks[q].used
                /\ SetRef(CallRef(m, p), s, size, p, off).blocks[q].refs =
                      IF q = p THEN m.blocks[q].refs + 1 ELSE m.blocks[q].refs
           /\ SetRef(CallRef(m, p), s, size, p, off).refs[s] = [size |-> size, heap |-> p, off |-> off]
           /\ \A t \in Slots \ {s} : SetRef(CallRef(m, p), s, size, p, off).refs[t] = m.refs[t]
           /\ SetRef(CallRef(m, p), s, size, p, off).fault = m.fault
           /\ SetRef(CallRef(m, p), s, size, p, off).temps = m.temps
           /\ SetRef(CallRef(m, p), s, size, p, off).pushed = m.pushed
<1> DEFINE b == [m.blocks EXCEPT ![p].refs = m.blocks[p].refs + 1]
           r == [m.refs EXCEPT ![s] = [size |-> size, heap |-> p, off |-> off]]
           n == SetRef(CallRef(m, p), s, size, p, off)
<1>1. Live(m, p)
  BY DEF Live
<1>2. CallRef(m, p) = [m EXCEPT !.blocks = b]
  BY <1>1 DEF CallRef
<1>3. b \in Blocks
  <2>1. m.blocks \in Blocks /\ m.blocks[p].refs + 1 \in Nat
    BY DEF Memory
  <2> QED
    BY <2>1, CountType
<1>4. r \in Refs
  BY DEF Memory, Refs, Reference
<1> HIDE DEF b
<1>5. CallRef(m, p).refs = m.refs
  BY <1>2 DEF Memory
<1>6. n = [CallRef(m, p) EXCEPT !.refs = r]
  BY <1>5 DEF SetRef
<1> HIDE DEF r
<1>7. n = [[m EXCEPT !.blocks = b] EXCEPT !.refs = r]
  BY <1>2, <1>6
<1> HIDE DEF n
<1>8. n.blocks = b /\ n.refs = r /\ n.fault = m.fault /\ n.temps = m.temps /\ n.pushed = m.pushed
  BY <1>7 DEF Memory
<1>9. n \in Memory
  BY <1>3, <1>4, <1>7 DEF Memory
<1>10. \A q \in Ptrs : /\ b[q].data = m.blocks[q].data /\ b[q].used = m.blocks[q].used
                      /\ b[q].refs = IF q = p THEN m.blocks[q].refs + 1 ELSE m.blocks[q].refs
  BY DEF b, Memory, Blocks, Block
<1>11. r[s] = [size |-> size, heap |-> p, off |-> off] /\ \A t \in Slots \ {s} : r[t] = m.refs[t]
  BY DEF r, Memory, Refs
<1> QED
  BY <1>8, <1>9, <1>10, <1>11 DEF n

\* A slot that owns nothing takes a reference.
LEMMA InitLemma ==
    ASSUME NEW m, NEW O, Good(m, O), NEW s \in Slots \ O, NEW ref \in Reference,
           ref.size > 0 => Fits(m.blocks, ref) /\ m.blocks[ref.heap].refs > 0
    PROVE  /\ Good(InitRef(m, s, ref), O \cup {s})
           /\ Still(m, InitRef(m, s, ref)) /\ Others(m, InitRef(m, s, ref), s)
           /\ InitRef(m, s, ref).refs[s].size = ref.size
           /\ ref.size > 0 => InitRef(m, s, ref).refs[s] = ref
<1>0. /\ m \in Memory /\ m.blocks \in Blocks /\ m.refs \in Refs /\ O \in SUBSET Slots
      /\ m.fault = "none" /\ Sound(m.blocks, m.refs, O) /\ m.refs[s] \in Reference
  BY GoodLemma
<1>1. ref.size \in Nat /\ ref.off \in Nat /\ ref = [size |-> ref.size, heap |-> ref.heap, off |-> ref.off]
  BY DEF Reference
<1>2. PICK n : n = InitRef(m, s, ref)
  OBVIOUS
<1>3. CASE ref.size = 0
  <2>1. n = [m EXCEPT !.refs = [m.refs EXCEPT ![s].size = 0]]
    BY <1>2, <1>3 DEF InitRef
  <2>2. PICK e : e = [m.refs EXCEPT ![s].size = 0]
    OBVIOUS
  <2>3. [m.refs[s] EXCEPT !.size = 0] \in Reference
    BY <1>0 DEF Reference
  <2>4. e \in Refs /\ e[s].size = 0 /\ \A t \in Slots \ {s} : e[t] = m.refs[t]
    BY <1>0, <2>2, <2>3 DEF Refs
  <2>5. /\ n \in Memory /\ n.refs = e /\ n.blocks = m.blocks /\ n.fault = m.fault
        /\ n.temps = m.temps /\ n.pushed = m.pushed
    BY <1>0, <2>1, <2>2, <2>4 DEF Memory
  <2>6. Sound(m.blocks, e, O \cup {s})
    BY <1>0, <2>4, EmptySound
  <2>7. Good(n, O \cup {s})
    BY <1>0, <2>5, <2>6 DEF Good
  <2> QED
    BY <1>2, <1>3, <2>4, <2>5, <2>7 DEF Still, Others
<1>4. CASE ref.size > 0
  <2>1. PICK p : p = ref.heap
    OBVIOUS
  <2>2. p \in Ptrs /\ m.blocks[p].refs \in Nat \ {0}
    BY <1>0, <1>4, <2>1 DEF Fits, Blocks, Block
  <2>3. n = SetRef(CallRef(m, p), s, ref.size, p, ref.off)
    BY <1>1, <1>2, <1>4, <2>1 DEF InitRef
  <2>4. PICK k, off : k = ref.size /\ off = ref.off
    OBVIOUS
  <2>5. k \in Nat /\ off \in Nat /\ s \in Slots /\ n = SetRef(CallRef(m, p), s, k, p, off)
    BY <1>1, <2>3, <2>4
  <2>6. /\ n \in Memory /\ n.fault = m.fault /\ n.temps = m.temps /\ n.pushed = m.pushed
        /\ \A q \in Ptrs : n.blocks[q].used = m.blocks[q].used /\ n.blocks[q].data = m.blocks[q].data
        /\ \A q \in Ptrs : n.blocks[q].refs = IF q = p THEN m.blocks[q].refs + 1 ELSE m.blocks[q].refs
        /\ n.refs[s] = [size |-> k, heap |-> p, off |-> off]
        /\ \A t \in Slots \ {s} : n.refs[t] = m.refs[t]
    BY <1>0, <2>2, <2>5, RefLemma
  <2>7. n.refs[s] = ref
    BY <1>1, <2>1, <2>4, <2>6
  <2>8. n.blocks \in Blocks /\ n.refs \in Refs /\ m.blocks[p].refs > 0
    BY <2>2, <2>6 DEF Memory
  <2>9. Sound(n.blocks, n.refs, O \cup {s})
    <3>1. PICK b, r, d, e : b = m.blocks /\ r = m.refs /\ d = n.blocks /\ e = n.refs
      OBVIOUS
    <3>2. /\ b \in Blocks /\ r \in Refs /\ d \in Blocks /\ e \in Refs /\ Sound(b, r, O)
          /\ Fits(b, ref) /\ p = ref.heap /\ b[p].refs > 0 /\ ref.size > 0
          /\ O \in SUBSET Slots /\ s \in Slots \ O /\ ref \in Reference
      BY <1>0, <1>4, <2>1, <2>8, <3>1
    <3>3. /\ \A q \in Ptrs : d[q].used = b[q].used /\ d[q].data = b[q].data
          /\ \A q \in Ptrs : d[q].refs = IF q = p THEN b[q].refs + 1 ELSE b[q].refs
          /\ e[s] = ref /\ \A t \in Slots \ {s} : e[t] = r[t]
      BY <2>6, <2>7, <3>1
    <3>4. Sound(d, e, O \cup {s})
      BY <3>2, <3>3, TakeSound
    <3> QED
      BY <3>1, <3>4
  <2>10. Good(n, O \cup {s})
    BY <1>0, <2>6, <2>9 DEF Good
  <2> QED
    BY <1>2, <2>6, <2>7, <2>10 DEF Still, Others
<1> QED
  BY <1>1, <1>3, <1>4

\* Where the characters stay, so do the texts.
LEMMA StillTexts ==
    ASSUME NEW m, NEW O, Good(m, O), NEW n, Still(m, n), NEW s \in O, n.refs[s] = m.refs[s]
    PROVE  TextAt(n, s) = TextAt(m, s)
<1>1. m.refs[s] \in Reference
  BY GoodLemma
<1>2. m.refs[s].size > 0 => m.refs[s].heap \in Ptrs
  BY OwnerLemma
<1>3. m.refs[s].size > 0 => n.blocks[m.refs[s].heap].data = m.blocks[m.refs[s].heap].data
  BY <1>2 DEF Still
<1>4. Text(n, m.refs[s]) = Text(m, m.refs[s])
  BY <1>1, <1>3, TextSame
<1> QED
  BY <1>4 DEF TextAt

\* v = w, and v = the temporary w: v has the text of w, everyone else his own.
Assigned(m, n, O, v, w) ==
    /\ Good(n, O) /\ Still(m, n) /\ Others(m, n, v)
    /\ TextAt(n, v) = TextAt(m, w)
    /\ \A t \in O \ {v} : TextAt(n, t) = TextAt(m, t)

LEMMA AssignLemma ==
    ASSUME NEW m, NEW O, Good(m, O), NEW v \in O, NEW w \in O, v # w
    PROVE  Assigned(m, AssignRef(m, v, m.refs[w]), O, v, w)
<1>1. PICK d : d = DerefSlot(m, v)
  OBVIOUS
<1>2. PICK ref : ref = m.refs[w]
  OBVIOUS
<1>3. PICK n : n = AssignRef(m, v, m.refs[w])
  OBVIOUS
<1>4. n = InitRef(d, v, ref)
  BY <1>1, <1>2, <1>3 DEF AssignRef
<1>5. Good(d, O \ {v}) /\ d.refs = m.refs /\ Still(m, d)
  BY <1>1, DropLemma
<1>6. ref \in Reference /\ O \in SUBSET Slots /\ v \in Slots \ (O \ {v}) /\ w \in O \ {v}
  BY <1>2, GoodLemma
<1>7. ref.size > 0 => Fits(d.blocks, ref) /\ d.blocks[ref.heap].refs > 0
  BY <1>2, <1>5, <1>6, OwnerLemma
<1>8. /\ Good(n, (O \ {v}) \cup {v}) /\ Still(d, n) /\ Others(d, n, v)
      /\ n.refs[v].size = ref.size /\ (ref.size > 0 => n.refs[v] = ref)
  BY <1>4, <1>5, <1>6, <1>7, InitLemma
<1>9. (O \ {v}) \cup {v} = O
  OBVIOUS
<1>10. Good(n, O) /\ Still(m, n) /\ Others(m, n, v)
  BY <1>5, <1>8, <1>9 DEF Still, Others
<1>11. \A t \in O \ {v} : TextAt(n, t) = TextAt(m, t)
  BY <1>5, <1>6, <1>8, <1>10, StillTexts DEF Others
<1>12. TextAt(n, v) = TextAt(m, w)
  <2>1. n.refs[v] \in Reference /\ n \in Memory /\ m \in Memory
    BY <1>10, GoodLemma
  <2>2. CASE ref.size = 0
    BY <1>2, <1>6, <1>8, <2>1, <2>2, TextEmpty DEF TextAt
  <2>3. CASE ref.size > 0
    <3>1. ref.heap \in Ptrs
      BY <1>2, <2>3, OwnerLemma
    <3>2. n.blocks[ref.heap].data = m.blocks[ref.heap].data
      BY <1>10, <3>1 DEF Still
    <3>3. Text(n, ref) = Text(m, ref)
      BY <1>6, <3>2, TextSame
    <3> QED
      BY <1>2, <1>8, <2>3, <3>3 DEF TextAt
  <2>4. ref.size \in Nat
    BY <1>6 DEF Reference
  <2> QED
    BY <2>2, <2>3, <2>4
<1> QED
  BY <1>3, <1>10, <1>11, <1>12 DEF Assigned

-----------------------------------------------------------------------------
(* Allocating and writing *)

HasFree(m) == \E p \in Ptrs : m.blocks[p].refs = 0

LEMMA NextBlockLemma ==
    ASSUME NEW m \in Memory, HasFree(m)
    PROVE  NextBlock(m) \in Ptrs /\ m.blocks[NextBlock(m)].refs = 0
<1>1. \A p \in Ptrs : ~Live(m, p) <=> m.blocks[p].refs = 0
  BY DEF Live, Memory, Blocks, Block
<1>2. \E p \in Ptrs : ~Live(m, p)
  BY <1>1 DEF HasFree
<1>3. NextBlock(m) \in Ptrs /\ ~Live(m, NextBlock(m))
  BY <1>2, Zenon DEF NextBlock
<1> QED
  BY <1>1, <1>3

LEMMA CapacityLemma ==
    ASSUME NEW size \in Nat
    PROVE  Capacity(size) \in Nat /\ Capacity(size) >= size /\ (HaveAlloc => Capacity(size) = size)
<1>1. CASE HaveAlloc
  BY <1>1 DEF Capacity
<1>2. CASE ~HaveAlloc
  <2>1. Granule \in Nat \ {0}
    BY StringsAssumption
  <2>2. ((size + Granule) \div Granule) * Granule \in Nat /\ ((size + Granule) \div Granule) * Granule >= size
    BY <2>1
  <2> QED
    BY <1>2, <2>2 DEF Capacity
<1> QED
  BY <1>1, <1>2

\* A new block, and nothing else.
LEMMA RawAllocLemma ==
    ASSUME NEW m \in Memory, HasFree(m), NEW size \in Nat
    PROVE  /\ RawAlloc(m, size) \in Memory
           /\ RawAlloc(m, size).refs = m.refs /\ RawAlloc(m, size).fault = m.fault
           /\ RawAlloc(m, size).temps = m.temps /\ RawAlloc(m, size).pushed = m.pushed
           /\ \A q \in Ptrs \ {NextBlock(m)} : RawAlloc(m, size).blocks[q] = m.blocks[q]
           /\ RawAlloc(m, size).blocks[NextBlock(m)] \in Block
           /\ RawAlloc(m, size).blocks[NextBlock(m)].refs = 1
           /\ RawAlloc(m, size).blocks[NextBlock(m)].used = size
           /\ Len(RawAlloc(m, size).blocks[NextBlock(m)].data) = Capacity(size)
<1>1. PICK p : p = NextBlock(m)
  OBVIOUS
<1>2. p \in Ptrs
  BY <1>1, NextBlockLemma
<1>3. PICK c : c = Capacity(size)
  OBVIOUS
<1>4. c \in Nat
  BY <1>3, CapacityLemma
<1>5. PICK data : data = [i \in 1 .. c |-> Junk]
  OBVIOUS
<1>6. data \in Seq(Nat) /\ Len(data) = c
  BY <1>4, <1>5 DEF Junk
<1>7. PICK new : new = [refs |-> 1, used |-> size, data |-> data]
  OBVIOUS
<1>8. new \in Block /\ new.refs = 1 /\ new.used = size /\ new.data = data
  BY <1>6, <1>7 DEF Block
<1>9. PICK b : b = [m.blocks EXCEPT ![p] = new]
  OBVIOUS
<1>10. b \in Blocks /\ b[p] = new /\ \A q \in Ptrs \ {p} : b[q] = m.blocks[q]
  BY <1>2, <1>8, <1>9 DEF Memory, Blocks
<1>11. PICK n : n = RawAlloc(m, size)
  OBVIOUS
<1>12. n = [m EXCEPT !.blocks = b]
  BY <1>1, <1>3, <1>5, <1>7, <1>9, <1>11 DEF RawAlloc
<1>13. /\ n \in Memory /\ n.blocks = b /\ n.refs = m.refs /\ n.fault = m.fault
       /\ n.temps = m.temps /\ n.pushed = m.pushed
  BY <1>10, <1>12 DEF Memory
<1> QED
  BY <1>1, <1>3, <1>6, <1>8, <1>10, <1>11, <1>13

\* n is m with text at offset off of block p.
Written(m, n, p, off, text) ==
    /\ n \in Memory /\ n.refs = m.refs /\ n.fault = m.fault
    /\ n.temps = m.temps /\ n.pushed = m.pushed
    /\ \A q \in Ptrs \ {p} : n.blocks[q] = m.blocks[q]
    /\ n.blocks[p].refs = m.blocks[p].refs /\ n.blocks[p].used = m.blocks[p].used
    /\ Len(n.blocks[p].data) = Len(m.blocks[p].data)
    /\ \A i \in 1 .. Len(m.blocks[p].data) :
          n.blocks[p].data[i] = IF i - off \in 1 .. Len(text) THEN text[i - off] ELSE m.blocks[p].data[i]

LEMMA MemcpyLemma ==
    ASSUME NEW m \in Memory, NEW p \in Ptrs, NEW off \in Nat, NEW text \in Seq(Nat),
           off + Len(text) <= Len(m.blocks[p].data)
    PROVE  Written(m, Memcpy(m, p, off, text), p, off, text)
<1>1. PICK d : d = m.blocks[p].data
  OBVIOUS
<1>2. d \in Seq(Nat) /\ m.blocks \in Blocks /\ m.blocks[p] \in Block
  BY <1>1 DEF Memory, Blocks, Block
<1>3. PICK k, l : k = Len(d) /\ l = Len(text)
  OBVIOUS
<1>4. k \in Nat /\ l \in Nat /\ off + l <= k /\ DOMAIN d = 1 .. k /\ DOMAIN text = 1 .. l
  BY <1>1, <1>2, <1>3
<1>5. PICK e : e = [i \in 1 .. k |-> IF i - off \in 1 .. l THEN text[i - off] ELSE d[i]]
  OBVIOUS
<1>6. \A i \in 1 .. k : d[i] \in Nat
  BY <1>2, <1>3, ElementOfSeq
<1>7. \A i \in 1 .. l : text[i] \in Nat
  BY <1>3, ElementOfSeq
<1>8. e \in [1 .. k -> Nat]
  BY <1>4, <1>5, <1>6, <1>7
<1>9. e \in Seq(Nat) /\ Len(e) = k
  BY <1>4, <1>8, FunctionIsSeq
<1>10. PICK b : b = [m.blocks EXCEPT ![p] = [m.blocks[p] EXCEPT !.data = e]]
  OBVIOUS
<1>11. PICK new : new = [m.blocks[p] EXCEPT !.data = e]
  OBVIOUS
<1>12. /\ new \in Block /\ new.data = e /\ new.refs = m.blocks[p].refs
       /\ new.used = m.blocks[p].used
  BY <1>2, <1>9, <1>11 DEF Block
<1>13. b \in Blocks /\ b[p] = new /\ \A q \in Ptrs \ {p} : b[q] = m.blocks[q]
  BY <1>2, <1>10, <1>11, <1>12 DEF Blocks
<1>14. PICK n : n = Memcpy(m, p, off, text)
  OBVIOUS
<1>15. n = [m EXCEPT !.blocks = b]
  <2>1. ~(off + Len(text) > Len(m.blocks[p].data))
    BY <1>1, <1>3, <1>4
  <2>2. n = [m EXCEPT !.blocks[p].data =
               [i \in DOMAIN @ |-> IF i - off \in DOMAIN text THEN text[i - off] ELSE @[i]]]
    BY <1>14, <2>1 DEF Memcpy
  <2>3. e = [i \in DOMAIN d |-> IF i - off \in DOMAIN text THEN text[i - off] ELSE d[i]]
    BY <1>4, <1>5
  <2> QED
    BY <1>1, <1>10, <2>2, <2>3
<1>16. /\ n \in Memory /\ n.blocks = b /\ n.refs = m.refs /\ n.fault = m.fault
       /\ n.temps = m.temps /\ n.pushed = m.pushed
  BY <1>13, <1>15 DEF Memory
<1>17. n.blocks[p].data = e /\ n.blocks[p].refs = m.blocks[p].refs /\ n.blocks[p].used = m.blocks[p].used
  BY <1>12, <1>13, <1>16
<1>18. Len(n.blocks[p].data) = Len(m.blocks[p].data)
  BY <1>1, <1>3, <1>9, <1>17
<1>19. \A i \in 1 .. Len(m.blocks[p].data) :
          n.blocks[p].data[i] = IF i - off \in 1 .. Len(text) THEN text[i - off] ELSE m.blocks[p].data[i]
  <2>1. \A i \in 1 .. k : e[i] = IF i - off \in 1 .. l THEN text[i - off] ELSE d[i]
    BY <1>5
  <2> QED
    BY <1>1, <1>3, <1>17, <2>1
<1>20. \A q \in Ptrs \ {p} : n.blocks[q] = m.blocks[q]
  BY <1>13, <1>16
<1> QED
  BY <1>14, <1>16, <1>17, <1>18, <1>19, <1>20 DEF Written

\* n is m with slot s referring to size characters from off on of block p.
Refers(m, n, s, size, p, off) ==
    /\ n \in Memory /\ n.blocks = m.blocks /\ n.fault = m.fault
    /\ n.temps = m.temps /\ n.pushed = m.pushed
    /\ n.refs[s].size = size /\ n.refs[s].heap = p /\ n.refs[s].off = off
    /\ Others(m, n, s)

LEMMA SetRefLemma ==
    ASSUME NEW m \in Memory, NEW s \in Slots, NEW size \in Nat, NEW p \in Ptrs, NEW off \in Nat
    PROVE  Refers(m, SetRef(m, s, size, p, off), s, size, p, off)
<1>1. PICK ref : ref = [size |-> size, heap |-> p, off |-> off]
  OBVIOUS
<1>2. ref \in Reference /\ ref.size = size /\ ref.heap = p /\ ref.off = off
  BY <1>1 DEF Reference
<1>3. PICK r : r = [m.refs EXCEPT ![s] = ref]
  OBVIOUS
<1>4. r \in Refs /\ r[s] = ref /\ \A t \in Slots \ {s} : r[t] = m.refs[t]
  BY <1>2, <1>3 DEF Memory, Refs
<1>5. PICK n : n = SetRef(m, s, size, p, off)
  OBVIOUS
<1>6. n = [m EXCEPT !.refs = r]
  BY <1>1, <1>3, <1>5 DEF SetRef
<1>7. /\ n \in Memory /\ n.blocks = m.blocks /\ n.refs = r /\ n.fault = m.fault
      /\ n.temps = m.temps /\ n.pushed = m.pushed
  BY <1>4, <1>6 DEF Memory
<1> QED
  BY <1>2, <1>4, <1>5, <1>7 DEF Refers, Others

\* Nobody's text changes with a block that was free.
LEMMA ApartText ==
    ASSUME NEW m, NEW O, Good(m, O), NEW n, NEW p, p \in Ptrs => m.blocks[p].refs = 0,
           \A q \in Ptrs \ {p} : n.blocks[q].data = m.blocks[q].data, NEW t \in O
    PROVE  Text(n, m.refs[t]) = Text(m, m.refs[t])
<1>1. m.refs[t] \in Reference
  BY GoodLemma
<1>2. ASSUME m.refs[t].size > 0
      PROVE  n.blocks[m.refs[t].heap].data = m.blocks[m.refs[t].heap].data
  <2>1. m.refs[t].heap \in Ptrs /\ m.blocks[m.refs[t].heap].refs > 0
    BY <1>2, OwnerLemma
  <2> QED
    BY <2>1
<1> QED
  BY <1>1, <1>2, TextSame

\* A slot that owns nothing gets a new block for size characters.
Allocated(m, n, O, s, size) ==
    /\ Good(n, O \cup {s}) /\ n.temps = m.temps /\ n.pushed = m.pushed /\ Others(m, n, s)
    /\ n.refs[s].size = size /\ n.blocks[n.refs[s].heap].refs = 1
    /\ \A t \in O : Text(n, m.refs[t]) = Text(m, m.refs[t])

LEMMA AllocLemma ==
    ASSUME NEW m, NEW O, Good(m, O), NEW s \in Slots \ O, NEW size \in Nat \ {0}, HasFree(m)
    PROVE  Allocated(m, AllocRef(m, s, size), O, s, size)
<1>0. /\ m \in Memory /\ m.blocks \in Blocks /\ m.refs \in Refs /\ O \in SUBSET Slots
      /\ m.fault = "none" /\ Sound(m.blocks, m.refs, O) /\ s \in Slots /\ size \in Nat
  BY GoodLemma
<1>1. PICK p : p = NextBlock(m)
  OBVIOUS
<1>2. p \in Ptrs /\ m.blocks[p].refs = 0
  BY <1>0, <1>1, NextBlockLemma
<1>3. PICK a : a = RawAlloc(m, size)
  OBVIOUS
<1>4. /\ a \in Memory /\ a.refs = m.refs /\ a.fault = m.fault
      /\ a.temps = m.temps /\ a.pushed = m.pushed
      /\ \A q \in Ptrs \ {p} : a.blocks[q] = m.blocks[q]
      /\ a.blocks[p] \in Block /\ a.blocks[p].refs = 1 /\ a.blocks[p].used = size
      /\ Len(a.blocks[p].data) = Capacity(size)
  BY <1>0, <1>1, <1>3, RawAllocLemma
<1>5. PICK n : n = AllocRef(m, s, size)
  OBVIOUS
<1>6. n = SetRef(a, s, size, p, 0)
  BY <1>1, <1>3, <1>5 DEF AllocRef
<1>7. /\ n \in Memory /\ n.blocks = a.blocks /\ n.fault = a.fault
      /\ n.temps = a.temps /\ n.pushed = a.pushed
      /\ n.refs[s].size = size /\ n.refs[s].heap = p /\ n.refs[s].off = 0
      /\ \A t \in Slots \ {s} : n.refs[t] = a.refs[t]
  <2>1. PICK off : off = 0
    OBVIOUS
  <2>2. off \in Nat /\ n = SetRef(a, s, size, p, off)
    BY <1>6, <2>1
  <2>3. Refers(a, n, s, size, p, off)
    BY <1>0, <1>2, <1>4, <2>2, SetRefLemma
  <2> QED
    BY <2>1, <2>3 DEF Refers, Others
<1>8. Capacity(size) \in Nat /\ Capacity(size) >= size /\ (HaveAlloc => Capacity(size) = size)
  BY <1>0, CapacityLemma
<1>9. Fits(n.blocks, n.refs[s])
  BY <1>0, <1>2, <1>4, <1>7, <1>8 DEF Fits
<1>10. Sound(n.blocks, n.refs, O \cup {s})
  <2>1. PICK b, r, d, e : b = m.blocks /\ r = m.refs /\ d = n.blocks /\ e = n.refs
    OBVIOUS
  <2>2. /\ b \in Blocks /\ r \in Refs /\ d \in Blocks /\ e \in Refs /\ Sound(b, r, O)
        /\ b[p].refs = 0 /\ s \in Slots \ O /\ e[s].size > 0 /\ e[s].heap = p /\ Fits(d, e[s])
    BY <1>0, <1>2, <1>7, <1>9, <2>1 DEF Memory
  <2>3. d[p].refs = 1 /\ d[p].used <= Len(d[p].data)
    BY <1>4, <1>7, <1>8, <2>1
  <2>4. (\A q \in Ptrs \ {p} : d[q] = b[q]) /\ \A t \in Slots \ {s} : e[t] = r[t]
    BY <1>4, <1>7, <2>1
  <2>5. Sound(d, e, O \cup {s})
    BY <1>0, <1>2, <2>2, <2>3, <2>4, NewSound
  <2> QED
    BY <2>1, <2>5
<1>11. Good(n, O \cup {s})
  BY <1>0, <1>4, <1>7, <1>10 DEF Good
<1>12. \A t \in O : Text(n, m.refs[t]) = Text(m, m.refs[t])
  <2>1. \A q \in Ptrs \ {p} : n.blocks[q].data = m.blocks[q].data
    BY <1>4, <1>7
  <2> QED
    BY <1>2, <2>1, ApartText
<1> QED
  BY <1>4, <1>5, <1>7, <1>11, <1>12 DEF Allocated, Others

\* Characters are written over part of a text whose block has one reference.
Overwrites(m, n, O, s, at, text) ==
    /\ Good(n, O) /\ n.refs = m.refs /\ n.temps = m.temps /\ n.pushed = m.pushed
    /\ \A q \in Ptrs : n.blocks[q].refs = m.blocks[q].refs
    /\ \A t \in O \ {s} : TextAt(n, t) = TextAt(m, t)
    /\ \A i \in 1 .. m.refs[s].size :
          TextAt(n, s)[i] = IF i - at \in 1 .. Len(text) THEN text[i - at] ELSE TextAt(m, s)[i]

LEMMA WriteLemma ==
    ASSUME NEW m, NEW O, Good(m, O), NEW s \in O, m.refs[s].size > 0,
           m.blocks[m.refs[s].heap].refs = 1,
           NEW at \in Nat, NEW text \in Seq(Nat), at + Len(text) <= m.refs[s].size
    PROVE  Overwrites(m, WriteText(m, s, at, text), O, s, at, text)
<1>0. /\ m \in Memory /\ m.blocks \in Blocks /\ m.refs \in Refs /\ O \in SUBSET Slots
      /\ m.fault = "none" /\ Sound(m.blocks, m.refs, O) /\ m.refs[s] \in Reference
  BY GoodLemma
<1>1. PICK p, off, size, l : p = m.refs[s].heap /\ off = m.refs[s].off /\ size = m.refs[s].size /\ l = Len(text)
  OBVIOUS
<1>2. off \in Nat /\ size \in Nat /\ l \in Nat /\ at + l <= size
  BY <1>0, <1>1 DEF Reference
<1>3. PICK k, used : k = Len(m.blocks[p].data) /\ used = m.blocks[p].used
  OBVIOUS
<1>4. p \in Ptrs /\ off + size <= used /\ used <= k /\ m.blocks[p].refs = 1
  BY <1>1, <1>3, OwnerLemma
<1>5. k \in Nat /\ used \in Nat /\ m.blocks[p].data \in Seq(Nat)
  BY <1>0, <1>3, <1>4 DEF Blocks, Block
<1>6. off + size <= k /\ (off + at) + l <= k
  BY <1>2, <1>4, <1>5
<1>7. PICK n : n = WriteText(m, s, at, text)
  OBVIOUS
<1>8. PICK from : from = off + at
  OBVIOUS
<1>9. from \in Nat /\ n = Memcpy(m, p, from, text)
  BY <1>0, <1>1, <1>2, <1>7, <1>8 DEF WriteText
<1>10. Written(m, n, p, from, text)
  <2>1. from + Len(text) <= Len(m.blocks[p].data)
    BY <1>1, <1>3, <1>6, <1>8
  <2> QED
    BY <1>0, <1>4, <1>9, <2>1, MemcpyLemma
<1>11. /\ \A q \in Ptrs : /\ n.blocks[q].refs = m.blocks[q].refs /\ n.blocks[q].used = m.blocks[q].used
                         /\ Len(n.blocks[q].data) = Len(m.blocks[q].data)
       /\ n.blocks \in Blocks /\ n \in Memory /\ n.refs = m.refs /\ n.fault = m.fault
       /\ n.temps = m.temps /\ n.pushed = m.pushed
  BY <1>10 DEF Written, Memory
<1>12. Sound(n.blocks, m.refs, O)
  <2>1. PICK b, r, d : b = m.blocks /\ r = m.refs /\ d = n.blocks
    OBVIOUS
  <2>2. Sound(d, r, O)
    BY <1>0, <1>11, <2>1, DataSound
  <2> QED
    BY <2>1, <2>2
<1>13. Good(n, O)
  BY <1>0, <1>11, <1>12 DEF Good
<1>14. ASSUME NEW t \in O \ {s} PROVE TextAt(n, t) = TextAt(m, t)
  <2>1. m.refs[t] \in Reference
    BY <1>0 DEF Refs
  <2>2. ASSUME m.refs[t].size > 0
        PROVE  n.blocks[m.refs[t].heap].data = m.blocks[m.refs[t].heap].data
    <3>1. m.refs[t].heap \in Ptrs
      BY <2>2, OwnerLemma
    <3>2. \A x \in O : m.refs[x].size > 0 /\ m.refs[x].heap = p => x = s
      BY <1>0, <1>1, <1>4, OneOwner
    <3>3. m.refs[t].heap # p
      BY <2>2, <3>2
    <3> QED
      BY <1>10, <3>1, <3>3 DEF Written
  <2>3. Text(n, m.refs[t]) = Text(m, m.refs[t])
    BY <2>1, <2>2, TextSame
  <2> QED
    BY <1>11, <2>3 DEF TextAt
<1>15. ASSUME NEW i \in 1 .. size
       PROVE  TextAt(n, s)[i] = IF i - at \in 1 .. l THEN text[i - at] ELSE TextAt(m, s)[i]
  <2>1. PICK ref : ref = m.refs[s]
    OBVIOUS
  <2>2. ref \in Reference /\ ref.heap = p /\ ref.off = off /\ ref.size = size /\ (ref.size > 0 => ref.heap \in Ptrs)
    BY <1>0, <1>1, <1>4, <2>1
  <2>3. /\ Text(m, ref)[i] = IF off + i \in 1 .. k THEN m.blocks[p].data[off + i] ELSE Junk
        /\ Text(n, ref)[i] = IF off + i \in 1 .. Len(n.blocks[p].data) THEN n.blocks[p].data[off + i] ELSE Junk
    BY <1>0, <1>3, <1>11, <2>2, TextLemma
  <2>4. off + i \in 1 .. k /\ Len(n.blocks[p].data) = k
    <3>1. off + i \in 1 .. k
      BY <1>2, <1>5, <1>6
    <3>2. Len(n.blocks[p].data) = k
      BY <1>3, <1>4, <1>11
    <3> QED
      BY <3>1, <3>2
  <2>5. \A j \in 1 .. k : n.blocks[p].data[j] = IF j - from \in 1 .. l THEN text[j - from] ELSE m.blocks[p].data[j]
    BY <1>1, <1>3, <1>10 DEF Written
  <2>6. (off + i) - from = i - at
    BY <1>2, <1>8
  <2>7. n.blocks[p].data[off + i] = IF i - at \in 1 .. l THEN text[i - at] ELSE m.blocks[p].data[off + i]
    BY <2>4, <2>5, <2>6
  <2> QED
    BY <1>11, <2>1, <2>3, <2>4, <2>7 DEF TextAt
<1> QED
  BY <1>1, <1>7, <1>11, <1>13, <1>14, <1>15 DEF Overwrites

-----------------------------------------------------------------------------
(* Growing and copying *)

\* s refers to a block of its own, with its text at the start of the new one; the
\* characters the references of m point at are where they were.
Grown(m, n, O, s, size) ==
    /\ Good(n, O) /\ n.temps = m.temps /\ n.pushed = m.pushed /\ Others(m, n, s)
    /\ n.refs[s].size = size /\ n.blocks[n.refs[s].heap].refs = 1
    /\ \A t \in O : Text(n, m.refs[t]) = Text(m, m.refs[t])
    /\ \A i \in 1 .. m.refs[s].size : TextAt(n, s)[i] = TextAt(m, s)[i]

\* The text of s is copied to the free block p, then its old block is released.
LEMMA MoveLemma ==
    ASSUME NEW m, NEW O, Good(m, O), NEW s \in O, m.refs[s].size > 0,
           NEW h, h = m.refs[s].heap, NEW p \in Ptrs, m.blocks[p].refs = 0,
           NEW size \in Nat, m.refs[s].size <= size,
           NEW c \in Memory, c.refs = m.refs, c.fault = m.fault, c.temps = m.temps,
           c.pushed = m.pushed, \A q \in Ptrs \ {p} : c.blocks[q] = m.blocks[q],
           c.blocks[p].refs = 1, c.blocks[p].used = size, size <= Len(c.blocks[p].data),
           HaveAlloc => Len(c.blocks[p].data) = size,
           \A i \in 1 .. m.refs[s].size : c.blocks[p].data[i] = TextAt(m, s)[i],
           NEW off, off = 0
    PROVE  Grown(m, SetRef(CallDeref(c, h), s, size, p, off), O, s, size)
<1>0. /\ m \in Memory /\ m.blocks \in Blocks /\ m.refs \in Refs /\ O \in SUBSET Slots
      /\ m.fault = "none" /\ Sound(m.blocks, m.refs, O) /\ s \in Slots
      /\ m.refs[s] \in Reference /\ m.refs[s].size \in Nat
  BY GoodLemma
<1>1. h \in Ptrs /\ m.blocks[h].refs \in Nat \ {0} /\ h # p
  BY OwnerLemma
<1>2. PICK d : d = CallDeref(c, h)
  OBVIOUS
<1>3. /\ d \in Memory /\ d.refs = m.refs /\ d.fault = "none" /\ d.temps = m.temps /\ d.pushed = m.pushed
      /\ d.blocks = [c.blocks EXCEPT ![h].refs = c.blocks[h].refs - 1]
      /\ \A q \in Ptrs : d.blocks[q].data = c.blocks[q].data /\ d.blocks[q].used = c.blocks[q].used
  <2>1. c.blocks[h].refs \in Nat \ {0}
    BY <1>1
  <2>2. Released(c, d, h)
    BY <1>1, <1>2, <2>1, ReleaseLemma
  <2> QED
    BY <1>0, <2>2 DEF Released
<1>4. PICK n : n = SetRef(d, s, size, p, off)
  OBVIOUS
<1>5. Refers(d, n, s, size, p, off)
  <2>1. off \in Nat
    OBVIOUS
  <2> QED
    BY <1>0, <1>3, <1>4, <2>1, SetRefLemma
<1>6. /\ n \in Memory /\ n.blocks = d.blocks /\ n.fault = "none" /\ n.temps = m.temps /\ n.pushed = m.pushed
      /\ n.refs[s].size = size /\ n.refs[s].heap = p /\ n.refs[s].off = 0 /\ Others(m, n, s)
  <2>1. /\ n \in Memory /\ n.blocks = d.blocks /\ n.fault = d.fault /\ n.temps = d.temps /\ n.pushed = d.pushed
        /\ n.refs[s].size = size /\ n.refs[s].heap = p /\ n.refs[s].off = off /\ Others(d, n, s)
    BY <1>5 DEF Refers
  <2>2. Others(m, n, s)
    BY <1>3, <2>1 DEF Others
  <2> QED
    BY <1>3, <2>1, <2>2
<1>7. PICK x : x = DerefSlot(m, s)
  OBVIOUS
<1>8. Good(x, O \ {s}) /\ x.refs = m.refs /\ Frees(m, x)
  BY <1>7, DropLemma
<1>9. x.blocks = [m.blocks EXCEPT ![h].refs = m.blocks[h].refs - 1]
  <2>1. x = CallDeref(m, h)
    BY <1>7 DEF DerefSlot
  <2>2. Released(m, x, h)
    BY <1>0, <1>1, <2>1, ReleaseLemma
  <2> QED
    BY <2>2 DEF Released
<1>10. \A q \in Ptrs \ {p} : n.blocks[q] = x.blocks[q]
  <2>1. c.blocks \in Blocks
    BY DEF Memory
  <2>2. c.blocks[h] = m.blocks[h]
    BY <1>1
  <2>3. PICK b, e : b = m.blocks /\ e = c.blocks
    OBVIOUS
  <2>4. /\ b \in Blocks /\ e \in Blocks /\ \A q \in Ptrs \ {p} : e[q] = b[q]
        /\ n.blocks = [e EXCEPT ![h].refs = e[h].refs - 1]
        /\ x.blocks = [b EXCEPT ![h].refs = b[h].refs - 1]
    BY <1>0, <1>3, <1>6, <1>9, <2>1, <2>3
  <2>5. SUFFICES ASSUME NEW q \in Ptrs \ {p} PROVE n.blocks[q] = x.blocks[q]
    OBVIOUS
  <2>6. e[h] = b[h] /\ e[q] = b[q]
    BY <2>2, <2>3, <2>4
  <2>7. [e EXCEPT ![h].refs = e[h].refs - 1][q] = [b EXCEPT ![h].refs = b[h].refs - 1][q]
    BY <1>1, <2>4, <2>6, SameRelease
  <2> QED
    BY <2>4, <2>7
<1>11. /\ n.blocks[p].refs = 1 /\ n.blocks[p].used = size /\ n.blocks[p].data = c.blocks[p].data
  <2>1. d.blocks[p] = c.blocks[p]
    BY <1>1, <1>3 DEF Memory, Blocks
  <2> QED
    BY <1>6, <2>1
<1>12. Fits(n.blocks, n.refs[s])
  BY <1>6, <1>11 DEF Fits
<1>13. Sound(n.blocks, n.refs, O)
  <2>1. PICK b, r, bb, e, Q : b = x.blocks /\ r = x.refs /\ bb = n.blocks /\ e = n.refs /\ Q = O \ {s}
    OBVIOUS
  <2>2. /\ b \in Blocks /\ r \in Refs /\ bb \in Blocks /\ e \in Refs /\ Q \in SUBSET Slots
        /\ Sound(b, r, Q) /\ s \in Slots \ Q /\ b[p].refs = 0
    BY <1>0, <1>6, <1>8, <2>1, GoodLemma DEF Memory, Frees
  <2>3. e[s].size > 0 /\ e[s].heap = p /\ Fits(bb, e[s]) /\ \A t \in Slots \ {s} : e[t] = r[t]
    BY <1>0, <1>6, <1>8, <1>12, <2>1 DEF Others
  <2>4. bb[p].refs = 1 /\ bb[p].used <= Len(bb[p].data) /\ \A q \in Ptrs \ {p} : bb[q] = b[q]
    BY <1>10, <1>11, <2>1
  <2>5. Sound(bb, e, Q \cup {s})
    BY <2>2, <2>3, <2>4, NewSound
  <2>6. Q \cup {s} = O
    BY <2>1
  <2> QED
    BY <2>1, <2>5, <2>6
<1>14. Good(n, O)
  BY <1>0, <1>6, <1>13 DEF Good
<1>15. \A t \in O : Text(n, m.refs[t]) = Text(m, m.refs[t])
  <2>1. \A q \in Ptrs \ {p} : n.blocks[q].data = m.blocks[q].data
    <3>1. \A q \in Ptrs \ {p} : n.blocks[q].data = c.blocks[q].data
      BY <1>3, <1>6
    <3> QED
      BY <3>1
  <2>2. SUFFICES ASSUME NEW t \in O PROVE Text(n, m.refs[t]) = Text(m, m.refs[t])
    OBVIOUS
  <2>3. m.refs[t] \in Reference
    BY GoodLemma
  <2>4. ASSUME m.refs[t].size > 0 PROVE m.refs[t].heap \in Ptrs \ {p}
    BY <2>4, OwnerLemma
  <2>5. m.refs[t].size > 0 => n.blocks[m.refs[t].heap].data = m.blocks[m.refs[t].heap].data
    BY <2>1, <2>4
  <2> QED
    BY <2>3, <2>5, TextSame
<1>16. ASSUME NEW i \in 1 .. m.refs[s].size
       PROVE  TextAt(n, s)[i] = TextAt(m, s)[i]
  <2>1. PICK ref, e : ref = n.refs[s] /\ e = n.blocks[p].data
    OBVIOUS
  <2>2. ref \in Reference /\ ref.size = size /\ ref.heap = p /\ ref.off = 0
    BY <1>0, <1>6, <2>1 DEF Memory, Refs
  <2>3. i \in 1 .. size /\ i \in 1 .. Len(e) /\ e[i] = TextAt(m, s)[i]
    <3>1. i \in 1 .. size
      BY <1>0
    <3>2. Len(e) = Len(c.blocks[p].data) /\ Len(c.blocks[p].data) \in Nat
      BY <1>11, <2>1 DEF Memory, Blocks, Block
    <3> QED
      BY <1>11, <2>1, <3>1, <3>2
  <2>4. Text(n, ref)[i] = IF ref.off + i \in 1 .. Len(e) THEN e[ref.off + i] ELSE Junk
    <3>1. \A j \in 1 .. ref.size :
            Text(n, ref)[j] = IF ref.off + j \in 1 .. Len(n.blocks[ref.heap].data)
                                THEN n.blocks[ref.heap].data[ref.off + j] ELSE Junk
      BY <1>6, <2>2, TextLemma
    <3>2. n.blocks[ref.heap].data = e
      BY <2>1, <2>2
    <3> QED
      BY <2>2, <2>3, <3>1, <3>2
  <2>5. ref.off + i = i
    BY <2>2, <2>3
  <2> QED
    BY <2>1, <2>3, <2>4, <2>5 DEF TextAt
<1> QED
  BY <1>2, <1>4, <1>6, <1>11, <1>14, <1>15, <1>16 DEF Grown

\* A new block of the interpreter is as large as what was asked for.
LEMMA NewBlockLemma ==
    ASSUME NEW m \in Memory, HasFree(m), NEW size \in Nat,
           NEW p, p = NextBlock(m), NEW a, a = RawAlloc(m, size)
    PROVE  /\ p \in Ptrs /\ m.blocks[p].refs = 0
           /\ a \in Memory /\ a.refs = m.refs /\ a.fault = m.fault
           /\ a.temps = m.temps /\ a.pushed = m.pushed
           /\ \A q \in Ptrs \ {p} : a.blocks[q] = m.blocks[q]
           /\ a.blocks[p] \in Block /\ a.blocks[p].refs = 1 /\ a.blocks[p].used = size
           /\ size <= Len(a.blocks[p].data) /\ (HaveAlloc => Len(a.blocks[p].data) = size)
<1>1. p \in Ptrs /\ m.blocks[p].refs = 0
  BY NextBlockLemma
<1>2. Capacity(size) \in Nat /\ Capacity(size) >= size /\ (HaveAlloc => Capacity(size) = size)
  BY CapacityLemma
<1>3. /\ a \in Memory /\ a.refs = m.refs /\ a.fault = m.fault
      /\ a.temps = m.temps /\ a.pushed = m.pushed
      /\ \A q \in Ptrs \ {p} : a.blocks[q] = m.blocks[q]
      /\ a.blocks[p] \in Block /\ a.blocks[p].refs = 1 /\ a.blocks[p].used = size
      /\ Len(a.blocks[p].data) = Capacity(size)
  BY RawAllocLemma
<1> QED
  BY <1>1, <1>2, <1>3

LEMMA ReMallocLemma ==
    ASSUME NEW m, NEW O, Good(m, O), NEW s \in O, m.refs[s].size > 0, HasFree(m),
           NEW size \in Nat, m.refs[s].size <= size
    PROVE  Grown(m, ReMalloc(m, s, size, size), O, s, size)
<1>0. /\ m \in Memory /\ m.refs[s] \in Reference /\ m.refs[s].size \in Nat
  BY GoodLemma
<1>1. PICK p, a, old, off : p = NextBlock(m) /\ a = RawAlloc(m, size) /\ old = m.refs[s] /\ off = 0
  OBVIOUS
<1>2. /\ p \in Ptrs /\ m.blocks[p].refs = 0
      /\ a \in Memory /\ a.refs = m.refs /\ a.fault = m.fault
      /\ a.temps = m.temps /\ a.pushed = m.pushed
      /\ \A q \in Ptrs \ {p} : a.blocks[q] = m.blocks[q]
      /\ a.blocks[p] \in Block /\ a.blocks[p].refs = 1 /\ a.blocks[p].used = size
      /\ size <= Len(a.blocks[p].data) /\ (HaveAlloc => Len(a.blocks[p].data) = size)
  BY <1>0, <1>1, NewBlockLemma
<1>3. PICK text : text = Text(m, old)
  OBVIOUS
<1>4. text \in Seq(Nat) /\ Len(text) = old.size /\ text = TextAt(m, s) /\ old.size \in Nat /\ old.size <= size
  <2>1. old.size > 0 => old.heap \in Ptrs
    BY <1>1, OwnerLemma
  <2>2. old \in Reference
    BY <1>0, <1>1
  <2> QED
    BY <1>0, <1>1, <1>3, <2>1, <2>2, TextLemma DEF TextAt
<1>5. PICK c : c = Memcpy(a, p, off, text)
  OBVIOUS
<1>6. Written(a, c, p, off, text)
  <2>1. off \in Nat /\ off + Len(text) <= Len(a.blocks[p].data)
    <3>1. PICK k, l : k = Len(a.blocks[p].data) /\ l = old.size
      OBVIOUS
    <3>2. k \in Nat /\ l \in Nat /\ l <= size /\ size <= k
      BY <1>2, <1>4, <3>1 DEF Block
    <3>3. off \in Nat /\ off + l <= k
      BY <1>1, <3>2
    <3>4. Len(text) = l
      BY <1>4, <3>1
    <3> QED
      BY <3>1, <3>3, <3>4
  <2> QED
    BY <1>2, <1>4, <1>5, <2>1, MemcpyLemma
<1>7. /\ c \in Memory /\ c.refs = m.refs /\ c.fault = m.fault /\ c.temps = m.temps
      /\ c.pushed = m.pushed /\ c.blocks[p].refs = 1 /\ c.blocks[p].used = size
      /\ size <= Len(c.blocks[p].data) /\ (HaveAlloc => Len(c.blocks[p].data) = size)
  BY <1>2, <1>6 DEF Written
<1>8. \A q \in Ptrs \ {p} : c.blocks[q] = m.blocks[q]
  BY <1>2, <1>6 DEF Written
<1>9. \A i \in 1 .. m.refs[s].size : c.blocks[p].data[i] = TextAt(m, s)[i]
  <2>1. SUFFICES ASSUME NEW i \in 1 .. m.refs[s].size PROVE c.blocks[p].data[i] = text[i]
    BY <1>4
  <2>2. PICK k, l : k = Len(a.blocks[p].data) /\ l = old.size
    OBVIOUS
  <2>3. k \in Nat /\ l \in Nat /\ l <= k /\ i \in 1 .. l /\ Len(text) = l
    <3>1. l = m.refs[s].size /\ l \in Nat /\ l <= size /\ Len(text) = l /\ i \in 1 .. l
      BY <1>0, <1>1, <1>4, <2>2
    <3>2. k \in Nat /\ size <= k
      BY <1>2, <2>2 DEF Block
    <3>3. l <= k
      BY <3>1, <3>2
    <3> QED
      BY <3>1, <3>2, <3>3
  <2>4. i \in 1 .. k /\ i - off = i
    BY <1>1, <2>3
  <2>5. c.blocks[p].data[i] = IF i - off \in 1 .. Len(text) THEN text[i - off] ELSE a.blocks[p].data[i]
    BY <1>6, <2>2, <2>4 DEF Written
  <2> QED
    BY <2>3, <2>4, <2>5
<1>10. ReMalloc(m, s, size, size) = SetRef(CallDeref(c, m.refs[s].heap), s, size, p, off)
  BY <1>1, <1>3, <1>5 DEF ReMalloc
<1>11. Grown(m, SetRef(CallDeref(c, m.refs[s].heap), s, size, p, off), O, s, size)
  BY <1>1, <1>2, <1>7, <1>8, <1>9, MoveLemma
<1> QED
  BY <1>10, <1>11

\* Before a statement writes to a string.
LEMMA CopyOnWriteLemma ==
    ASSUME NEW m, NEW O, Good(m, O), NEW s \in O, m.refs[s].size > 0, HasFree(m)
    PROVE  Grown(m, CopyOnWrite(m, s), O, s, m.refs[s].size)
<1>1. CASE m.blocks[m.refs[s].heap].refs = 1
  BY <1>1 DEF CopyOnWrite, Grown, Others
<1>2. CASE m.blocks[m.refs[s].heap].refs # 1
  <2>1. PICK size : size = m.refs[s].size
    OBVIOUS
  <2>2. size \in Nat /\ m.refs[s].size <= size
    BY <2>1, GoodLemma
  <2>3. Grown(m, ReMalloc(m, s, size, size), O, s, size)
    BY <2>2, ReMallocLemma
  <2> QED
    BY <1>2, <2>1, <2>3 DEF CopyOnWrite
<1> QED
  BY <1>1, <1>2

LEMMA SameCount ==
    ASSUME NEW a \in Memory, NEW p \in Ptrs, NEW k, a.blocks[p].refs = k
    PROVE  [a EXCEPT !.blocks[p].refs = k] = a
<1>1. PICK b, x : b = a.blocks /\ x = a.blocks[p]
  OBVIOUS
<1>2. b \in Blocks /\ x \in Block /\ x.refs = k /\ b[p] = x
  BY <1>1 DEF Memory, Blocks
<1>3. [x EXCEPT !.refs = k] = x
  BY <1>2 DEF Block
<1>4. [b EXCEPT ![p] = x] = b
  BY <1>2 DEF Blocks
<1>5. [a EXCEPT !.blocks = b] = a
  BY <1>1 DEF Memory
<1>6. [a EXCEPT !.blocks[p].refs = k] = [a EXCEPT !.blocks = [b EXCEPT ![p] = [x EXCEPT !.refs = k]]]
  BY <1>1
<1> QED
  BY <1>3, <1>4, <1>5, <1>6

\* The interpreter moves a string that is all of its block.
LEMMA ReallocLemma ==
    ASSUME NEW m, NEW O, Good(m, O), NEW s \in O, m.refs[s].size > 0, HasFree(m), HaveAlloc,
           m.blocks[m.refs[s].heap].refs = 1, NEW size \in Nat, m.refs[s].size <= size
    PROVE  Grown(m, ResizeWithRealloc(m, s, size), O, s, size)
<1>0. /\ m \in Memory /\ m.refs[s] \in Reference /\ m.refs[s].size \in Nat
  BY GoodLemma
<1>1. PICK p, a, old, h, data :
          /\ p = NextBlock(m) /\ a = RawAlloc(m, size) /\ old = m.refs[s]
          /\ h = old.heap /\ data = m.blocks[h].data
  OBVIOUS
<1>2. /\ p \in Ptrs /\ m.blocks[p].refs = 0
      /\ a \in Memory /\ a.refs = m.refs /\ a.fault = m.fault
      /\ a.temps = m.temps /\ a.pushed = m.pushed
      /\ \A q \in Ptrs \ {p} : a.blocks[q] = m.blocks[q]
      /\ a.blocks[p] \in Block /\ a.blocks[p].refs = 1 /\ a.blocks[p].used = size
      /\ size <= Len(a.blocks[p].data) /\ (HaveAlloc => Len(a.blocks[p].data) = size)
  BY <1>0, <1>1, NewBlockLemma
<1>3. /\ h \in Ptrs /\ m.blocks[h].refs = 1 /\ Live(m, h) /\ data \in Seq(Nat)
      /\ old.off = 0 /\ Len(data) = old.size /\ old.size \in Nat /\ old.size <= size
  <2>1. h \in Ptrs /\ m.blocks[h].refs = 1 /\ Fits(m.blocks, old)
    BY <1>1, OwnerLemma
  <2> QED
    BY <1>0, <1>1, <2>1 DEF Fits, Live, Memory, Blocks, Block
<1>4. [a EXCEPT !.blocks[p].refs = m.blocks[h].refs] = a
  BY <1>2, <1>3, SameCount
<1>5. PICK c, off : c = Memcpy(a, p, off, data) /\ off = 0
  OBVIOUS
<1>6. Written(a, c, p, off, data)
  <2>1. off \in Nat /\ off + Len(data) <= Len(a.blocks[p].data)
    <3>1. PICK k, l : k = Len(a.blocks[p].data) /\ l = old.size
      OBVIOUS
    <3>2. k \in Nat /\ l \in Nat /\ l <= size /\ size <= k
      BY <1>2, <1>3, <3>1 DEF Block
    <3>3. off \in Nat /\ off + l <= k
      BY <1>5, <3>2
    <3>4. Len(data) = l
      BY <1>3, <3>1
    <3> QED
      BY <3>1, <3>3, <3>4
  <2> QED
    BY <1>2, <1>3, <1>5, <2>1, MemcpyLemma
<1>7. /\ c \in Memory /\ c.refs = m.refs /\ c.fault = m.fault /\ c.temps = m.temps
      /\ c.pushed = m.pushed /\ c.blocks[p].refs = 1 /\ c.blocks[p].used = size
      /\ size <= Len(c.blocks[p].data) /\ (HaveAlloc => Len(c.blocks[p].data) = size)
  BY <1>2, <1>6 DEF Written
<1>8. \A q \in Ptrs \ {p} : c.blocks[q] = m.blocks[q]
  BY <1>2, <1>6 DEF Written
<1>9. \A i \in 1 .. m.refs[s].size : c.blocks[p].data[i] = TextAt(m, s)[i]
  <2>1. SUFFICES ASSUME NEW i \in 1 .. old.size PROVE c.blocks[p].data[i] = Text(m, old)[i]
    BY <1>1 DEF TextAt
  <2>2. PICK k, l : k = Len(a.blocks[p].data) /\ l = old.size
    OBVIOUS
  <2>3. k \in Nat /\ l \in Nat /\ l <= k /\ i \in 1 .. l /\ Len(data) = l
    BY <1>2, <1>3, <2>2 DEF Block
  <2>4. i \in 1 .. k /\ i - off = i /\ old.off + i = i
    BY <1>3, <1>5, <2>3
  <2>5. c.blocks[p].data[i] = IF i - off \in 1 .. Len(data) THEN data[i - off] ELSE a.blocks[p].data[i]
    BY <1>6, <2>2, <2>4 DEF Written
  <2>6. Text(m, old)[i] = IF old.off + i \in 1 .. Len(m.blocks[old.heap].data)
                            THEN m.blocks[old.heap].data[old.off + i] ELSE Junk
    <3>1. m \in Memory /\ old \in Reference /\ (old.size > 0 => old.heap \in Ptrs)
      BY <1>0, <1>1, <1>3
    <3>2. \A j \in 1 .. old.size :
             Text(m, old)[j] = IF old.off + j \in 1 .. Len(m.blocks[old.heap].data)
                                 THEN m.blocks[old.heap].data[old.off + j] ELSE Junk
      BY <3>1, TextLemma
    <3> QED
      BY <3>2
  <2>7. m.blocks[old.heap].data = data
    BY <1>1
  <2> QED
    BY <2>3, <2>4, <2>5, <2>6, <2>7
<1>10. ResizeWithRealloc(m, s, size) = SetRef(CallDeref(c, m.refs[s].heap), s, size, p, off)
  BY <1>1, <1>3, <1>4, <1>5 DEF ResizeWithRealloc
<1>11. Grown(m, SetRef(CallDeref(c, m.refs[s].heap), s, size, p, off), O, s, size)
  BY <1>2, <1>5, <1>7, <1>8, <1>9, MoveLemma
<1> QED
  BY <1>10, <1>11

\* n is m with more of block p in use.
Adjusted(m, n, p, more) ==
    /\ n \in Memory /\ n.refs = m.refs /\ n.fault = m.fault /\ n.temps = m.temps /\ n.pushed = m.pushed
    /\ \A q \in Ptrs : n.blocks[q].refs = m.blocks[q].refs /\ n.blocks[q].data = m.blocks[q].data
    /\ \A q \in Ptrs : n.blocks[q].used = IF q = p THEN m.blocks[q].used + more ELSE m.blocks[q].used

LEMMA AdjustLemma ==
    ASSUME NEW m \in Memory, NEW p \in Ptrs, NEW more \in Nat
    PROVE  Adjusted(m, BlockAdjust(m, p, more), p, more)
<1>1. PICK b, x : b = m.blocks /\ x = m.blocks[p]
  OBVIOUS
<1>2. b \in Blocks /\ x \in Block /\ b[p] = x
  BY <1>1 DEF Memory, Blocks
<1>3. PICK y : y = [x EXCEPT !.used = x.used + more]
  OBVIOUS
<1>4. y \in Block /\ y.used = x.used + more /\ y.refs = x.refs /\ y.data = x.data
  <2>1. x.used + more \in Nat
    BY <1>2 DEF Block
  <2> QED
    BY <1>2, <1>3, <2>1 DEF Block
<1>5. PICK e : e = [b EXCEPT ![p] = y]
  OBVIOUS
<1>6. e \in Blocks /\ e[p] = y /\ \A q \in Ptrs \ {p} : e[q] = b[q]
  BY <1>2, <1>4, <1>5 DEF Blocks
<1>7. PICK n : n = BlockAdjust(m, p, more)
  OBVIOUS
<1>8. n = [m EXCEPT !.blocks = e]
  BY <1>1, <1>3, <1>5, <1>7 DEF BlockAdjust
<1>9. /\ n \in Memory /\ n.blocks = e /\ n.refs = m.refs /\ n.fault = m.fault
      /\ n.temps = m.temps /\ n.pushed = m.pushed
  BY <1>6, <1>8 DEF Memory
<1>10. \A q \in Ptrs : /\ n.blocks[q].refs = m.blocks[q].refs /\ n.blocks[q].data = m.blocks[q].data
                       /\ n.blocks[q].used = IF q = p THEN m.blocks[q].used + more ELSE m.blocks[q].used
  BY <1>1, <1>2, <1>4, <1>6, <1>9
<1> QED
  BY <1>7, <1>9, <1>10 DEF Adjusted

\* A string uses the free space of its block.
LEMMA ExtendLemma ==
    ASSUME NEW m, NEW O, Good(m, O), NEW s \in O, m.refs[s].size > 0, ~HaveAlloc,
           m.blocks[m.refs[s].heap].refs = 1, NEW size \in Nat, m.refs[s].size <= size,
           size <= m.refs[s].size + BlockFree(m, m.refs[s].heap)
    PROVE  Grown(m, SetRef(BlockAdjust(m, m.refs[s].heap, size - m.refs[s].size),
                           s, size, m.refs[s].heap, m.refs[s].off), O, s, size)
<1>0. /\ m \in Memory /\ m.blocks \in Blocks /\ m.refs \in Refs /\ O \in SUBSET Slots
      /\ m.fault = "none" /\ Sound(m.blocks, m.refs, O) /\ s \in Slots /\ m.refs[s] \in Reference
  BY GoodLemma
<1>1. PICK old, p, off, more, used, k, first :
          /\ old = m.refs[s] /\ p = m.refs[s].heap /\ off = m.refs[s].off
          /\ more = size - m.refs[s].size /\ used = m.blocks[m.refs[s].heap].used
          /\ k = Len(m.blocks[m.refs[s].heap].data) /\ first = m.refs[s].size
  OBVIOUS
<1>2. p \in Ptrs /\ m.blocks[p].refs = 1
  <2>1. m.refs[s].heap \in Ptrs
    BY OwnerLemma
  <2> QED
    BY <1>1, <2>1
<1>3. off \in Nat /\ first \in Nat /\ more \in Nat /\ size = first + more /\ used \in Nat /\ k \in Nat
  <2>1. off \in Nat /\ first \in Nat
    BY <1>0, <1>1 DEF Reference
  <2>2. m.blocks[p] \in Block
    BY <1>0, <1>2 DEF Blocks
  <2>3. used \in Nat /\ k \in Nat
    BY <1>1, <2>2 DEF Block
  <2>4. first <= size /\ more = size - first
    BY <1>1
  <2>5. more \in Nat /\ size = first + more
    BY <2>1, <2>4
  <2> QED
    BY <2>1, <2>3, <2>5
<1>4. used + more <= k
  <2>1. size <= first + (k - used)
    BY <1>1 DEF BlockFree
  <2> QED
    BY <1>3, <2>1
<1>5. PICK a : a = BlockAdjust(m, p, more)
  OBVIOUS
<1>6. /\ a \in Memory /\ a.refs = m.refs /\ a.fault = m.fault /\ a.temps = m.temps /\ a.pushed = m.pushed
      /\ \A q \in Ptrs : a.blocks[q].refs = m.blocks[q].refs /\ a.blocks[q].data = m.blocks[q].data
      /\ \A q \in Ptrs : a.blocks[q].used = IF q = p THEN m.blocks[q].used + more ELSE m.blocks[q].used
  <2>1. Adjusted(m, a, p, more)
    BY <1>0, <1>2, <1>3, <1>5, AdjustLemma
  <2> QED
    BY <2>1 DEF Adjusted
<1>7. PICK n : n = SetRef(a, s, size, p, off)
  OBVIOUS
<1>8. Refers(a, n, s, size, p, off)
  BY <1>0, <1>2, <1>3, <1>6, <1>7, SetRefLemma
<1>9. /\ n \in Memory /\ n.blocks = a.blocks /\ n.fault = "none" /\ n.temps = m.temps /\ n.pushed = m.pushed
      /\ n.refs[s].size = size /\ n.refs[s].heap = p /\ n.refs[s].off = off /\ Others(m, n, s)
  BY <1>0, <1>6, <1>8 DEF Refers, Others
<1>10. Sound(n.blocks, n.refs, O)
  <2>1. PICK b, r, d, e : b = m.blocks /\ r = m.refs /\ d = n.blocks /\ e = n.refs
    OBVIOUS
  <2>2. /\ b \in Blocks /\ r \in Refs /\ d \in Blocks /\ e \in Refs /\ Sound(b, r, O)
        /\ r[s].size > 0 /\ p = r[s].heap /\ b[p].refs = 1 /\ b[p].used + more <= Len(b[p].data)
    BY <1>0, <1>1, <1>2, <1>4, <1>9, <2>1 DEF Memory
  <2>3. /\ \A q \in Ptrs : d[q].refs = b[q].refs /\ d[q].data = b[q].data
        /\ \A q \in Ptrs : d[q].used = IF q = p THEN b[q].used + more ELSE b[q].used
    BY <1>6, <1>9, <2>1
  <2>4. e[s].size = r[s].size + more /\ e[s].heap = p /\ e[s].off = r[s].off
    BY <1>1, <1>3, <1>9, <2>1
  <2>5. \A t \in Slots \ {s} : e[t] = r[t]
    BY <1>9, <2>1 DEF Others
  <2>6. Sound(d, e, O)
    BY <1>0, <1>3, <2>2, <2>3, <2>4, <2>5, ExtendSound
  <2> QED
    BY <2>1, <2>6
<1>11. Good(n, O)
  BY <1>0, <1>9, <1>10 DEF Good
<1>12. ASSUME NEW t \in O PROVE Text(n, m.refs[t]) = Text(m, m.refs[t])
  <2>1. m.refs[t] \in Reference
    BY GoodLemma
  <2>2. m.refs[t].size > 0 => m.refs[t].heap \in Ptrs
    BY OwnerLemma
  <2>3. m.refs[t].size > 0 => n.blocks[m.refs[t].heap].data = m.blocks[m.refs[t].heap].data
    BY <1>6, <1>9, <2>2
  <2> QED
    BY <2>1, <2>3, TextSame
<1>13. ASSUME NEW i \in 1 .. first PROVE TextAt(n, s)[i] = TextAt(m, s)[i]
  <2>1. PICK ref, data : ref = n.refs[s] /\ data = m.blocks[p].data
    OBVIOUS
  <2>2. ref \in Reference /\ ref.size = size /\ ref.heap = p /\ ref.off = off
    BY <1>0, <1>9, <2>1 DEF Memory, Refs
  <2>3. i \in 1 .. size
    BY <1>3
  <2>4. Text(n, ref)[i] = IF off + i \in 1 .. Len(data) THEN data[off + i] ELSE Junk
    <3>1. Text(n, ref)[i] = IF ref.off + i \in 1 .. Len(n.blocks[ref.heap].data)
                              THEN n.blocks[ref.heap].data[ref.off + i] ELSE Junk
      BY <1>2, <1>9, <2>2, <2>3, TextLemma
    <3>2. n.blocks[ref.heap].data = data
      BY <1>2, <1>6, <1>9, <2>1, <2>2
    <3> QED
      BY <2>2, <3>1, <3>2
  <2>5. Text(m, old)[i] = IF off + i \in 1 .. Len(data) THEN data[off + i] ELSE Junk
    <3>1. Text(m, old)[i] = IF old.off + i \in 1 .. Len(m.blocks[old.heap].data)
                              THEN m.blocks[old.heap].data[old.off + i] ELSE Junk
      BY <1>0, <1>1, <1>2, TextLemma
    <3> QED
      BY <1>1, <2>1, <3>1
  <2> QED
    BY <1>1, <2>1, <2>4, <2>5 DEF TextAt
<1>14. n = SetRef(BlockAdjust(m, m.refs[s].heap, size - m.refs[s].size),
                  s, size, m.refs[s].heap, m.refs[s].off)
  BY <1>1, <1>5, <1>7
<1>15. Grown(m, n, O, s, size)
  BY <1>1, <1>2, <1>6, <1>9, <1>11, <1>12, <1>13 DEF Grown
<1> QED
  BY <1>14, <1>15

LEMMA ResizeLemma ==
    ASSUME NEW m, NEW O, Good(m, O), NEW s \in O, m.refs[s].size > 0, HasFree(m),
           m.blocks[m.refs[s].heap].refs = 1, NEW size \in Nat, m.refs[s].size <= size
    PROVE  Grown(m, Resize(m, s, size, size), O, s, size)
<1>1. CASE HaveAlloc
  BY <1>1, ReallocLemma DEF Resize
<1>2. CASE ~HaveAlloc
  <2>1. Live(m, m.refs[s].heap)
    BY OwnerLemma DEF Live
  <2>2. CASE size > m.refs[s].size + BlockFree(m, m.refs[s].heap)
    <3>1. Resize(m, s, size, size) = ReMalloc(m, s, size, size)
      BY <1>2, <2>1, <2>2 DEF Resize, ResizeWithMalloc
    <3> QED
      BY <3>1, ReMallocLemma
  <2>3. CASE ~(size > m.refs[s].size + BlockFree(m, m.refs[s].heap))
    <3>1. Resize(m, s, size, size) =
            SetRef(BlockAdjust(m, m.refs[s].heap, size - m.refs[s].size),
                   s, size, m.refs[s].heap, m.refs[s].off)
      BY <1>2, <2>1, <2>3 DEF Resize, ResizeWithMalloc
    <3>2. size <= m.refs[s].size + BlockFree(m, m.refs[s].heap)
      <4>1. PICK k, u, z, h : /\ h = m.refs[s].heap /\ k = Len(m.blocks[h].data)
                              /\ u = m.blocks[h].used /\ z = m.refs[s].size
        OBVIOUS
      <4>2. k \in Nat /\ u \in Nat /\ z \in Nat
        <5>1. h \in Ptrs
          BY <4>1, OwnerLemma
        <5>2. m.blocks[h].data \in Seq(Nat) /\ m.blocks[h].used \in Nat
          BY <5>1, GoodLemma
        <5>3. m.refs[s].size \in Nat
          BY GoodLemma
        <5>4. Len(m.blocks[h].data) \in Nat
          BY <5>2, LenProperties
        <5> QED
          BY <4>1, <5>2, <5>3, <5>4
      <4>3. ~(size > z + (k - u))
        BY <2>3, <4>1 DEF BlockFree
      <4>4. size <= z + (k - u)
        BY <4>2, <4>3
      <4> QED
        BY <4>1, <4>4 DEF BlockFree
    <3> QED
      BY <1>2, <3>1, <3>2, ExtendLemma
  <2> QED
    BY <2>2, <2>3
<1> QED
  BY <1>1, <1>2

\* What += does to the variable before it appends.
LEMMA GrowLemma ==
    ASSUME NEW m, NEW O, Good(m, O), NEW s \in O, HasFree(m), NEW more \in Nat,
           m.refs[s].size + more > 0
    PROVE  Grown(m, Grow(m, s, more, more), O, s, m.refs[s].size + more)
<1>0. /\ m \in Memory /\ O \in SUBSET Slots /\ m.refs[s] \in Reference /\ m.refs[s].size \in Nat /\ s \in Slots
  BY GoodLemma
<1>1. CASE m.refs[s].size = 0
  <2>1. PICK n : n = AllocRef(m, s, more)
    OBVIOUS
  <2>2. Grow(m, s, more, more) = n
    BY <1>0, <1>1, <2>1 DEF Grow, AllocRef
  <2>3. Good(m, O \ {s})
    <3>1. DerefSlot(m, s) = m
      BY <1>1 DEF DerefSlot
    <3>2. Good(DerefSlot(m, s), O \ {s})
      BY DropLemma
    <3> QED
      BY <3>1, <3>2
  <2>4. /\ Good(n, (O \ {s}) \cup {s}) /\ n.temps = m.temps /\ n.pushed = m.pushed
        /\ Others(m, n, s) /\ n.refs[s].size = more /\ n.blocks[n.refs[s].heap].refs = 1
        /\ \A t \in O \ {s} : Text(n, m.refs[t]) = Text(m, m.refs[t])
    <3>1. PICK Q : Q = O \ {s}
      OBVIOUS
    <3>2. Good(m, Q) /\ s \in Slots \ Q /\ more \in Nat \ {0}
      BY <1>0, <1>1, <2>3, <3>1
    <3>3. Allocated(m, n, Q, s, more)
      BY <2>1, <3>2, AllocLemma
    <3> QED
      BY <3>1, <3>3 DEF Allocated
  <2>5. (O \ {s}) \cup {s} = O
    OBVIOUS
  <2>6. Text(n, m.refs[s]) = Text(m, m.refs[s])
    BY <1>0, <1>1, TextSame
  <2>7. m.refs[s].size + more = more /\ \A i \in 1 .. m.refs[s].size : FALSE
    BY <1>1
  <2> QED
    BY <2>2, <2>4, <2>5, <2>6, <2>7 DEF Grown
<1>2. CASE m.refs[s].size > 0
  <2>1. PICK size : size = m.refs[s].size + more
    OBVIOUS
  <2>2. size \in Nat /\ m.refs[s].size <= size
    BY <1>0, <2>1
  <2>3. CASE m.blocks[m.refs[s].heap].refs = 1
    <3>1. Grow(m, s, more, more) = Resize(m, s, size, size)
      BY <1>2, <2>1, <2>3 DEF Grow
    <3>2. Grown(m, Resize(m, s, size, size), O, s, size)
      BY <1>2, <2>2, <2>3, ResizeLemma
    <3> QED
      BY <2>1, <3>1, <3>2
  <2>4. CASE m.blocks[m.refs[s].heap].refs # 1
    <3>1. Grow(m, s, more, more) = ReMalloc(m, s, size, size)
      BY <1>2, <2>1, <2>4 DEF Grow
    <3>2. Grown(m, ReMalloc(m, s, size, size), O, s, size)
      BY <1>2, <2>2, ReMallocLemma
    <3> QED
      BY <2>1, <3>1, <3>2
  <2> QED
    BY <2>3, <2>4
<1> QED
  BY <1>0, <1>1, <1>2

-----------------------------------------------------------------------------
(* The end of a statement *)

LEMMA ScrubBlock ==
    ASSUME NEW x \in Block, NEW covered,
           NEW y, y = [x EXCEPT !.data = [i \in DOMAIN x.data |-> IF i \in covered THEN x.data[i] ELSE Junk]]
    PROVE  /\ y \in Block /\ y.refs = x.refs /\ y.used = x.used /\ Len(y.data) = Len(x.data)
           /\ \A i \in 1 .. Len(x.data) : i \in covered => y.data[i] = x.data[i]
<1>1. PICK d, k : d = x.data /\ k = Len(x.data)
  OBVIOUS
<1>2. d \in Seq(Nat) /\ k \in Nat /\ DOMAIN d = 1 .. k /\ \A i \in 1 .. k : d[i] \in Nat
  BY <1>1 DEF Block
<1>3. PICK e : e = [i \in 1 .. k |-> IF i \in covered THEN d[i] ELSE Junk]
  OBVIOUS
<1>5. e \in Seq(Nat) /\ Len(e) = k
  <2>1. e \in [1 .. k -> Nat]
    BY <1>2, <1>3 DEF Junk
  <2>2. k \in Nat
    BY <1>2
  <2> QED
    BY <2>1, <2>2, FunctionIsSeq
<1>6. y = [x EXCEPT !.data = e]
  BY <1>1, <1>2, <1>3
<1>7. y \in Block /\ y.refs = x.refs /\ y.used = x.used /\ y.data = e
  BY <1>5, <1>6 DEF Block
<1>8. \A i \in 1 .. k : i \in covered => e[i] = d[i]
  BY <1>3
<1> QED
  BY <1>1, <1>5, <1>7, <1>8

\* What the references cover, and who holds them, is not scrubbed.
ScrubKeeps(m, n) ==
    /\ n \in Memory /\ n.fault = m.fault /\ n.temps = m.temps /\ n.pushed = m.pushed
    /\ \A p \in Ptrs : n.blocks[p].refs = m.blocks[p].refs
    /\ \A p \in Ptrs : m.blocks[p].refs > 0 =>
          /\ n.blocks[p].used = m.blocks[p].used
          /\ Len(n.blocks[p].data) = Len(m.blocks[p].data)
          /\ \A i \in 1 .. Len(m.blocks[p].data) :
                i \in Covered(m, p) => n.blocks[p].data[i] = m.blocks[p].data[i]
    /\ \A s \in Slots : n.refs[s] = IF m.refs[s].size = 0 THEN Empty ELSE m.refs[s]

LEMMA ScrubbedLemma ==
    ASSUME NEW m \in Memory
    PROVE  ScrubKeeps(m, Scrubbed(m))
<1>1. PICK b, r : b = m.blocks /\ r = m.refs
  OBVIOUS
<1>2. b \in Blocks /\ r \in Refs
  BY <1>1 DEF Memory
<1> DEFINE Y(p) == [b[p] EXCEPT !.data = [i \in DOMAIN b[p].data |-> IF i \in Covered(m, p) THEN b[p].data[i] ELSE Junk]]
<1>3. \A p \in Ptrs : /\ Y(p) \in Block /\ Y(p).refs = b[p].refs /\ Y(p).used = b[p].used
                      /\ Len(Y(p).data) = Len(b[p].data)
                      /\ \A i \in 1 .. Len(b[p].data) : i \in Covered(m, p) => Y(p).data[i] = b[p].data[i]
  <2> SUFFICES ASSUME NEW p \in Ptrs
               PROVE  /\ Y(p) \in Block /\ Y(p).refs = b[p].refs /\ Y(p).used = b[p].used
                      /\ Len(Y(p).data) = Len(b[p].data)
                      /\ \A i \in 1 .. Len(b[p].data) : i \in Covered(m, p) => Y(p).data[i] = b[p].data[i]
    OBVIOUS
  <2>1. PICK x, y, covered : x = b[p] /\ y = Y(p) /\ covered = Covered(m, p)
    OBVIOUS
  <2>2. x \in Block /\ y = [x EXCEPT !.data = [i \in DOMAIN x.data |-> IF i \in covered THEN x.data[i] ELSE Junk]]
    BY <1>2, <2>1 DEF Blocks
  <2>3. /\ y \in Block /\ y.refs = x.refs /\ y.used = x.used /\ Len(y.data) = Len(x.data)
        /\ \A i \in 1 .. Len(x.data) : i \in covered => y.data[i] = x.data[i]
    BY <2>2, ScrubBlock
  <2> QED
    BY <2>1, <2>3
<1>4. PICK d : d = [p \in Ptrs |-> IF Live(m, p) THEN Y(p) ELSE FreeBlock]
  OBVIOUS
<1>5. PICK e : e = [s \in Slots |-> IF r[s].size = 0 THEN Empty ELSE r[s]]
  OBVIOUS
<1>6. PICK n : n = Scrubbed(m)
  OBVIOUS
<1>7. n = [m EXCEPT !.blocks = d, !.refs = e]
  <2>1. \A p \in Ptrs : ScrubbedBlock(m, p) = Y(p)
    BY <1>1 DEF ScrubbedBlock
  <2>2. d = [p \in Ptrs |-> IF Live(m, p) THEN ScrubbedBlock(m, p) ELSE FreeBlock]
    BY <1>4, <2>1
  <2>3. n = [m EXCEPT !.blocks = [p \in Ptrs |-> IF Live(m, p) THEN ScrubbedBlock(m, p) ELSE FreeBlock],
                      !.refs = [s \in Slots |-> IF m.refs[s].size = 0 THEN Empty ELSE m.refs[s]]]
    BY <1>6 DEF Scrubbed
  <2> QED
    BY <1>1, <1>5, <2>2, <2>3
<1> HIDE DEF Y
<1>8. FreeBlock \in Block /\ FreeBlock.refs = 0
  BY DEF FreeBlock, Block
<1>9. d \in Blocks
  BY <1>3, <1>4, <1>8 DEF Blocks
<1>10. e \in Refs
  <2>1. Empty \in Reference
    BY DEF Empty, Reference
  <2> QED
    BY <1>2, <1>5, <2>1 DEF Refs
<1>11. n \in Memory /\ n.blocks = d /\ n.refs = e /\ n.fault = m.fault /\ n.temps = m.temps /\ n.pushed = m.pushed
  BY <1>7, <1>9, <1>10 DEF Memory
<1>12. \A p \in Ptrs : Live(m, p) <=> b[p].refs > 0
  BY <1>1 DEF Live
<1>13. \A p \in Ptrs : ~Live(m, p) => b[p].refs = 0
  BY <1>2, <1>12 DEF Blocks, Block
<1>14. \A p \in Ptrs : d[p].refs = b[p].refs
  BY <1>3, <1>4, <1>8, <1>13
<1>15. \A p \in Ptrs : b[p].refs > 0 => d[p] = Y(p)
  BY <1>4, <1>12
<1>16. \A p \in Ptrs : b[p].refs > 0 =>
          /\ d[p].used = b[p].used /\ Len(d[p].data) = Len(b[p].data)
          /\ \A i \in 1 .. Len(b[p].data) : i \in Covered(m, p) => d[p].data[i] = b[p].data[i]
  BY <1>3, <1>15
<1>17. \A s \in Slots : e[s] = IF r[s].size = 0 THEN Empty ELSE r[s]
  BY <1>5
<1>18. ScrubKeeps(m, n)
  BY <1>1, <1>11, <1>14, <1>16, <1>17 DEF ScrubKeeps
<1> QED
  BY <1>6, <1>18

LEMMA ScrubLemma ==
    ASSUME NEW m, NEW O, Good(m, O), NEW n, n = Scrubbed(m)
    PROVE  /\ Good(n, O) /\ n.temps = m.temps /\ n.pushed = m.pushed
           /\ \A t \in O : TextAt(n, t) = TextAt(m, t)
<1>0. /\ m \in Memory /\ m.blocks \in Blocks /\ m.refs \in Refs /\ O \in SUBSET Slots
      /\ m.fault = "none" /\ Sound(m.blocks, m.refs, O)
  BY GoodLemma
<1>1. ScrubKeeps(m, n)
  BY <1>0, ScrubbedLemma
<1>2. /\ n \in Memory /\ n.fault = "none" /\ n.temps = m.temps /\ n.pushed = m.pushed
  BY <1>0, <1>1 DEF ScrubKeeps
<1>3. \A s \in Slots : /\ n.refs[s].size = m.refs[s].size
                       /\ m.refs[s].size > 0 => n.refs[s] = m.refs[s]
  BY <1>1 DEF ScrubKeeps, Empty
<1>4. \A p \in Ptrs : Own(n.refs, O, p) = Own(m.refs, O, p)
  BY <1>0, <1>3 DEF Own
<1>5. Counted(n.blocks, n.refs, O)
  BY <1>0, <1>1, <1>4 DEF Sound, Counted, ScrubKeeps
<1>6. Fit(n.blocks, n.refs, O)
  <2> SUFFICES ASSUME NEW t \in O, n.refs[t].size > 0 PROVE Fits(n.blocks, n.refs[t])
    BY DEF Fit
  <2>1. m.refs[t].size > 0 /\ n.refs[t] = m.refs[t]
    BY <1>0, <1>3
  <2>2. PICK p : p = m.refs[t].heap
    OBVIOUS
  <2>3. p \in Ptrs /\ m.blocks[p].refs > 0 /\ Fits(m.blocks, m.refs[t])
    BY <2>1, <2>2, OwnerLemma
  <2>4. n.blocks[p].used = m.blocks[p].used /\ Len(n.blocks[p].data) = Len(m.blocks[p].data)
    BY <1>1, <2>3 DEF ScrubKeeps
  <2> QED
    BY <2>1, <2>2, <2>3, <2>4 DEF Fits
<1>7. InBlocks(n.blocks)
  BY <1>0, <1>1 DEF Sound, InBlocks, ScrubKeeps
<1>8. Good(n, O)
  BY <1>0, <1>2, <1>5, <1>6, <1>7 DEF Good, Sound
<1>9. ASSUME NEW t \in O PROVE TextAt(n, t) = TextAt(m, t)
  <2>0. m.refs[t] \in Reference /\ n.refs[t] \in Reference /\ t \in Slots /\ m.refs[t].size \in Nat
    BY <1>0, <1>2, GoodLemma DEF Memory, Refs
  <2>1. CASE m.refs[t].size = 0
    <3>1. n.refs[t].size = 0
      BY <1>3, <2>0, <2>1
    <3> QED
      BY <1>0, <1>2, <2>0, <2>1, <3>1, TextEmpty DEF TextAt
  <2>2. CASE m.refs[t].size > 0
    <3>1. PICK ref, p, k : ref = m.refs[t] /\ p = m.refs[t].heap /\ k = Len(m.blocks[p].data)
      OBVIOUS
    <3>2. /\ ref \in Reference /\ ref.size \in Nat /\ ref.off \in Nat /\ n.refs[t] = ref
          /\ ref.heap = p /\ (ref.size > 0 => ref.heap \in Ptrs)
      BY <1>3, <2>0, <2>2, <3>1, OwnerLemma DEF Reference
    <3>3. p \in Ptrs /\ m.blocks[p].refs > 0 /\ Len(n.blocks[p].data) = k
      BY <1>1, <2>2, <3>1, OwnerLemma DEF ScrubKeeps
    <3>4. \A i \in 1 .. ref.size : ref.off + i \in Covered(m, p)
      <4>1. t \in {x \in Slots : m.refs[x].size > 0 /\ m.refs[x].heap = p}
        BY <2>0, <2>2, <3>1
      <4>2. \A i \in 1 .. ref.size : ref.off + i \in m.refs[t].off + 1 .. m.refs[t].off + m.refs[t].size
        BY <3>1, <3>2
      <4> QED
        BY <4>1, <4>2 DEF Covered
    <3>5. ASSUME NEW i \in 1 .. ref.size PROVE Text(n, ref)[i] = Text(m, ref)[i]
      <4>1. Text(m, ref)[i] = IF ref.off + i \in 1 .. k THEN m.blocks[p].data[ref.off + i] ELSE Junk
        BY <1>0, <3>1, <3>2, TextLemma
      <4>2. Text(n, ref)[i] = IF ref.off + i \in 1 .. k THEN n.blocks[p].data[ref.off + i] ELSE Junk
        <5>1. Text(n, ref)[i] = IF ref.off + i \in 1 .. Len(n.blocks[ref.heap].data)
                                  THEN n.blocks[ref.heap].data[ref.off + i] ELSE Junk
          BY <1>2, <3>2, TextLemma
        <5> QED
          BY <3>2, <3>3, <5>1
      <4>3. \A j \in 1 .. k : j \in Covered(m, p) => n.blocks[p].data[j] = m.blocks[p].data[j]
        BY <1>1, <3>1, <3>3 DEF ScrubKeeps
      <4>4. ref.off + i \in Covered(m, p)
        BY <3>4
      <4> QED
        BY <4>1, <4>2, <4>3, <4>4
    <3>6. /\ Text(n, ref) = [i \in 1 .. ref.size |-> Text(n, ref)[i]]
          /\ Text(m, ref) = [i \in 1 .. ref.size |-> Text(m, ref)[i]]
      BY <1>0, <1>2, <3>2, TextLemma
    <3>7. Text(n, ref) = Text(m, ref)
      BY <3>5, <3>6, Zenon
    <3> QED
      BY <3>1, <3>2, <3>7 DEF TextAt
  <2> QED
    BY <2>0, <2>1, <2>2
<1> QED
  BY <1>2, <1>8, <1>9

-----------------------------------------------------------------------------
(* Expressions and their results *)

LEMMA TextType ==
    ASSUME NEW m, NEW O, Good(m, O), NEW s \in O
    PROVE  TextAt(m, s) \in Seq(Nat) /\ Len(TextAt(m, s)) = m.refs[s].size
<1>1. m \in Memory /\ m.refs[s] \in Reference
  BY GoodLemma
<1>2. m.refs[s].size > 0 => m.refs[s].heap \in Ptrs
  BY OwnerLemma
<1> QED
  BY <1>1, <1>2, TextLemma DEF TextAt

\* A text is written behind the one that is there.
LEMMA WriteEndLemma ==
    ASSUME NEW m, NEW O, Good(m, O), NEW s \in O, m.refs[s].size > 0,
           m.blocks[m.refs[s].heap].refs = 1,
           NEW old \in Seq(Nat), NEW text \in Seq(Nat), Len(old) + Len(text) = m.refs[s].size,
           \A i \in 1 .. Len(old) : TextAt(m, s)[i] = old[i]
    PROVE  /\ Overwrites(m, WriteText(m, s, Len(old), text), O, s, Len(old), text)
           /\ TextAt(WriteText(m, s, Len(old), text), s) = old \o text
<1>1. PICK k, l, size, at, n :
          /\ k = Len(old) /\ l = Len(text) /\ size = m.refs[s].size
          /\ at = Len(old) /\ n = WriteText(m, s, at, text)
  OBVIOUS
<1>2. k \in Nat /\ l \in Nat /\ k + l = size /\ at = k /\ size \in Nat
  BY <1>1
<1>3. Overwrites(m, n, O, s, at, text)
  BY <1>1, <1>2, WriteLemma
<1>4. TextAt(n, s) \in Seq(Nat) /\ Len(TextAt(n, s)) = size
  <2>1. Good(n, O) /\ n.refs = m.refs
    BY <1>3 DEF Overwrites
  <2> QED
    BY <1>1, <2>1, TextType
<1>5. /\ old \o text \in Seq(Nat) /\ Len(old \o text) = size
      /\ \A i \in 1 .. size : (old \o text)[i] = IF i <= k THEN old[i] ELSE text[i - k]
  BY <1>1, <1>2, ConcatProperties
<1>6. ASSUME NEW i \in 1 .. size PROVE TextAt(n, s)[i] = (old \o text)[i]
  <2>1. TextAt(n, s)[i] = IF i - k \in 1 .. l THEN text[i - k] ELSE TextAt(m, s)[i]
    BY <1>1, <1>2, <1>3 DEF Overwrites
  <2>2. CASE i <= k
    <3>1. i - k \notin 1 .. l /\ i \in 1 .. k
      BY <1>2, <2>2
    <3> QED
      BY <1>1, <1>5, <2>1, <2>2, <3>1
  <2>3. CASE ~(i <= k)
    <3>1. i - k \in 1 .. l
      BY <1>2, <2>3
    <3> QED
      BY <1>5, <2>1, <2>3, <3>1
  <2> QED
    BY <2>2, <2>3
<1>7. TextAt(n, s) = old \o text
  BY <1>4, <1>5, <1>6, SeqEqual
<1> QED
  BY <1>1, <1>3, <1>7

\* n has a text in temporary t, which is on the cleanup stack or empty.
Made(m, n, O, t, text) ==
    /\ Good(n, O \cup {t}) /\ n.temps = t
    /\ n.pushed = m.pushed \cup {t} \/ (n.pushed = m.pushed /\ n.refs[t].size = 0)
    /\ TextAt(n, t) = text
    /\ \A x \in O : TextAt(n, x) = TextAt(m, x)

Pushes(m, n, O, t) ==
    /\ Good(n, O) /\ n.refs = m.refs /\ n.blocks = m.blocks
    /\ n.temps = t /\ n.pushed = m.pushed \cup {t}
    /\ \A x \in O : TextAt(n, x) = TextAt(m, x)

LEMMA PushTempLemma ==
    ASSUME NEW m, NEW O, Good(m, O), NEW t \in Nat
    PROVE  Pushes(m, Push(m, t), O, t)
<1>0. PICK n : n = Push(m, t)
  OBVIOUS
<1>1. m \in Memory
  BY GoodLemma
<1>2. /\ n \in Memory /\ n.refs = m.refs /\ n.blocks = m.blocks /\ n.fault = m.fault
      /\ n.temps = t /\ n.pushed = m.pushed \cup {t}
  BY <1>0, <1>1 DEF Push, Memory
<1>3. Good(n, O)
  BY <1>2 DEF Good
<1>4. \A x \in O : TextAt(n, x) = TextAt(m, x)
  BY <1>2 DEF TextAt, Text
<1> QED
  BY <1>0, <1>2, <1>3, <1>4 DEF Pushes

LEMMA SliceLemma ==
    ASSUME NEW m, NEW O, Good(m, O), NEW w \in O, ~HaveAlloc,
           NextTemp(m) \in Slots \ O, NEW first \in Nat, NEW size \in Nat, first + size <= m.refs[w].size
    PROVE  Made(m, SliceExp(m, m.refs[w], first, size), O, NextTemp(m),
                SubSeq(TextAt(m, w), first + 1, first + size))
<1>0. /\ m \in Memory /\ O \in SUBSET Slots /\ m.refs[w] \in Reference /\ m.blocks \in Blocks
      /\ m.refs \in Refs /\ m.fault = "none" /\ Sound(m.blocks, m.refs, O)
  BY GoodLemma
<1>1. PICK t, ref, z, text : t = NextTemp(m) /\ ref = m.refs[w] /\ z = m.refs[w].size /\ text = TextAt(m, w)
  OBVIOUS
<1>2. t \in Slots \ O /\ t \in Nat /\ z \in Nat /\ first + size <= z
  BY <1>0, <1>1 DEF Reference, NextTemp, Memory
<1>3. text \in Seq(Nat) /\ Len(text) = z
  BY <1>1, TextType
<1>4. PICK part : part = SubSeq(text, first + 1, first + size)
  OBVIOUS
<1>5. /\ part \in Seq(Nat) /\ Len(part) = size
      /\ \A i \in 1 .. size : part[i] = text[first + i]
  <2>1. \A i \in first + 1 .. first + size : i \in 1 .. z /\ text[i] \in Nat
    BY <1>2, <1>3
  <2>2. PICK j, k : j = first + 1 /\ k = first + size
    OBVIOUS
  <2>3. j \in Int /\ k \in Int /\ \A i \in j .. k : text[i] \in Nat
    BY <2>1, <2>2
  <2>4. /\ part \in Seq(Nat) /\ Len(part) = IF j <= k THEN k - j + 1 ELSE 0
        /\ \A i \in 1 .. k - j + 1 : part[i] = text[j + i - 1]
    BY <1>4, <2>2, <2>3, SubSeqProperties
  <2>5. (IF j <= k THEN k - j + 1 ELSE 0) = size /\ k - j + 1 = size
    BY <2>2
  <2>6. \A i \in 1 .. size : j + i - 1 = first + i
    BY <2>2
  <2> QED
    BY <2>4, <2>5, <2>6
<1>6. PICK n : n = SliceExp(m, ref, first, size)
  OBVIOUS
<1>7. CASE size = 0
  <2>1. n = [[m EXCEPT !.refs = [m.refs EXCEPT ![t].size = 0]] EXCEPT !.temps = t]
    BY <1>1, <1>6, <1>7 DEF SliceExp
  <2>2. PICK e : e = [m.refs EXCEPT ![t].size = 0]
    OBVIOUS
  <2>3. [m.refs[t] EXCEPT !.size = 0] \in Reference
    BY <1>0, <1>2 DEF Refs, Reference
  <2>4. e \in Refs /\ e[t].size = 0 /\ \A x \in Slots \ {t} : e[x] = m.refs[x]
    <3>1. m.refs[t] \in Reference
      BY <1>0, <1>2 DEF Refs
    <3> QED
      BY <1>0, <1>2, <2>2, <2>3, <3>1 DEF Refs, Reference
  <2>5. /\ n \in Memory /\ n.refs = e /\ n.blocks = m.blocks /\ n.fault = "none"
        /\ n.temps = t /\ n.pushed = m.pushed
    BY <1>0, <1>2, <2>1, <2>2, <2>4 DEF Memory
  <2>6. Sound(m.blocks, e, O \cup {t})
    BY <1>0, <1>2, <2>4, EmptySound
  <2>7. Good(n, O \cup {t})
    BY <1>0, <1>2, <2>5, <2>6 DEF Good
  <2>8. \A x \in O : TextAt(n, x) = TextAt(m, x)
    BY <1>0, <1>2, <2>4, <2>5 DEF TextAt, Text
  <2>9. TextAt(n, t) = part
    <3>1. TextAt(n, t) \in Seq(Nat) /\ Len(TextAt(n, t)) = 0
      BY <2>4, <2>5, <2>7, TextType
    <3> QED
      BY <1>5, <1>7, <3>1, EmptySeq
  <2> QED
    BY <1>1, <1>4, <1>6, <2>4, <2>5, <2>7, <2>8, <2>9 DEF Made
<1>8. CASE size > 0
  <2>1. PICK s, a : s = [size |-> size, heap |-> ref.heap, off |-> ref.off + first] /\ a = InitRef(m, t, s)
    OBVIOUS
  <2>2. n = Push(a, t)
    BY <1>1, <1>6, <1>8, <2>1 DEF SliceExp
  <2>3. z > 0
    BY <1>2, <1>8
  <2>4. /\ ref.heap \in Ptrs /\ m.blocks[ref.heap].refs > 0
        /\ ref.off + z <= m.blocks[ref.heap].used
    BY <1>1, <2>3, OwnerLemma
  <2>5. s \in Reference /\ s.size = size /\ s.heap = ref.heap /\ s.off = ref.off + first
    BY <1>0, <1>1, <2>1, <2>4 DEF Reference
  <2>6. Fits(m.blocks, s)
    <3>1. s.off + s.size <= m.blocks[s.heap].used
      <4>1. PICK off, used : off = ref.off /\ used = m.blocks[ref.heap].used
        OBVIOUS
      <4>2. off \in Nat /\ used \in Nat /\ off + z <= used
        BY <1>0, <1>1, <2>4, <4>1 DEF Reference, Blocks, Block
      <4>3. (off + first) + size <= used
        BY <1>2, <4>2
      <4> QED
        BY <2>5, <4>1, <4>3
    <3> QED
      BY <2>4, <2>5, <3>1 DEF Fits
  <2>7. /\ Good(a, O \cup {t}) /\ Still(m, a) /\ Others(m, a, t) /\ a.refs[t] = s
    BY <1>2, <1>8, <2>1, <2>4, <2>5, <2>6, InitLemma
  <2>8. /\ Good(n, O \cup {t}) /\ n.refs = a.refs /\ n.temps = t /\ n.pushed = m.pushed \cup {t}
        /\ \A x \in O \cup {t} : TextAt(n, x) = TextAt(a, x)
    <3>1. PICK Q : Q = O \cup {t}
      OBVIOUS
    <3>2. Pushes(a, n, Q, t)
      BY <1>2, <2>2, <2>7, <3>1, PushTempLemma
    <3> QED
      BY <2>7, <3>1, <3>2 DEF Still, Pushes
  <2>9. \A x \in O : TextAt(a, x) = TextAt(m, x)
    BY <1>0, <1>2, <2>7, StillTexts DEF Others
  <2>10. TextAt(a, t) = part
    <3>1. PICK h, d, off, k : h = ref.heap /\ d = m.blocks[ref.heap].data /\ off = ref.off /\ k = Len(m.blocks[ref.heap].data)
      OBVIOUS
    <3>2. h \in Ptrs /\ a.blocks[h].data = d /\ off \in Nat /\ s.heap = h /\ s.off = off + first
      BY <1>0, <1>1, <2>4, <2>5, <2>7, <3>1 DEF Still, Reference
    <3>3. TextAt(a, t) \in Seq(Nat) /\ Len(TextAt(a, t)) = size
      <4>1. PICK Q : Q = O \cup {t}
        OBVIOUS
      <4> QED
        BY <2>5, <2>7, <4>1, TextType
    <3>4. ASSUME NEW i \in 1 .. size PROVE TextAt(a, t)[i] = part[i]
      <4>1. Text(a, s)[i] = IF s.off + i \in 1 .. Len(a.blocks[s.heap].data)
                              THEN a.blocks[s.heap].data[s.off + i] ELSE Junk
        <5>1. a \in Memory
          BY <2>7 DEF Good
        <5> QED
          BY <2>4, <2>5, <5>1, TextLemma
      <4>2. Text(a, s)[i] = IF (off + first) + i \in 1 .. k THEN d[(off + first) + i] ELSE Junk
        BY <3>1, <3>2, <4>1
      <4>3. first + i \in 1 .. z
        BY <1>2
      <4>4. Text(m, ref)[first + i] = IF ref.off + (first + i) \in 1 .. Len(m.blocks[ref.heap].data)
                                        THEN m.blocks[ref.heap].data[ref.off + (first + i)] ELSE Junk
        <5>1. \A j \in 1 .. ref.size :
                Text(m, ref)[j] = IF ref.off + j \in 1 .. Len(m.blocks[ref.heap].data)
                                    THEN m.blocks[ref.heap].data[ref.off + j] ELSE Junk
          BY <1>0, <1>1, <2>4, TextLemma
        <5>2. first + i \in 1 .. ref.size
          BY <1>1, <4>3
        <5> QED
          BY <5>1, <5>2
      <4>5. Text(m, ref)[first + i] = IF off + (first + i) \in 1 .. k THEN d[off + (first + i)] ELSE Junk
        BY <3>1, <4>4
      <4>6. (off + first) + i = off + (first + i)
        BY <3>2
      <4>7. part[i] = text[first + i]
        BY <1>5
      <4> QED
        BY <1>1, <2>7, <4>2, <4>5, <4>6, <4>7 DEF TextAt
    <3> QED
      BY <1>5, <3>3, <3>4, SeqEqual
  <2>11. \A x \in O : TextAt(n, x) = TextAt(m, x)
    BY <2>8, <2>9
  <2>12. TextAt(n, t) = part
    BY <2>8, <2>10
  <2>13. Made(m, n, O, t, part)
    BY <2>8, <2>11, <2>12 DEF Made
  <2> QED
    BY <1>1, <1>4, <1>6, <2>13
<1> QED
  BY <1>1, <1>4, <1>6, <1>7, <1>8

LEMMA AddLemma ==
    ASSUME NEW m, NEW O, Good(m, O), HasFree(m), NextTemp(m) \in Slots \ O,
           NEW text1 \in Seq(Nat), NEW text2 \in Seq(Nat), Len(text1) + Len(text2) > 0
    PROVE  Made(m, AddExp(m, text1, text2), O, NextTemp(m), text1 \o text2)
<1>0. m \in Memory /\ O \in SUBSET Slots
  BY GoodLemma
<1>1. PICK t, size, k, zero, none : /\ t = NextTemp(m) /\ size = Len(text1) + Len(text2) /\ k = Len(text1)
                                    /\ zero = 0 /\ none = <<>>
  OBVIOUS
<1>2. t \in Slots \ O /\ t \in Nat /\ size \in Nat \ {0} /\ k \in Nat /\ zero \in Nat /\ none \in Seq(Nat)
  BY <1>0, <1>1 DEF NextTemp, Memory
<1>3. PICK Q : Q = O \cup {t}
  OBVIOUS
<1>4. PICK a : a = AllocRef(m, t, size)
  OBVIOUS
<1>5. /\ Good(a, Q) /\ a.temps = m.temps /\ a.pushed = m.pushed /\ Others(m, a, t)
      /\ a.refs[t].size = size /\ a.blocks[a.refs[t].heap].refs = 1
      /\ \A x \in O : Text(a, m.refs[x]) = Text(m, m.refs[x])
  <2>1. Allocated(m, a, O, t, size)
    BY <1>2, <1>4, AllocLemma
  <2> QED
    BY <1>3, <2>1 DEF Allocated
<1>6. \A x \in O : TextAt(a, x) = TextAt(m, x)
  BY <1>0, <1>2, <1>5 DEF TextAt, Others
<1>7. PICK b : b = Push(a, t)
  OBVIOUS
<1>8. /\ Good(b, Q) /\ b.refs = a.refs /\ b.blocks = a.blocks /\ b.temps = t
      /\ b.pushed = m.pushed \cup {t} /\ \A x \in Q : TextAt(b, x) = TextAt(a, x)
  <2>1. Pushes(a, b, Q, t)
    BY <1>2, <1>5, <1>7, PushTempLemma
  <2> QED
    BY <1>5, <2>1 DEF Pushes
<1>9. PICK c : c = WriteText(b, t, zero, text1)
  OBVIOUS
<1>10. t \in Q /\ b.refs[t].size = size /\ size > 0 /\ b.blocks[b.refs[t].heap].refs = 1
  BY <1>2, <1>3, <1>5, <1>8
<1>11. Overwrites(b, c, Q, t, zero, text1)
  <2>1. zero + Len(text1) <= b.refs[t].size
    BY <1>1, <1>2, <1>10
  <2> QED
    BY <1>2, <1>8, <1>9, <1>10, <2>1, WriteLemma
<1>12. /\ Good(c, Q) /\ c.refs = b.refs /\ c.temps = b.temps /\ c.pushed = b.pushed
       /\ \A q \in Ptrs : c.blocks[q].refs = b.blocks[q].refs
       /\ \A x \in Q \ {t} : TextAt(c, x) = TextAt(b, x)
  BY <1>11 DEF Overwrites
<1>13. \A i \in 1 .. k : TextAt(c, t)[i] = text1[i]
  <2>1. SUFFICES ASSUME NEW i \in 1 .. k PROVE TextAt(c, t)[i] = text1[i]
    OBVIOUS
  <2>2. i \in 1 .. size /\ i - zero = i
    BY <1>1, <1>2
  <2>3. TextAt(c, t)[i] = IF i - zero \in 1 .. Len(text1) THEN text1[i - zero] ELSE TextAt(b, t)[i]
    BY <1>10, <1>11, <2>2 DEF Overwrites
  <2> QED
    BY <1>1, <2>2, <2>3
<1>14. PICK n : n = WriteText(c, t, k, text2)
  OBVIOUS
<1>15. Overwrites(c, n, Q, t, k, text2) /\ TextAt(n, t) = text1 \o text2
  <2>1. c.refs[t].size > 0 /\ Len(text1) + Len(text2) = c.refs[t].size
    BY <1>1, <1>10, <1>12
  <2>2. c.blocks[c.refs[t].heap].refs = 1
    <3>1. b.refs[t].heap \in Ptrs
      BY <1>8, <1>10, OwnerLemma
    <3> QED
      BY <1>10, <1>12, <3>1
  <2>3. \A i \in 1 .. Len(text1) : TextAt(c, t)[i] = text1[i]
    BY <1>1, <1>13
  <2> QED
    <3>1. /\ Overwrites(c, WriteText(c, t, Len(text1), text2), Q, t, Len(text1), text2)
          /\ TextAt(WriteText(c, t, Len(text1), text2), t) = text1 \o text2
      <4>1. Good(c, Q) /\ t \in Q
        BY <1>10, <1>12
      <4> QED
        BY <2>1, <2>2, <2>3, <4>1, WriteEndLemma
    <3> QED
      BY <1>1, <1>14, <3>1
<1>16. /\ Good(n, Q) /\ n.temps = t /\ n.pushed = m.pushed \cup {t}
       /\ \A x \in Q \ {t} : TextAt(n, x) = TextAt(c, x)
  BY <1>8, <1>12, <1>15 DEF Overwrites
<1>17. \A x \in O : TextAt(n, x) = TextAt(m, x)
  <2>1. \A x \in O : x \in Q \ {t}
    BY <1>2, <1>3
  <2> QED
    BY <1>6, <1>8, <1>12, <1>16, <2>1
<1>18. Made(m, n, O, t, text1 \o text2)
  BY <1>3, <1>15, <1>16, <1>17 DEF Made
<1>19. n = AddExp(m, text1, text2)
  BY <1>1, <1>4, <1>7, <1>9, <1>14 DEF AddExp
<1> QED
  BY <1>1, <1>18, <1>19

-----------------------------------------------------------------------------
(* The invariant *)

\* The variables own references, and so do the temporaries on the cleanup stack.
Holders(m) == Vars \cup m.pushed

IInv ==
    /\ Good(mem, Holders(mem))
    /\ mem.temps \in 0 .. MaxTemps /\ mem.pushed \subseteq 1 .. mem.temps
    /\ vals \in [Vars -> Seq(Nat)]
    /\ \A v \in Vars : TextAt(mem, v) = vals[v]

LEMMA InitialLemma == Init => IInv
<1> SUFFICES ASSUME Init PROVE IInv
  OBVIOUS
<1>1. /\ mem.blocks = [p \in Ptrs |-> FreeBlock] /\ mem.refs = [s \in Slots |-> Empty]
      /\ mem.temps = 0 /\ mem.pushed = {} /\ mem.fault = "none" /\ vals = [v \in Vars |-> <<>>]
  BY DEF Init
<1>2. FreeBlock \in Block /\ FreeBlock.refs = 0 /\ Empty \in Reference /\ Empty.size = 0
  BY DEF FreeBlock, Block, Empty, Reference
<1>3. mem.blocks \in Blocks /\ mem.refs \in Refs
  BY <1>1, <1>2 DEF Blocks, Refs
<1>4. mem \in Memory
  <2>1. PICK b, r : b = [p \in Ptrs |-> FreeBlock] /\ r = [s \in Slots |-> Empty]
    OBVIOUS
  <2>2. mem = [blocks |-> b, refs |-> r, temps |-> 0, pushed |-> {}, fault |-> "none"]
    BY <2>1 DEF Init
  <2>3. b \in Blocks /\ r \in Refs
    BY <1>1, <1>3, <2>1
  <2>4. "none" \in {"none", "assert", "overrun"} /\ {} \in SUBSET Nat /\ 0 \in Nat
    OBVIOUS
  <2>5. PICK none, nobody, zero : none = "none" /\ nobody = {} /\ zero = 0
    OBVIOUS
  <2>6. none \in {"none", "assert", "overrun"} /\ nobody \in SUBSET Nat /\ zero \in Nat
    BY <2>4, <2>5
  <2>7. mem = [blocks |-> b, refs |-> r, temps |-> zero, pushed |-> nobody, fault |-> none]
    BY <2>2, <2>5
  <2> QED
    BY <2>3, <2>6, <2>7 DEF Memory
<1>5. Holders(mem) = Vars /\ Vars \subseteq Slots
  BY <1>1 DEF Holders, Slots
<1>6. Counted(mem.blocks, mem.refs, Vars)
  <2>1. \A p \in Ptrs : Own(mem.refs, Vars, p) = {}
    BY <1>1, <1>2, <1>5 DEF Own
  <2> QED
    BY <1>1, <1>2, <2>1, FS_EmptySet DEF Counted
<1>7. Fit(mem.blocks, mem.refs, Vars) /\ InBlocks(mem.blocks)
  BY <1>1, <1>2, <1>5 DEF Fit, InBlocks
<1>8. Good(mem, Holders(mem))
  BY <1>1, <1>4, <1>5, <1>6, <1>7 DEF Good, Sound
<1>9. mem.temps \in 0 .. MaxTemps /\ mem.pushed \subseteq 1 .. mem.temps
  BY <1>1, StringsAssumption
<1>10. vals \in [Vars -> Seq(Nat)]
  BY <1>1
<1>11. ASSUME NEW v \in Vars PROVE TextAt(mem, v) = vals[v]
  <2>1. TextAt(mem, v) \in Seq(Nat) /\ Len(TextAt(mem, v)) = 0
    BY <1>1, <1>2, <1>5, <1>8, TextType
  <2> QED
    BY <1>1, <2>1, EmptySeq
<1> QED
  BY <1>8, <1>9, <1>10, <1>11 DEF IInv

\* The memory after an expression or an assignment to v; the others keep their texts.
Leaves(m, n, v, value) ==
    /\ Good(n, Holders(n)) /\ n.pushed \subseteq 1 .. n.temps
    /\ TextAt(n, v) = value
    /\ \A w \in Vars \ {v} : TextAt(n, w) = TextAt(m, w)

LEMMA RunsLemma ==
    ASSUME IInv, NEW v \in Vars, NEW after, NEW value, Runs(v, after, value),
           Leaves(mem, after, v, value)
    PROVE  IInv'
<1>1. Good(after, Holders(after)) /\ after.pushed \subseteq 1 .. after.temps /\ TextAt(after, v) = value
  BY DEF Leaves
<1>2. PICK n, O : n = Scrubbed(after) /\ O = Holders(after)
  OBVIOUS
<1>3. /\ Good(n, O) /\ n.temps = after.temps /\ n.pushed = after.pushed
      /\ \A t \in O : TextAt(n, t) = TextAt(after, t)
  BY <1>1, <1>2, ScrubLemma
<1>4. Holders(n) = O
  BY <1>2, <1>3 DEF Holders
<1>5. v \in O /\ \A w \in Vars : w \in O
  BY <1>2 DEF Holders
<1>6. value \in Seq(Nat)
  BY <1>1, <1>2, <1>5, TextType
<1>7. mem' = n /\ vals' = [vals EXCEPT ![v] = value] /\ after.temps <= MaxTemps
  BY <1>2 DEF Runs
<1>8. vals' \in [Vars -> Seq(Nat)]
  BY <1>6, <1>7 DEF IInv
<1>9. ASSUME NEW w \in Vars PROVE TextAt(n, w) = vals'[w]
  <2>1. CASE w = v
    BY <1>1, <1>3, <1>5, <1>7, <2>1 DEF IInv
  <2>2. CASE w # v
    <3>1. TextAt(after, w) = TextAt(mem, w)
      BY <2>2 DEF Leaves
    <3>2. vals'[w] = vals[w] /\ TextAt(mem, w) = vals[w]
      BY <1>7, <2>2 DEF IInv
    <3> QED
      BY <1>3, <1>5, <3>1, <3>2
  <2> QED
    BY <2>1, <2>2
<1>10. n.temps \in 0 .. MaxTemps /\ n.pushed \subseteq 1 .. n.temps
  <2>1. after.temps \in Nat
    BY <1>1 DEF Good, Memory
  <2> QED
    BY <1>1, <1>3, <1>7, <2>1, StringsAssumption
<1>11. Good(n, Holders(n))
  BY <1>3, <1>4
<1> QED
  BY <1>7, <1>8, <1>9, <1>10, <1>11 DEF IInv, TextAt, Text, Good, Holders

\* Zero is no slot.
LEMMA SlotsPositive == 0 \notin Slots
<1>1. 0 \notin Vars
  BY StringsAssumption
<1> QED
  BY <1>1 DEF Slots, Temps

\* A result in a temporary is assigned to v.
LEMMA MadeLemma ==
    ASSUME NEW m, NEW O, O = Holders(m), Good(m, O), NEW t \in Slots \ O, m.pushed \subseteq 1 .. t,
           NEW n, NEW text, Made(m, n, O, t, text), NEW v \in Vars
    PROVE  Leaves(m, AssignRef(n, v, n.refs[n.temps]), v, text)
<1>1. PICK Q, a : Q = O \cup {t} /\ a = AssignRef(n, v, n.refs[n.temps])
  OBVIOUS
<1>2. /\ Good(n, Q) /\ n.temps = t /\ TextAt(n, t) = text /\ \A x \in O : TextAt(n, x) = TextAt(m, x)
      /\ n.pushed = m.pushed \cup {t} \/ (n.pushed = m.pushed /\ n.refs[t].size = 0)
  BY <1>1 DEF Made
<1>3. v \in O /\ v \in Q /\ t \in Q /\ v # t /\ a = AssignRef(n, v, n.refs[t])
  BY <1>1, <1>2 DEF Holders
<1>4. /\ Good(a, Q) /\ Still(n, a) /\ Others(n, a, v)
      /\ TextAt(a, v) = TextAt(n, t) /\ \A x \in Q \ {v} : TextAt(a, x) = TextAt(n, x)
  <2>1. Assigned(n, a, Q, v, t)
    BY <1>1, <1>2, <1>3, AssignLemma
  <2> QED
    BY <2>1 DEF Assigned
<1>5. a.temps = t /\ a.pushed = n.pushed
  BY <1>2, <1>4 DEF Still
<1>6. Good(a, Holders(a)) /\ a.pushed \subseteq 1 .. a.temps
  <2>0. t \in Nat /\ m.pushed \subseteq 1 .. t
    BY <1>2 DEF Good, Memory
  <2>1. CASE n.pushed = m.pushed \cup {t}
    <3>1. Holders(a) = Q
      BY <1>1, <1>5, <2>1 DEF Holders
    <3>2. t \in 1 .. t
      <4>1. t # 0
        BY SlotsPositive, <2>0
      <4> QED
        BY <2>0, <4>1
    <3> QED
      BY <1>4, <1>5, <2>0, <2>1, <3>1, <3>2
  <2>2. CASE n.pushed = m.pushed /\ n.refs[t].size = 0
    <3>1. a.refs[t].size = 0
      BY <1>3, <1>4, <2>2 DEF Others
    <3>2. DerefSlot(a, t) = a
      BY <3>1 DEF DerefSlot
    <3>3. Good(DerefSlot(a, t), Q \ {t})
      BY <1>3, <1>4, DropLemma
    <3>4. Q \ {t} = O /\ Holders(a) = O
      BY <1>1, <1>5, <2>2 DEF Holders
    <3> QED
      BY <1>5, <2>0, <2>2, <3>2, <3>3, <3>4
  <2> QED
    BY <1>2, <2>1, <2>2
<1>7. ASSUME NEW w \in Vars \ {v} PROVE TextAt(a, w) = TextAt(m, w)
  <2>1. w \in O /\ w \in Q \ {v}
    BY <1>1 DEF Holders
  <2> QED
    BY <1>2, <1>4, <2>1
<1> QED
  BY <1>1, <1>2, <1>4, <1>6, <1>7 DEF Leaves
-----------------------------------------------------------------------------
(* The statements *)

\* What a statement finds; the owners O keep their temporaries in n.
LEMMA FoundLemma ==
    ASSUME IInv, NEW O, O = Holders(mem)
    PROVE  /\ Good(mem, O) /\ Vars \subseteq O /\ mem \in Memory
           /\ \A v \in Vars : /\ TextAt(mem, v) = vals[v] /\ vals[v] \in Seq(Nat)
                              /\ Len(vals[v]) = mem.refs[v].size
                              /\ mem.refs[v] \in Reference /\ mem.refs[v].size \in Nat
<1>1. Good(mem, O) /\ Vars \subseteq O
  BY DEF IInv, Holders
<1>2. mem \in Memory /\ \A s \in Slots : mem.refs[s] \in Reference /\ mem.refs[s].size \in Nat
  BY <1>1, GoodLemma
<1>3. Vars \subseteq Slots
  BY DEF Slots
<1>4. ASSUME NEW v \in Vars PROVE Len(vals[v]) = mem.refs[v].size
  <2>1. Len(TextAt(mem, v)) = mem.refs[v].size
    BY <1>1, TextType
  <2> QED
    BY <2>1 DEF IInv
<1> QED
  BY <1>1, <1>2, <1>3, <1>4 DEF IInv

LEMMA LeavesLemma ==
    ASSUME IInv, NEW O, O = Holders(mem), NEW n, Good(n, O), n.temps = mem.temps, n.pushed = mem.pushed,
           NEW v \in Vars, NEW value, TextAt(n, v) = value,
           \A w \in O \ {v} : TextAt(n, w) = TextAt(mem, w)
    PROVE  Leaves(mem, n, v, value)
<1>1. Holders(n) = O /\ Vars \subseteq O
  BY DEF Holders
<1>2. n.pushed \subseteq 1 .. n.temps
  BY DEF IInv
<1> QED
  BY <1>1, <1>2 DEF Leaves

LEMMA ClearLemma ==
    ASSUME IInv, NEW v \in Vars, Clear(v)
    PROVE  IInv'
<1>1. PICK O, d, after : O = Holders(mem) /\ d = DerefSlot(mem, v) /\ after = [d EXCEPT !.refs[v].size = 0]
  OBVIOUS
<1>2. Good(mem, O) /\ v \in O /\ O \subseteq Slots
  BY <1>1, FoundLemma DEF Good
<1>3. Good(d, O \ {v}) /\ d.refs = mem.refs /\ Still(mem, d)
  BY <1>1, <1>2, DropLemma
<1>4. Good(after, O) /\ Still(d, after) /\ Others(d, after, v) /\ after.refs[v].size = 0
  <2>1. Empty \in Reference /\ Empty.size = 0
    BY DEF Empty, Reference
  <2>2. after = InitRef(d, v, Empty)
    BY <1>1, <2>1 DEF InitRef
  <2>3. v \in Slots \ (O \ {v}) /\ (O \ {v}) \cup {v} = O
    BY <1>2
  <2>4. ~(Empty.size > 0)
    BY <2>1
  <2> QED
    BY <1>3, <2>1, <2>2, <2>3, <2>4, InitLemma
<1>5. Still(mem, after) /\ after.temps = mem.temps /\ after.pushed = mem.pushed
  BY <1>3, <1>4 DEF Still
<1>6. TextAt(after, v) = <<>>
  <2>1. TextAt(after, v) \in Seq(Nat) /\ Len(TextAt(after, v)) = 0
    BY <1>2, <1>4, TextType
  <2> QED
    BY <2>1, EmptySeq
<1>7. ASSUME NEW w \in O \ {v} PROVE TextAt(after, w) = TextAt(mem, w)
  <2>1. after.refs[w] = mem.refs[w]
    BY <1>2, <1>3, <1>4 DEF Others
  <2> QED
    BY <1>2, <1>5, <2>1, StillTexts
<1>8. Leaves(mem, after, v, <<>>)
  BY <1>1, <1>4, <1>5, <1>6, <1>7, LeavesLemma
<1>9. Runs(v, after, <<>>)
  BY <1>1 DEF Clear
<1> QED
  BY <1>8, <1>9, RunsLemma

LEMMA AssignVarLemma ==
    ASSUME IInv, NEW v \in Vars, NEW w \in Vars, AssignVar(v, w)
    PROVE  IInv'
<1>1. PICK O, after : O = Holders(mem) /\ after = AssignRef(mem, v, mem.refs[w])
  OBVIOUS
<1>2. v # w /\ Runs(v, after, vals[w])
  BY <1>1 DEF AssignVar
<1>3. Good(mem, O) /\ v \in O /\ w \in O /\ TextAt(mem, w) = vals[w]
  BY <1>1, FoundLemma
<1>4. Assigned(mem, after, O, v, w)
  BY <1>1, <1>2, <1>3, AssignLemma
<1>5. Leaves(mem, after, v, vals[w])
  BY <1>1, <1>3, <1>4, LeavesLemma DEF Assigned, Still
<1> QED
  BY <1>2, <1>5, RunsLemma

\* A string constant is in range.
LEMMA LiteralLemma ==
    ASSUME NEW text \in Literals
    PROVE  text \in Seq(Nat) /\ Len(text) \in Nat \ {0} /\ text # <<>>
<1>1. text \in Seq(1 .. 9) /\ text # <<>>
  BY StringsAssumption
<1>2. 1 .. 9 \subseteq Nat
  OBVIOUS
<1> QED
  BY <1>1, <1>2

LEMMA RoomLemma ==
    ASSUME IInv, NEW k \in Nat, Room(k), NEW O, O = Holders(mem)
    PROVE  HasFree(mem) /\ (k > 0 => NextTemp(mem) \in Slots \ O)
<1>1. HasFree(mem)
  <2>1. PICK p \in Ptrs : ~Live(mem, p)
    BY DEF Room
  <2>2. mem.blocks[p].refs \in Nat
    BY FoundLemma, GoodLemma
  <2> QED
    BY <2>1, <2>2 DEF Live, HasFree
<1>2. ASSUME k > 0 PROVE NextTemp(mem) \in Slots \ O
  <2>1. mem.temps \in Nat /\ mem.temps + k <= MaxTemps /\ mem.pushed \subseteq 1 .. mem.temps /\ MaxTemps \in Nat
    BY StringsAssumption DEF IInv, Room
  <2>2. mem.temps + 1 \in 1 .. MaxTemps /\ mem.temps + 1 \notin mem.pushed /\ mem.temps + 1 \in Nat
    BY <1>2, <2>1
  <2>3. mem.temps + 1 \notin Vars
    BY <2>2, StringsAssumption
  <2> QED
    BY <2>2, <2>3 DEF NextTemp, Holders, Slots, Temps
<1> QED
  BY <1>1, <1>2

LEMMA AssignConstLemma ==
    ASSUME IInv, NEW v \in Vars, NEW text \in Literals, AssignConst(v, text)
    PROVE  IInv'
<1>1. PICK O, d, a, after : /\ O = Holders(mem) /\ d = DerefSlot(mem, v)
                            /\ a = AllocRef(d, v, Len(text)) /\ after = WriteText(a, v, 0, text)
  OBVIOUS
<1>2. Room(0) /\ Runs(v, after, text)
  BY <1>1 DEF AssignConst
<1>3. Good(mem, O) /\ v \in O /\ O \subseteq Slots
  BY <1>1, FoundLemma DEF Good
<1>4. HasFree(mem)
  BY <1>1, <1>2, RoomLemma
<1>5. text \in Seq(Nat) /\ Len(text) \in Nat \ {0}
  BY LiteralLemma
<1>6. Good(d, O \ {v}) /\ d.refs = mem.refs /\ Still(mem, d) /\ HasFree(d)
  BY <1>1, <1>3, <1>4, DropLemma DEF Frees, HasFree
<1>7. v \in Slots \ (O \ {v}) /\ (O \ {v}) \cup {v} = O
  BY <1>3
<1>8. Allocated(d, a, O \ {v}, v, Len(text))
  BY <1>1, <1>5, <1>6, <1>7, AllocLemma
<1>9. /\ Good(a, O) /\ a.temps = d.temps /\ a.pushed = d.pushed /\ Others(d, a, v)
      /\ a.refs[v].size = Len(text) /\ a.blocks[a.refs[v].heap].refs = 1
      /\ \A t \in O \ {v} : Text(a, d.refs[t]) = Text(d, d.refs[t])
  BY <1>7, <1>8 DEF Allocated
<1>10. Overwrites(a, after, O, v, 0, text) /\ TextAt(after, v) = text
  <2>1. PICK old : old = <<>>
    OBVIOUS
  <2>2. old \in Seq(Nat) /\ Len(old) = 0 /\ Len(old) + Len(text) = a.refs[v].size /\ a.refs[v].size > 0
    BY <1>5, <1>9, <2>1
  <2>3. \A i \in 1 .. Len(old) : TextAt(a, v)[i] = old[i]
    BY <2>2
  <2>4. old \o text = text
    BY <1>5, <2>1
  <2>5. v \in O /\ Good(a, O) /\ a.refs[v].size > 0 /\ a.blocks[a.refs[v].heap].refs = 1
    BY <1>3, <1>9, <2>2
  <2>6. Len(old) + Len(text) = a.refs[v].size /\ old \in Seq(Nat) /\ text \in Seq(Nat)
    BY <1>5, <2>2
  <2>7. /\ Overwrites(a, WriteText(a, v, Len(old), text), O, v, Len(old), text)
        /\ TextAt(WriteText(a, v, Len(old), text), v) = old \o text
    BY <2>3, <2>5, <2>6, WriteEndLemma
  <2> QED
    BY <1>1, <2>2, <2>4, <2>7
<1>11. Good(after, O) /\ after.temps = mem.temps /\ after.pushed = mem.pushed
  BY <1>6, <1>9, <1>10 DEF Overwrites, Still
<1>12. ASSUME NEW w \in O \ {v} PROVE TextAt(after, w) = TextAt(mem, w)
  <2>1. TextAt(after, w) = TextAt(a, w)
    BY <1>10 DEF Overwrites
  <2>2. a.refs[w] = d.refs[w]
    BY <1>3, <1>9 DEF Others
  <2>3. TextAt(a, w) = TextAt(d, w)
    BY <1>9, <2>2 DEF TextAt
  <2>4. TextAt(d, w) = TextAt(mem, w)
    BY <1>3, <1>6, StillTexts
  <2> QED
    BY <2>1, <2>3, <2>4
<1>13. Leaves(mem, after, v, text)
  BY <1>1, <1>10, <1>11, <1>12, LeavesLemma
<1> QED
  BY <1>2, <1>13, RunsLemma
LEMMA AssignSliceLemma ==
    ASSUME IInv, HaveAlloc => ~KeepSlices, NEW v \in Vars, NEW w \in Vars,
           NEW first \in Nat, NEW size \in Nat, AssignSlice(v, w, first, size)
    PROVE  IInv'
<1>1. PICK O, m, t, text : /\ O = Holders(mem) /\ m = SliceExp(mem, mem.refs[w], first, size)
                           /\ t = NextTemp(mem) /\ text = SubSeq(vals[w], first + 1, first + size)
  OBVIOUS
<1>2. /\ ~HaveAlloc /\ Room(1) /\ first + size <= Len(vals[w])
      /\ Runs(v, AssignRef(m, v, m.refs[m.temps]), text)
  BY <1>1 DEF AssignSlice
<1>3. /\ Good(mem, O) /\ w \in O /\ TextAt(mem, w) = vals[w] /\ Len(vals[w]) = mem.refs[w].size
  BY <1>1, FoundLemma
<1>4. t \in Slots \ O
  BY <1>1, <1>2, RoomLemma
<1>5. Made(mem, m, O, t, text)
  BY <1>1, <1>2, <1>3, <1>4, SliceLemma
<1>6. mem.pushed \subseteq 1 .. t
  BY <1>1 DEF IInv, NextTemp
<1>7. Leaves(mem, AssignRef(m, v, m.refs[m.temps]), v, text)
  BY <1>1, <1>3, <1>4, <1>5, <1>6, MadeLemma
<1> QED
  BY <1>2, <1>7, RunsLemma

LEMMA AssignAddLemma ==
    ASSUME IInv, ~BothEmpty, NEW v \in Vars, NEW w \in Vars, NEW text \in Seq(Nat), AssignAdd(v, w, text)
    PROVE  IInv'
<1>1. PICK O, m, t : /\ O = Holders(mem) /\ m = AddExp(mem, vals[w], text) /\ t = NextTemp(mem)
  OBVIOUS
<1>2. Good(mem, O) /\ w \in O /\ Value(w) = vals[w] /\ vals[w] \in Seq(Nat)
  BY <1>1, FoundLemma DEF Value, TextAt
<1>3. /\ Room(1) /\ Len(vals[w]) + Len(text) \in 1 .. MaxLen
      /\ Runs(v, AssignRef(m, v, m.refs[m.temps]), vals[w] \o text)
  BY <1>1, <1>2 DEF AssignAdd
<1>4. t \in Slots \ O /\ HasFree(mem)
  BY <1>1, <1>3, RoomLemma
<1>5. Len(vals[w]) + Len(text) > 0
  BY <1>2, <1>3, StringsAssumption
<1>6. Made(mem, m, O, t, vals[w] \o text)
  BY <1>1, <1>2, <1>4, <1>5, AddLemma
<1>7. mem.pushed \subseteq 1 .. t
  BY <1>1 DEF IInv, NextTemp
<1>8. Leaves(mem, AssignRef(m, v, m.refs[m.temps]), v, vals[w] \o text)
  BY <1>1, <1>2, <1>4, <1>6, <1>7, MadeLemma
<1> QED
  BY <1>3, <1>8, RunsLemma

\* w may be v: its text is read where it was.
LEMMA AddEqLemma ==
    ASSUME IInv, ~BothEmpty, NEW v \in Vars, NEW w \in Vars, AddEq(v, w)
    PROVE  IInv'
<1>1. PICK O, n, g, after, text :
          /\ O = Holders(mem) /\ n = mem.refs[w].size /\ g = Grow(mem, v, n, n)
          /\ text = Text(g, mem.refs[w]) /\ after = WriteText(g, v, mem.refs[v].size, text)
  OBVIOUS
<1>2. /\ Room(0) /\ Len(vals[v]) + Len(vals[w]) \in 1 .. MaxLen
      /\ Runs(v, after, vals[v] \o vals[w])
  BY <1>1 DEF AddEq
<1>3. /\ Good(mem, O) /\ v \in O /\ w \in O /\ TextAt(mem, v) = vals[v] /\ TextAt(mem, w) = vals[w]
      /\ vals[v] \in Seq(Nat) /\ vals[w] \in Seq(Nat)
      /\ Len(vals[v]) = mem.refs[v].size /\ Len(vals[w]) = mem.refs[w].size
  BY <1>1, FoundLemma
<1>4. HasFree(mem)
  BY <1>1, <1>2, RoomLemma
<1>5. n \in Nat /\ mem.refs[v].size + n > 0
  BY <1>1, <1>2, <1>3, StringsAssumption
<1>6. Grown(mem, g, O, v, mem.refs[v].size + n)
  BY <1>1, <1>3, <1>4, <1>5, GrowLemma
<1>7. /\ Good(g, O) /\ g.temps = mem.temps /\ g.pushed = mem.pushed /\ Others(mem, g, v)
      /\ g.refs[v].size = mem.refs[v].size + n /\ g.blocks[g.refs[v].heap].refs = 1
      /\ \A t \in O : Text(g, mem.refs[t]) = Text(mem, mem.refs[t])
      /\ \A i \in 1 .. mem.refs[v].size : TextAt(g, v)[i] = TextAt(mem, v)[i]
  BY <1>6 DEF Grown
<1>8. text = vals[w]
  BY <1>1, <1>3, <1>7 DEF TextAt
<1>9. /\ Overwrites(g, after, O, v, Len(vals[v]), text)
      /\ TextAt(after, v) = vals[v] \o vals[w]
  <2>1. PICK old : old = vals[v]
    OBVIOUS
  <2>2. /\ g.refs[v].size > 0 /\ g.blocks[g.refs[v].heap].refs = 1 /\ Good(g, O) /\ v \in O
        /\ old \in Seq(Nat) /\ text \in Seq(Nat) /\ Len(old) + Len(text) = g.refs[v].size
    BY <1>1, <1>3, <1>5, <1>7, <1>8, <2>1
  <2>3. \A i \in 1 .. Len(old) : TextAt(g, v)[i] = old[i]
    BY <1>3, <1>7, <2>1
  <2>4. /\ Overwrites(g, WriteText(g, v, Len(old), text), O, v, Len(old), text)
        /\ TextAt(WriteText(g, v, Len(old), text), v) = old \o text
    BY <2>2, <2>3, WriteEndLemma
  <2>5. after = WriteText(g, v, Len(old), text)
    BY <1>1, <1>3, <2>1
  <2> QED
    BY <1>8, <2>1, <2>4, <2>5
<1>10. Good(after, O) /\ after.temps = mem.temps /\ after.pushed = mem.pushed
  BY <1>7, <1>9 DEF Overwrites
<1>11. ASSUME NEW x \in O \ {v} PROVE TextAt(after, x) = TextAt(mem, x)
  <2>1. TextAt(after, x) = TextAt(g, x)
    BY <1>9 DEF Overwrites
  <2>2. g.refs[x] = mem.refs[x]
    BY <1>3, <1>7 DEF Others, Good
  <2> QED
    BY <1>7, <2>1, <2>2 DEF TextAt
<1>12. Leaves(mem, after, v, vals[v] \o vals[w])
  BY <1>1, <1>9, <1>10, <1>11, LeavesLemma
<1> QED
  BY <1>2, <1>12, RunsLemma
LEMMA MinLemma ==
    ASSUME NEW a \in Int, NEW b \in Int
    PROVE  Min({a, b}) \in Int /\ Min({a, b}) <= a /\ Min({a, b}) <= b
<1>1. \E x \in {a, b} : \A y \in {a, b} : x =< y
  <2>1. CASE a <= b
    <3>1. \A y \in {a, b} : a =< y
      BY <2>1
    <3> QED
      BY <3>1
  <2>2. CASE ~(a <= b)
    <3>1. \A y \in {a, b} : b =< y
      BY <2>2
    <3> QED
      BY <3>1
  <2> QED
    BY <2>1, <2>2
<1>2. Min({a, b}) \in {a, b} /\ \A y \in {a, b} : Min({a, b}) =< y
  BY <1>1 DEF Min
<1> QED
  BY <1>2

LEMMA OverwriteLemma ==
    ASSUME IInv, NEW v \in Vars, NEW w \in Vars, NEW first \in Nat, Overwrite(v, first, w)
    PROVE  IInv'
<1>1. PICK O, n, text, c, after, value :
          /\ O = Holders(mem) /\ n = Min({Len(vals[w]), Len(vals[v]) - first})
          /\ text = SubSeq(vals[w], 1, n) /\ c = CopyOnWrite(mem, v) /\ after = WriteText(c, v, first, text)
          /\ value = [i \in DOMAIN vals[v] |->
                        IF i - first \in 1 .. n THEN vals[w][i - first] ELSE vals[v][i]]
  OBVIOUS
<1>2. /\ Good(mem, O) /\ v \in O /\ w \in O /\ TextAt(mem, v) = vals[v] /\ TextAt(mem, w) = vals[w]
      /\ vals[v] \in Seq(Nat) /\ vals[w] \in Seq(Nat) /\ mem.refs[v].size \in Nat
      /\ Len(vals[v]) = mem.refs[v].size /\ Len(vals[w]) = mem.refs[w].size
  BY <1>1, FoundLemma
<1>3. Value(w) = vals[w]
  BY <1>2 DEF Value, TextAt
<1>4. Room(0) /\ n > 0 /\ Runs(v, after, value)
  BY <1>1, <1>3 DEF Overwrite
<1>5. HasFree(mem)
  BY <1>1, <1>4, RoomLemma
<1>6. n \in Nat /\ n <= Len(vals[w]) /\ n <= Len(vals[v]) - first
  <2>1. PICK a, b : a = Len(vals[w]) /\ b = Len(vals[v]) - first
    OBVIOUS
  <2>2. a \in Int /\ b \in Int /\ n = Min({a, b})
    BY <1>1, <1>2, <2>1
  <2>3. n \in Int /\ n <= a /\ n <= b
    BY <2>2, MinLemma
  <2> QED
    BY <1>4, <2>1, <2>3
<1>7. text \in Seq(Nat) /\ Len(text) = n /\ \A i \in 1 .. n : text[i] = vals[w][i]
  <2>1. PICK s : s = vals[w]
    OBVIOUS
  <2>2. s \in Seq(Nat) /\ n <= Len(s) /\ text = SubSeq(s, 1, n)
    BY <1>1, <1>2, <1>6, <2>1
  <2>3. text \in Seq(Nat) /\ Len(text) = n /\ \A i \in 1 .. n : text[i] = s[i]
    BY <1>6, <2>2
  <2> QED
    BY <2>1, <2>3
<1>8. mem.refs[v].size > 0 /\ first + n <= mem.refs[v].size
  BY <1>2, <1>4, <1>6
<1>9. Grown(mem, c, O, v, mem.refs[v].size)
  BY <1>1, <1>2, <1>5, <1>8, CopyOnWriteLemma
<1>10. /\ Good(c, O) /\ c.temps = mem.temps /\ c.pushed = mem.pushed /\ Others(mem, c, v)
       /\ c.refs[v].size = mem.refs[v].size /\ c.blocks[c.refs[v].heap].refs = 1
       /\ \A t \in O : Text(c, mem.refs[t]) = Text(mem, mem.refs[t])
       /\ \A i \in 1 .. mem.refs[v].size : TextAt(c, v)[i] = TextAt(mem, v)[i]
  BY <1>9 DEF Grown
<1>11. Overwrites(c, after, O, v, first, text)
  <2>1. c.refs[v].size > 0 /\ first + Len(text) <= c.refs[v].size
    BY <1>7, <1>8, <1>10
  <2> QED
    BY <1>1, <1>2, <1>7, <1>10, <2>1, WriteLemma
<1>12. Good(after, O) /\ after.temps = mem.temps /\ after.pushed = mem.pushed /\ after.refs[v].size = Len(vals[v])
  BY <1>2, <1>10, <1>11 DEF Overwrites
<1>13. TextAt(after, v) = value
  <2>1. TextAt(after, v) \in Seq(Nat) /\ Len(TextAt(after, v)) = Len(vals[v])
    BY <1>2, <1>12, TextType
  <2>2. DOMAIN vals[v] = 1 .. Len(vals[v])
    BY <1>2
  <2>3. ASSUME NEW i \in 1 .. Len(vals[v]) PROVE TextAt(after, v)[i] = value[i]
    <3>1. TextAt(after, v)[i] = IF i - first \in 1 .. Len(text) THEN text[i - first] ELSE TextAt(c, v)[i]
      BY <1>2, <1>10, <1>11 DEF Overwrites
    <3>2. TextAt(c, v)[i] = vals[v][i]
      BY <1>2, <1>10
    <3>3. value[i] = IF i - first \in 1 .. n THEN vals[w][i - first] ELSE vals[v][i]
      BY <1>1, <2>2
    <3> QED
      BY <1>7, <3>1, <3>2, <3>3
  <2>4. value = [i \in 1 .. Len(vals[v]) |-> value[i]]
    BY <1>1, <2>2
  <2>5. TextAt(after, v) = [i \in 1 .. Len(vals[v]) |-> TextAt(after, v)[i]]
    BY <2>1
  <2> QED
    BY <2>3, <2>4, <2>5
<1>14. ASSUME NEW x \in O \ {v} PROVE TextAt(after, x) = TextAt(mem, x)
  <2>1. TextAt(after, x) = TextAt(c, x)
    BY <1>11 DEF Overwrites
  <2>2. c.refs[x] = mem.refs[x]
    BY <1>2, <1>10 DEF Others, Good
  <2> QED
    BY <1>10, <2>1, <2>2 DEF TextAt
<1>15. Leaves(mem, after, v, value)
  BY <1>1, <1>12, <1>13, <1>14, LeavesLemma
<1> QED
  BY <1>4, <1>15, RunsLemma
-----------------------------------------------------------------------------
(* The end of a block of statements *)

\* What releasing the last n temporaries but one makes of the memory x.
ReleaseStep(m, n, x) ==
    IF m.temps + 1 - n \in m.pushed THEN DerefSlot(x, m.temps + 1 - n) ELSE x

Releases(m, f, k) ==
    f = [n \in 0 .. k |-> IF n = 0 THEN m ELSE ReleaseStep(m, n, f[n - 1])]

\* The recursive function of ReleaseTemps exists.
LEMMA ReleasesExist ==
    ASSUME NEW m, NEW N \in Nat
    PROVE  \E f : Releases(m, f, N)
<1> DEFINE T == {k \in 0 .. N : \E f : Releases(m, f, k)}
<1>1. 0 \in T
  <2>1. PICK f : f = [n \in 0 .. 0 |-> m]
    OBVIOUS
  <2>2. \A n \in 0 .. 0 : n = 0
    OBVIOUS
  <2>3. f = [n \in 0 .. 0 |-> IF n = 0 THEN m ELSE ReleaseStep(m, n, f[n - 1])]
    BY <2>1, <2>2
  <2> QED
    BY <2>3 DEF Releases
<1>2. ASSUME NEW k \in 0 .. N - 1, k \in T PROVE k + 1 \in T
  <2>1. PICK f : Releases(m, f, k)
    BY <1>2
  <2>2. PICK g : g = [n \in 0 .. k + 1 |-> IF n = k + 1 THEN ReleaseStep(m, n, f[k]) ELSE f[n]]
    OBVIOUS
  <2>3. ASSUME NEW n \in 0 .. k + 1
        PROVE  g[n] = IF n = 0 THEN m ELSE ReleaseStep(m, n, g[n - 1])
    <3>1. CASE n = k + 1
      <4>1. n # 0 /\ n - 1 = k /\ k \in 0 .. k + 1 /\ k # k + 1
        BY <3>1
      <4>2. g[n] = ReleaseStep(m, n, f[k]) /\ g[n - 1] = f[k]
        BY <2>2, <3>1, <4>1
      <4> QED
        BY <4>1, <4>2
    <3>2. CASE n # k + 1
      <4>1. n \in 0 .. k /\ g[n] = f[n]
        BY <2>2, <3>2
      <4>2. f[n] = IF n = 0 THEN m ELSE ReleaseStep(m, n, f[n - 1])
        BY <2>1, <4>1 DEF Releases
      <4>3. CASE n = 0
        BY <4>1, <4>2, <4>3
      <4>4. CASE n # 0
        <5>1. n - 1 \in 0 .. k + 1 /\ n - 1 # k + 1
          BY <4>1, <4>4
        <5>2. g[n - 1] = f[n - 1]
          BY <2>2, <5>1
        <5> QED
          BY <4>1, <4>2, <4>4, <5>2
      <4> QED
        BY <4>3, <4>4
    <3> QED
      BY <3>1, <3>2
  <2>4. g = [n \in 0 .. k + 1 |-> IF n = 0 THEN m ELSE ReleaseStep(m, n, g[n - 1])]
    BY <2>2, <2>3
  <2>5. k + 1 \in 0 .. N
    OBVIOUS
  <2> QED
    BY <2>4, <2>5 DEF Releases
<1> HIDE DEF T
<1>3. \A i \in 0 .. N : i \in T
  BY <1>1, <1>2, InductionUpTo
<1>4. N \in 0 .. N
  OBVIOUS
<1> QED
  BY <1>3, <1>4 DEF T

LEMMA ReleaseTempsLemma ==
    ASSUME NEW m, NEW N \in Nat, m.temps = N
    PROVE  \E f : Releases(m, f, N) /\ ReleaseTemps(m) = f[N]
<1> DEFINE R == CHOOSE f : f = [n \in 0 .. N |-> IF n = 0 THEN m ELSE ReleaseStep(m, n, f[n - 1])]
<1>1. \E f : f = [n \in 0 .. N |-> IF n = 0 THEN m ELSE ReleaseStep(m, n, f[n - 1])]
  <2>1. PICK f : Releases(m, f, N)
    BY ReleasesExist
  <2>2. f = [n \in 0 .. N |-> IF n = 0 THEN m ELSE ReleaseStep(m, n, f[n - 1])]
    BY <2>1 DEF Releases
  <2> HIDE DEF R
  <2> QED
    BY <2>2, Zenon
<1>2. R = [n \in 0 .. N |-> IF n = 0 THEN m ELSE ReleaseStep(m, n, R[n - 1])]
  BY <1>1
<1>3. ReleaseTemps(m) = R[N]
  BY DEF ReleaseTemps, ReleaseStep
<1> HIDE DEF R
<1> QED
  BY <1>2, <1>3 DEF Releases
\* After n steps the last n temporaries own nothing.
LEMMA ReleasedLemma ==
    ASSUME IInv, NEW N, N = mem.temps, NEW f, Releases(mem, f, N)
    PROVE  Good(f[N], Vars) /\ f[N].refs = mem.refs /\ Still(mem, f[N])
<1> DEFINE O == Holders(mem)
           T == {n \in 0 .. N : /\ Good(f[n], O \ (N + 1 - n .. N))
                                /\ f[n].refs = mem.refs /\ Still(mem, f[n])}
<1>1. N \in Nat /\ mem.pushed \subseteq 1 .. N /\ Good(mem, O)
  BY StringsAssumption DEF IInv
<1>2. \A n \in 0 .. N : f[n] = IF n = 0 THEN mem ELSE ReleaseStep(mem, n, f[n - 1])
  BY DEF Releases
<1> HIDE DEF O
<1>3. 0 \in T
  <2>1. 0 \in 0 .. N /\ f[0] = mem
    BY <1>1, <1>2
  <2>2. O \ (N + 1 - 0 .. N) = O
    BY <1>1
  <2>3. Still(mem, mem)
    BY DEF Still
  <2> QED
    BY <1>1, <2>1, <2>2, <2>3
<1>4. ASSUME NEW n \in 0 .. N - 1, n \in T PROVE n + 1 \in T
  <2>1. PICK k, P, Q, t, x, y : /\ k = n + 1 /\ P = O \ (N + 1 - n .. N) /\ Q = O \ (N + 1 - k .. N)
                                /\ t = N + 1 - k /\ x = f[n] /\ y = f[k]
    OBVIOUS
  <2>2. Good(x, P) /\ x.refs = mem.refs /\ Still(mem, x)
    BY <1>4, <2>1
  <2>3. k \in 0 .. N /\ k # 0 /\ k - 1 = n /\ t \in Nat
    BY <1>1, <2>1
  <2>4. y = IF t \in mem.pushed THEN DerefSlot(x, t) ELSE x
    BY <1>2, <2>1, <2>3 DEF ReleaseStep
  <2>5. Q = P \ {t} /\ (t \in O => t \in P)
    <3>1. (N + 1 - k .. N) = (N + 1 - n .. N) \cup {t} /\ t \notin (N + 1 - n .. N)
      BY <1>1, <2>1, <2>3
    <3> QED
      BY <2>1, <3>1
  <2>6. Good(y, Q) /\ y.refs = mem.refs /\ Still(mem, y)
    <3>1. CASE t \in mem.pushed
      <4>1. t \in P /\ y = DerefSlot(x, t)
        BY <2>4, <2>5, <3>1 DEF Holders, O
      <4>2. Good(y, Q) /\ y.refs = x.refs /\ Still(x, y)
        BY <2>2, <2>5, <4>1, DropLemma
      <4> QED
        BY <2>2, <4>2 DEF Still
    <3>2. CASE t \notin mem.pushed
      <4>1. t \notin P
        BY <2>1, <2>3, <3>2, StringsAssumption DEF Holders, O
      <4>2. Q = P /\ y = x
        BY <2>4, <2>5, <3>2, <4>1
      <4> QED
        BY <2>2, <4>2
    <3> QED
      BY <3>1, <3>2
  <2> QED
    BY <2>1, <2>3, <2>6
<1> HIDE DEF T
<1>5. \A n \in 0 .. N : n \in T
  BY <1>1, <1>3, <1>4, InductionUpTo
<1>6. Good(f[N], O \ (N + 1 - N .. N)) /\ f[N].refs = mem.refs /\ Still(mem, f[N])
  <2>1. N \in T
    BY <1>1, <1>5
  <2> QED
    BY <2>1, Zenon DEF T
<1>7. O \ (N + 1 - N .. N) = Vars
  <2>1. (N + 1 - N .. N) = 1 .. N /\ 1 .. N \subseteq Nat
    BY <1>1
  <2>2. Vars \cap (1 .. N) = {}
    BY <2>1, StringsAssumption
  <2> QED
    BY <1>1, <2>1, <2>2 DEF Holders, O
<1> QED
  BY <1>6, <1>7

Forgotten(m) ==
    [m EXCEPT !.temps = 0, !.pushed = {},
              !.refs = [s \in Slots |-> IF s \in Temps THEN Empty ELSE @[s]]]

\* The variables keep their references when the temporaries are forgotten.
LEMMA ForgetLemma ==
    ASSUME NEW m, Good(m, Vars), NEW n, n = Forgotten(m)
    PROVE  /\ Good(n, Vars) /\ n.temps = 0 /\ n.pushed = {} /\ n.blocks = m.blocks
           /\ \A v \in Vars : n.refs[v] = m.refs[v]
<1>1. PICK r : r = [s \in Slots |-> IF s \in Temps THEN Empty ELSE m.refs[s]]
  OBVIOUS
<1>2. m \in Memory /\ Vars \subseteq Slots /\ m.refs \in Refs /\ m.blocks \in Blocks
  BY GoodLemma DEF Good
<1>3. /\ n.temps = 0 /\ n.pushed = {} /\ n.refs = r /\ n.blocks = m.blocks /\ n.fault = m.fault
      /\ n = [m EXCEPT !.temps = 0, !.pushed = {}, !.refs = r]
  BY <1>1, <1>2 DEF Memory, Forgotten
<1>4. Empty \in Reference
  BY DEF Empty, Reference
<1>5. r \in Refs
  BY <1>1, <1>2, <1>4 DEF Refs
<1>6. n \in Memory
  <2>1. PICK nobody, zero : nobody = {} /\ zero = 0
    OBVIOUS
  <2>2. nobody \in SUBSET Nat /\ zero \in Nat
    BY <2>1
  <2>3. n = [m EXCEPT !.temps = zero, !.pushed = nobody, !.refs = r]
    BY <1>3, <2>1
  <2> QED
    BY <1>2, <1>5, <2>2, <2>3 DEF Memory
<1>7. \A v \in Vars : r[v] = m.refs[v]
  <2>1. \A v \in Vars : v \notin Temps
    BY StringsAssumption DEF Temps
  <2> QED
    BY <1>1, <1>2, <2>1
<1>8. Sound(m.blocks, r, Vars)
  <2>1. Sound(m.blocks, m.refs, Vars)
    BY DEF Good
  <2>2. \A p \in Ptrs : Own(r, Vars, p) = Own(m.refs, Vars, p)
    BY <1>7 DEF Own
  <2>3. Counted(m.blocks, r, Vars)
    BY <2>1, <2>2 DEF Sound, Counted
  <2>4. Fit(m.blocks, r, Vars)
    BY <1>7, <2>1 DEF Sound, Fit
  <2> QED
    BY <2>1, <2>3, <2>4 DEF Sound
<1> QED
  BY <1>2, <1>3, <1>6, <1>7, <1>8 DEF Good

LEMMA EndOfBlockLemma ==
    ASSUME IInv, EndOfBlock
    PROVE  IInv'
<1>1. PICK N : N = mem.temps
  OBVIOUS
<1>2. N \in Nat /\ MaxTemps \in Nat
  BY <1>1, StringsAssumption DEF IInv
<1>3. PICK f : Releases(mem, f, N) /\ ReleaseTemps(mem) = f[N]
  BY <1>1, <1>2, ReleaseTempsLemma
<1>4. PICK x, m, n : x = f[N] /\ m = Forgotten(x) /\ n = Scrubbed(m)
  OBVIOUS
<1>5. mem' = n /\ vals' = vals
  BY <1>3, <1>4 DEF EndOfBlock, Forgotten
<1>6. Good(x, Vars) /\ x.refs = mem.refs /\ Still(mem, x)
  BY <1>1, <1>3, <1>4, ReleasedLemma
<1>7. /\ Good(m, Vars) /\ m.temps = 0 /\ m.pushed = {} /\ m.blocks = x.blocks
      /\ \A v \in Vars : m.refs[v] = x.refs[v]
  BY <1>4, <1>6, ForgetLemma
<1>8. Good(n, Vars) /\ n.temps = 0 /\ n.pushed = {} /\ \A v \in Vars : TextAt(n, v) = TextAt(m, v)
  BY <1>4, <1>7, ScrubLemma
<1>9. ASSUME NEW v \in Vars PROVE TextAt(n, v) = vals[v]
  <2>1. TextAt(m, v) = TextAt(x, v)
    BY <1>7 DEF TextAt, Text
  <2>2. TextAt(x, v) = TextAt(mem, v)
    <3>1. PICK O : O = Holders(mem)
      OBVIOUS
    <3>2. Good(mem, O) /\ v \in O /\ x.refs[v] = mem.refs[v]
      BY <1>6, <3>1, FoundLemma
    <3> QED
      BY <1>6, <3>2, StillTexts
  <2> QED
    BY <1>8, <2>1, <2>2 DEF IInv
<1>10. Holders(n) = Vars /\ n.temps \in 0 .. MaxTemps /\ n.pushed \subseteq 1 .. n.temps
  BY <1>2, <1>8 DEF Holders
<1>11. Good(n, Holders(n)) /\ vals' \in [Vars -> Seq(Nat)] /\ \A v \in Vars : TextAt(n, v) = vals'[v]
  BY <1>5, <1>8, <1>9, <1>10 DEF IInv
<1>12. /\ Good(mem', Holders(mem')) /\ mem'.temps \in 0 .. MaxTemps /\ mem'.pushed \subseteq 1 .. mem'.temps
       /\ vals' \in [Vars -> Seq(Nat)] /\ \A v \in Vars : TextAt(mem', v) = vals'[v]
  BY <1>5, <1>10, <1>11
<1> QED
  BY <1>12 DEF IInv, TextAt, Text, Good, Holders
-----------------------------------------------------------------------------
(* Strings are values *)

(***************************************************************************)
(* A slice or an empty variable as the first operand of + is resized       *)
(* without asking whether it shares its block or has one, and the REALLOC  *)
(* of the interpreter moves the whole block of a slice that was assigned:  *)
(* the run strings_slice_first and the README say what goes wrong there.   *)
(* Everything else a program can do to its strings is covered.             *)
(***************************************************************************)
Supported == ~SliceFirst /\ ~BothEmpty /\ (HaveAlloc => ~KeepSlices)

LEMMA NextLemma ==
    ASSUME Supported, IInv, [Next]_vars
    PROVE  IInv'
<1>1. ~SliceFirst /\ ~BothEmpty /\ (HaveAlloc => ~KeepSlices)
  BY DEF Supported
<1>2. CASE UNCHANGED vars
  BY <1>2 DEF vars, IInv, Good, Holders, TextAt, Text
<1>3. ASSUME NEW v \in Vars, Clear(v) PROVE IInv'
  BY <1>3, ClearLemma
<1>4. ASSUME NEW v \in Vars, NEW text \in Literals, AssignConst(v, text) PROVE IInv'
  BY <1>4, AssignConstLemma
<1>5. ASSUME NEW v \in Vars, NEW w \in Vars, AssignVar(v, w) PROVE IInv'
  BY <1>5, AssignVarLemma
<1>6. ASSUME NEW v \in Vars, NEW w \in Vars, NEW first \in 0 .. MaxLen, NEW size \in 0 .. MaxLen,
             AssignSlice(v, w, first, size)
      PROVE  IInv'
  BY <1>1, <1>6, AssignSliceLemma
<1>7. ASSUME NEW v \in Vars, NEW w \in Vars, NEW x \in Vars, AssignAdd(v, w, vals[x]) PROVE IInv'
  <2>1. vals[x] \in Seq(Nat)
    BY FoundLemma
  <2> QED
    BY <1>1, <1>7, <2>1, AssignAddLemma
<1>8. ASSUME NEW v \in Vars, NEW w \in Vars, NEW text \in Literals, AssignAdd(v, w, text) PROVE IInv'
  <2>1. text \in Seq(Nat)
    BY LiteralLemma
  <2> QED
    BY <1>1, <1>8, <2>1, AssignAddLemma
<1>9. ASSUME NEW v \in Vars, NEW w \in Vars, NEW size \in 0 .. MaxLen, NEW text \in Literals,
             AssignSliceAdd(v, w, size, text)
      PROVE  IInv'
  BY <1>1, <1>9 DEF AssignSliceAdd
<1>10. ASSUME NEW v \in Vars, NEW w \in Vars, AddEq(v, w) PROVE IInv'
  BY <1>1, <1>10, AddEqLemma
<1>11. ASSUME NEW v \in Vars, NEW w \in Vars, NEW first \in 0 .. MaxLen - 1, Overwrite(v, first, w)
       PROVE  IInv'
  BY <1>11, OverwriteLemma
<1>12. ASSUME EndOfBlock PROVE IInv'
  BY <1>12, EndOfBlockLemma
<1> QED
  BY <1>2, <1>3, <1>4, <1>5, <1>6, <1>7, <1>8, <1>9, <1>10, <1>11, <1>12 DEF Next

LEMMA InvariantLemma ==
    ASSUME Supported
    PROVE  Spec => []IInv
<1>1. Init => IInv
  BY InitialLemma
<1>2. IInv /\ [Next]_vars => IInv'
  BY NextLemma
<1> QED
  BY <1>1, <1>2, PTL DEF Spec

\* Strings are values: what a variable holds is what was assigned to it, whatever
\* happened to the strings it shares a block with.
THEOREM StringsAreValues ==
    ASSUME Supported
    PROVE  Spec => []ValueSemantics
<1>1. IInv => ValueSemantics
  BY DEF IInv, ValueSemantics, TextAt
<1> QED
  BY <1>1, InvariantLemma, PTL

\* The count of a block is the number of variables and temporaries that refer to it:
\* no block is released early, and none is left over.
THEOREM BlocksAreCounted ==
    ASSUME Supported
    PROVE  Spec => []CountsMatchReferences
<1>1. IInv => CountsMatchReferences
  <2> SUFFICES ASSUME IInv, NEW p \in Ptrs PROVE mem.blocks[p].refs = Cardinality(Owners(p))
    BY DEF CountsMatchReferences
  <2>1. Owners(p) = Own(mem.refs, Holders(mem), p)
    BY DEF Owners, Own, Holders
  <2> QED
    BY <2>1 DEF IInv, Good, Sound, Counted
<1> QED
  BY <1>1, InvariantLemma, PTL

\* No instruction is given a pointer that is no block, no copy writes past the end
\* of one, and what a string appends to its block lies in it, after the last
\* character anybody refers to.
THEOREM MemoryIsSafe ==
    ASSUME Supported
    PROVE  Spec => []MemorySafe
<1>1. IInv => MemorySafe
  <2> SUFFICES ASSUME IInv PROVE TypeOK /\ NoFault /\ FreeSpaceIsFree
    BY DEF MemorySafe
  <2>1. PICK O : O = Holders(mem)
    OBVIOUS
  <2>2. mem.fault = "none" /\ Fit(mem.blocks, mem.refs, O) /\ InBlocks(mem.blocks) /\ Good(mem, O)
    BY <2>1 DEF IInv, Good, Sound
  <2>3. mem.refs \in [Slots -> Ref]
    BY <2>2, GoodLemma DEF Refs, Reference, Ref
  <2>4. \A p \in Ptrs : Live(mem, p) => mem.blocks[p].used \in 0 .. Len(mem.blocks[p].data)
    <3> SUFFICES ASSUME NEW p \in Ptrs, Live(mem, p)
                 PROVE  mem.blocks[p].used \in 0 .. Len(mem.blocks[p].data)
      OBVIOUS
    <3>1. mem.blocks[p].used \in Nat /\ mem.blocks[p].data \in Seq(Nat)
      BY <2>2, GoodLemma
    <3>2. mem.blocks[p].used <= Len(mem.blocks[p].data)
      BY <2>2 DEF InBlocks, Live
    <3>3. Len(mem.blocks[p].data) \in Nat
      BY <3>1
    <3> QED
      BY <3>1, <3>2, <3>3
  <2>5. TypeOK
    BY <2>3, <2>4 DEF TypeOK, IInv
  <2>6. NoFault
    BY <2>2 DEF NoFault
  <2>7. FreeSpaceIsFree
    BY <2>1, <2>2 DEF FreeSpaceIsFree, Fit, Fits, Holders
  <2> QED
    BY <2>5, <2>6, <2>7
<1> QED
  BY <1>1, InvariantLemma, PTL

=============================================================================
