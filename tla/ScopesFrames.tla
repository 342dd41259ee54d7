---------------------------- MODULE ScopesFrames ----------------------------
(***************************************************************************)
(* What is true of the frame of a procedure whatever the program did, and  *)
(* the lemmas which say that the operators of Scopes keep it.  Nothing     *)
(* here is about a step: frames, lists and blocks are any values.          *)
(***************************************************************************)
EXTENDS Scopes, ListLemmas

Kind == {"body", "block", "loop", "try", "handler"}

Blk == [kind : Kind, syms : Seq(Slots), start : Nat \ {0}, cond : Slots \cup {0}]

\* The labels whose own handlers are entries of E, and the frames.
Labels(E) ==
    [kind : {"try", "onerror"}, blocks : Seq(Blk), next : Nat \ {0}, handlers : Seq(E)]

Frame(E) ==
    [kind : {"main", "proc", "fn"}, blocks : Seq(Blk), slots : [Slots -> Values],
     next : Nat \ {0}, limit : Slots, entries : Seq(Slots), counter : Nat,
     handlers : Seq(E), inHandler : BOOLEAN]

-----------------------------------------------------------------------------
(* Handlers *)

\* The code of a handler was compiled before the slot x was given out, and the
\* slot an ONERROR sets aside is another one.
Below(e, x) == e.label.next <= x /\ (e.label.kind = "onerror" => e.label.next < x)

\* The entries of E whose code was compiled before the slot x was given out.
EarlierThan(E, x) == {e \in E : Below(e, x)}

\* Block b is the block a at a later place of the text.
Extends(a, b) ==
    /\ b.kind = a.kind /\ b.start = a.start /\ b.cond = a.cond
    /\ Len(a.syms) <= Len(b.syms)
    /\ \A i \in 1 .. Len(a.syms) : b.syms[i] = a.syms[i]

\* The label of an entry was compiled in the blocks it is found in.
Placed(e, blocks) ==
    /\ e.level < Len(blocks)
    /\ \A i \in 1 .. e.level : e.label.blocks[i] = blocks[i]
    /\ IF e.label.kind = "try"
         THEN blocks[e.level + 1].kind = "try"
         ELSE Extends(e.label.blocks[e.level + 1], blocks[e.level + 1])

\* The handlers at a place of the text, with the open blocks and the next slot.
Scope(blocks, list, next) ==
    /\ Len(blocks) >= 1
    /\ \A i, j \in 1 .. Len(list) : i < j => list[i].level > list[j].level
    /\ \A i \in 1 .. Len(list) : Placed(list[i], blocks) /\ Below(list[i], next)
    /\ \A k \in 1 .. Len(blocks) : blocks[k].kind = "try" =>
          /\ \E i \in 1 .. Len(list) : list[i].level = k - 1
          /\ \A i \in 1 .. Len(list) : list[i].level >= k - 1 => list[i].label.kind = "try"
    /\ \A k \in 1 .. Len(blocks) :
          /\ blocks[k].start <= next
          /\ \A j \in 1 .. k : blocks[j].start <= blocks[k].start
          /\ \A i \in 1 .. Len(list) : list[i].level < k - 1 => Below(list[i], blocks[k].start)

\* An entry of the handler list, as it was put there.
SoundEntry(e) ==
    /\ Scope(e.label.blocks, e.label.handlers, e.label.next)
    /\ Len(e.label.blocks) <= MaxLevel + 1
    /\ e.label.kind = "try" => Len(e.label.blocks) = e.level
    /\ e.label.kind = "onerror" =>
          /\ Len(e.label.blocks) = e.level + 1
          /\ e.label.next \in Slots
          /\ \A k \in 1 .. e.level + 1 : e.label.blocks[k].kind \notin {"try", "handler"}

\* A set of entries whose labels have entries of the set.
Closed(E) == E \subseteq [level : Nat, label : Labels(E)] /\ \A e \in E : SoundEntry(e)

-----------------------------------------------------------------------------
(* Frames *)

\* Of every program.
Shaped(f, E) ==
    /\ f \in Frame(E) /\ Closed(E)
    /\ Scope(f.blocks, f.handlers, f.next)
    /\ \A e \in E : Below(e, f.next)
    /\ f.next <= f.limit + 1
    /\ f.counter = Len(f.entries) /\ f.counter <= MaxSlots
    /\ Len(f.blocks) <= MaxLevel + 2
    /\ ~f.inHandler =>
          /\ Len(f.blocks) <= MaxLevel + 1
          /\ \A k \in 1 .. Len(f.blocks) : f.blocks[k].kind # "handler"

(***************************************************************************)
(* Of a sound program: from block base on, which is the procedure's or the *)
(* handler's, the entries of block k follow entry off[k]; live of the      *)
(* innermost block's are left.  The entries before belong to blocks an     *)
(* error has left.                                                         *)
(***************************************************************************)
Segments(f, live, base, off) ==
    /\ live <= Len(Innermost(f).syms)
    /\ f.blocks[base].kind \in {"body", "handler"}
    /\ \A k \in base + 1 .. Len(f.blocks) : f.blocks[k].kind \notin {"body", "handler"}
    /\ \A k \in 1 .. base : f.blocks[k].kind # "try"
    /\ \A k \in base .. Len(f.blocks) - 1 : off[k + 1] = off[k] + Len(f.blocks[k].syms)
    /\ off[Len(f.blocks)] + live = Len(f.entries)
    /\ \A j, k \in base .. Len(f.blocks) : j < k =>
          /\ off[j] <= off[k]
          /\ (\A i \in j .. k - 1 : f.blocks[i].syms = <<>>) => off[j] = off[k]
    /\ \A k \in base .. Len(f.blocks) :
          \A j \in 1 .. IF k = Len(f.blocks) THEN live ELSE Len(f.blocks[k].syms) :
             f.entries[off[k] + j] = f.blocks[k].syms[j]
    /\ \A k \in 1 .. base - 1 : \A j \in 1 .. Len(f.blocks[k].syms) :
          \E i \in 1 .. off[base] : f.entries[i] = f.blocks[k].syms[j]

\* No slot has two entries, and the slots still to be given out, now, in another
\* iteration and in a handler, have none.
Apart(f, E, base, off) ==
    /\ \A i, j \in 1 .. Len(f.entries) : f.entries[i] = f.entries[j] => i = j
    /\ \A i \in 1 .. Len(f.entries) :
          /\ f.next <= f.entries[i] => f.entries[i] > f.limit
          /\ \A k \in base + 1 .. Len(f.blocks) :
                f.blocks[k].start <= f.entries[i] /\ f.entries[i] <= f.limit => i > off[k]
          /\ \A e \in E : e.label.kind = "onerror" => f.entries[i] # e.label.next

Stacked(f, E, live) ==
    /\ \A k \in 1 .. Len(f.blocks) : f.blocks[k].cond = 0
    /\ \A s \in Slots : f.slots[s] # Wild
    /\ \E base \in 1 .. Len(f.blocks), off \in [1 .. Len(f.blocks) -> Nat] :
          Segments(f, live, base, off) /\ Apart(f, E, base, off)

\* A frame of a program that uses the statements u.  With live < 0 its stack is
\* being unwound.
FrameOK(u, f, live) ==
    \E E : Shaped(f, E) /\ (u = {} /\ live >= 0 => Stacked(f, E, live))

-----------------------------------------------------------------------------
(* The handler list *)

LEMMA EntryLemma ==
    ASSUME NEW E, Closed(E), NEW e \in E
    PROVE  /\ e.level \in Nat /\ e.label \in Labels(E) /\ SoundEntry(e)
           /\ e = [level |-> e.level, label |-> e.label]
BY DEF Closed

LEMMA LabelLemma ==
    ASSUME NEW E, NEW l \in Labels(E)
    PROVE  /\ l.kind \in {"try", "onerror"} /\ l.blocks \in Seq(Blk)
           /\ l.next \in Nat \ {0} /\ l.handlers \in Seq(E)
BY DEF Labels

\* The entries of a sorted list above a level are its first ones.
LEMMA TruncateLemma ==
    ASSUME NEW E, Closed(E), NEW list \in Seq(E), NEW level \in Int,
           \A i, j \in 1 .. Len(list) : i < j => list[i].level > list[j].level
    PROVE  \E n \in 0 .. Len(list) :
              /\ HandlerListTruncate(list, level) \in Seq(E)
              /\ Len(HandlerListTruncate(list, level)) = Len(list) - n
              /\ \A i \in 1 .. Len(list) - n :
                    HandlerListTruncate(list, level)[i] = list[i + n]
              /\ \A i \in 1 .. n : list[i].level > level
              /\ \A i \in n + 1 .. Len(list) : list[i].level <= level
<1> DEFINE I == {i \in 1 .. Len(list) : list[i].level <= level}
<1>1. Len(list) \in Nat /\ \A i \in 1 .. Len(list) : list[i] \in E /\ list[i].level \in Nat
  BY LenProperties, ElementOfSeq, EntryLemma
<1>2. CASE I = {}
  <2>1. HandlerListTruncate(list, level) = <<>>
    BY <1>2 DEF HandlerListTruncate, SelectInSeq
  <2>2. \A i \in 1 .. Len(list) : list[i].level > level
    BY <1>1, <1>2
  <2> QED
    BY <1>1, <2>1, <2>2, EmptySeq
<1>3. CASE I # {}
  <2>1. I \in SUBSET Nat
    BY <1>1
  <2>2. PICK m \in 1 .. Len(list) : m = Min(I) /\ list[m].level <= level /\ \A i \in I : m <= i
    <3> HIDE DEF I
    <3>1. Min(I) \in I /\ \A i \in I : Min(I) <= i
      BY <1>3, <2>1, MinNat
    <3> QED
      BY <3>1 DEF I
  <2>3. HandlerListTruncate(list, level) = SubSeq(list, m, Len(list))
    <3>1. m # 0 /\ SelectInSeq(list, LAMBDA h : h.level <= level) = m
      BY <1>3, <2>2 DEF SelectInSeq
    <3> QED
      BY <3>1 DEF HandlerListTruncate
  <2>4. \A i \in m .. Len(list) : list[i] \in E
    BY <1>1
  <2>5. /\ SubSeq(list, m, Len(list)) \in Seq(E)
        /\ Len(SubSeq(list, m, Len(list))) = Len(list) - m + 1
        /\ \A i \in 1 .. Len(list) - m + 1 : SubSeq(list, m, Len(list))[i] = list[m + i - 1]
    BY <1>1, <2>4, SubSeqProperties
  <2>6. \A i \in 1 .. m - 1 : list[i].level > level
    BY <1>1, <2>2
  <2>7. \A i \in m + 1 .. Len(list) : list[i].level < list[m].level
    BY <1>1
  <2>8. \A i \in m .. Len(list) : list[i].level <= level
    BY <1>1, <2>2, <2>7
  <2>9. PICK n \in 0 .. Len(list) : n = m - 1
    BY <1>1
  <2>10. /\ Len(list) - n = Len(list) - m + 1
         /\ \A i \in 1 .. Len(list) - n : SubSeq(list, m, Len(list))[i] = list[i + n]
    BY <1>1, <2>5, <2>9
  <2>11. /\ \A i \in 1 .. n : list[i].level > level
         /\ \A i \in n + 1 .. Len(list) : list[i].level <= level
    BY <1>1, <2>6, <2>8, <2>9
  <2>12. Len(HandlerListTruncate(list, level)) = Len(list) - n
    BY <2>3, <2>5, <2>10
  <2> QED
    BY <2>3, <2>5, <2>10, <2>11, <2>12, Zenon
<1> QED
  BY <1>2, <1>3

\* The list r is list with the entry h at its head, which replaces n entries.
PutFirst(r, h, list, n) ==
    /\ n <= Len(list) /\ Len(r) = Len(list) - n + 1
    /\ r[1] = h
    /\ \A i \in 2 .. Len(r) : r[i] = list[i - 1 + n]
    /\ n = 1 => list[1].level = h.level
    /\ n = 0 => (list = <<>> \/ h.level > list[1].level)

LEMMA UpdateLemma ==
    ASSUME NEW E, Closed(E), NEW list \in Seq(E), NEW level \in Nat, NEW label,
           NEW h \in E, h = [level |-> level, label |-> label],
           list # <<>> => level >= list[1].level
    PROVE  /\ HandlerListUpdate(list, level, label) \in Seq(E)
           /\ \E n \in {0, 1} : PutFirst(HandlerListUpdate(list, level, label), h, list, n)
<1> DEFINE r == HandlerListUpdate(list, level, label)
<1>1. /\ Len(list) \in Nat /\ \A i \in 1 .. Len(list) : list[i] \in E /\ list[i].level \in Nat
      /\ h.level = level
  BY LenProperties, ElementOfSeq, EntryLemma
<1>2. CASE list = <<>> \/ level > list[1].level
  <2>1. r = <<h>> \o list
    BY <1>2 DEF HandlerListUpdate
  <2>2. /\ <<h>> \o list \in Seq(E) /\ Len(<<h>> \o list) = Len(list) + 1
        /\ (<<h>> \o list)[1] = h
        /\ \A j \in 2 .. Len(list) + 1 : (<<h>> \o list)[j] = list[j - 1]
    BY PushLemma
  <2> HIDE DEF r
  <2>3. \A j \in 2 .. Len(r) : r[j] = list[j - 1 + 0]
    BY <1>1, <2>1, <2>2
  <2>4. 0 <= Len(list) /\ Len(r) = Len(list) - 0 + 1
    BY <1>1, <2>1, <2>2
  <2>5. PutFirst(r, h, list, 0)
    BY <1>1, <1>2, <2>1, <2>2, <2>3, <2>4 DEF PutFirst
  <2>6. r \in Seq(E) /\ \E n \in {0, 1} : PutFirst(r, h, list, n)
    BY <2>1, <2>2, <2>5
  <2> QED
    BY <2>6 DEF r
<1>3. CASE ~(list = <<>> \/ level > list[1].level)
  <2>1. 1 \in 1 .. Len(list) /\ list[1].level = level
    BY <1>1, <1>3, EmptySeq
  <2>2. [list[1] EXCEPT !.label = label] = h
    <3>1. list[1] = [level |-> list[1].level, label |-> list[1].label]
      BY <1>1, <2>1, EntryLemma
    <3> QED
      BY <2>1, <3>1
  <2>3. r = [list EXCEPT ![1] = h]
    <3>1. r = [list EXCEPT ![1] = [list[1] EXCEPT !.label = label]]
      BY <1>3 DEF HandlerListUpdate
    <3> QED
      BY <2>2, <3>1
  <2> HIDE DEF r
  <2>4. r \in Seq(E) /\ Len(r) = Len(list) /\ r[1] = h /\ \A i \in 2 .. Len(r) : r[i] = list[i]
    <3>1. /\ [list EXCEPT ![1] = h] \in Seq(E) /\ Len([list EXCEPT ![1] = h]) = Len(list)
          /\ \A j \in 1 .. Len(list) : [list EXCEPT ![1] = h][j] = IF j = 1 THEN h ELSE list[j]
      BY <2>1, ExceptSeq
    <3> QED
      BY <1>1, <2>1, <2>3, <3>1
  <2>5. \A i \in 2 .. Len(r) : r[i] = list[i - 1 + 1]
    BY <1>1, <2>4
  <2>6. 1 <= Len(list) /\ Len(r) = Len(list) - 1 + 1
    BY <1>1, <2>1, <2>4
  <2>7. PutFirst(r, h, list, 1)
    BY <1>1, <2>1, <2>4, <2>5, <2>6 DEF PutFirst
  <2>8. r \in Seq(E) /\ \E n \in {0, 1} : PutFirst(r, h, list, n)
    BY <2>4, <2>7
  <2> QED
    BY <2>8 DEF r
<1> QED
  BY <1>2, <1>3

-----------------------------------------------------------------------------
(* Scopes: blocks are opened and closed, handlers and symbols are added *)

LEMMA BlocksLemma ==
    ASSUME NEW blocks \in Seq(Blk)
    PROVE  /\ Len(blocks) \in Nat /\ DOMAIN blocks = 1 .. Len(blocks)
           /\ \A k \in 1 .. Len(blocks) :
                 /\ blocks[k] \in Blk /\ blocks[k].kind \in Kind
                 /\ blocks[k].syms \in Seq(Slots) /\ Len(blocks[k].syms) \in Nat
                 /\ blocks[k].start \in Nat \ {0} /\ blocks[k].cond \in Slots \cup {0}
<1>1. Len(blocks) \in Nat /\ DOMAIN blocks = 1 .. Len(blocks)
  BY LenProperties
<1>2. \A k \in 1 .. Len(blocks) : blocks[k] \in Blk
  BY ElementOfSeq
<1>3. \A a \in Blk : /\ a.kind \in Kind /\ a.syms \in Seq(Slots)
                     /\ a.start \in Nat \ {0} /\ a.cond \in Slots \cup {0}
  BY DEF Blk
<1>4. \A a \in Blk : Len(a.syms) \in Nat
  BY <1>3, LenProperties
<1> QED
  BY <1>1, <1>2, <1>3, <1>4

LEMMA EntriesLemma ==
    ASSUME NEW E, Closed(E), NEW list \in Seq(E)
    PROVE  /\ Len(list) \in Nat
           /\ \A i \in 1 .. Len(list) :
                 /\ list[i] \in E /\ list[i].level \in Nat /\ SoundEntry(list[i])
                 /\ list[i].label.kind \in {"try", "onerror"}
                 /\ list[i].label.next \in Nat \ {0}
<1>1. Len(list) \in Nat /\ \A i \in 1 .. Len(list) : list[i] \in E
  BY LenProperties, ElementOfSeq
<1>2. \A e \in E : e.level \in Nat /\ SoundEntry(e) /\ e.label \in Labels(E)
  BY EntryLemma
<1>3. \A e \in E : e.label.kind \in {"try", "onerror"} /\ e.label.next \in Nat \ {0}
  BY <1>2, LabelLemma
<1> QED
  BY <1>1, <1>2, <1>3

LEMMA ScopeNext ==
    ASSUME NEW E, Closed(E), NEW blocks \in Seq(Blk), NEW list \in Seq(E),
           NEW next \in Nat, NEW later \in Nat, next <= later, Scope(blocks, list, next)
    PROVE  Scope(blocks, list, later)
<1>1. \A i \in 1 .. Len(list) : Below(list[i], next) => Below(list[i], later)
  BY EntriesLemma DEF Below
<1>2. \A k \in 1 .. Len(blocks) : blocks[k].start <= next => blocks[k].start <= later
  BY BlocksLemma
<1> QED
  BY <1>1, <1>2 DEF Scope

LEMMA ScopeCut ==
    ASSUME NEW E, Closed(E), NEW blocks \in Seq(Blk), Len(blocks) > 1, NEW list \in Seq(E),
           NEW next \in Nat, Scope(blocks, list, next),
           NEW x \in {next, blocks[Len(blocks)].start}
    PROVE  LET b == Front(blocks)
               r == HandlerListTruncate(list, Len(blocks) - 2)
           IN  /\ b \in Seq(Blk) /\ Len(b) = Len(blocks) - 1
               /\ \A k \in 1 .. Len(blocks) - 1 : b[k] = blocks[k]
               /\ r \in Seq(E) /\ Scope(b, r, x)
<1> DEFINE b == Front(blocks)
           r == HandlerListTruncate(list, Len(blocks) - 2)
<1>1. /\ Len(blocks) \in Nat
      /\ \A k \in 1 .. Len(blocks) : blocks[k] \in Blk /\ blocks[k].start \in Nat
  BY BlocksLemma
<1>2. /\ Len(list) \in Nat
      /\ \A i \in 1 .. Len(list) : list[i] \in E /\ list[i].level \in Nat
  BY EntriesLemma
<1>3. /\ b \in Seq(Blk) /\ Len(b) = Len(blocks) - 1
      /\ \A k \in 1 .. Len(blocks) - 1 : b[k] = blocks[k]
  BY <1>1, EmptySeq, FrontLemma
<1>4. Len(blocks) - 2 \in Int
  BY <1>1
<1>5. PICK n \in 0 .. Len(list) :
         /\ r \in Seq(E) /\ Len(r) = Len(list) - n
         /\ \A i \in 1 .. Len(list) - n : r[i] = list[i + n]
         /\ \A i \in 1 .. n : list[i].level > Len(blocks) - 2
         /\ \A i \in n + 1 .. Len(list) : list[i].level <= Len(blocks) - 2
  BY <1>4, TruncateLemma DEF Scope
<1> HIDE DEF b, r
<1>6. \A i, j \in 1 .. Len(r) : i < j => r[i].level > r[j].level
  <2>1. \A i, j \in 1 .. Len(list) : i < j => list[i].level > list[j].level
    BY DEF Scope
  <2>2. \A i \in 1 .. Len(r) : i + n \in 1 .. Len(list) /\ r[i] = list[i + n]
    BY <1>2, <1>5
  <2>3. \A i, j \in 1 .. Len(r) : i < j => i + n < j + n
    BY <1>2, <1>5
  <2> QED
    BY <2>1, <2>2, <2>3
\* What is left of the list belongs to the blocks that are left.
<1>7. ASSUME NEW i \in 1 .. Len(r)
      PROVE  Placed(r[i], b) /\ Below(r[i], x) /\ r[i].level < Len(blocks) - 1
  <2>1. PICK j \in 1 .. Len(list) : r[i] = list[j] /\ list[j].level <= Len(blocks) - 2
    BY <1>2, <1>5
  <2>2. list[j].level \in Nat /\ list[j].level < Len(blocks) - 1
    BY <1>1, <1>2, <2>1
  <2>3. Placed(list[j], blocks) /\ Below(list[j], next) /\ Below(list[j], blocks[Len(blocks)].start)
    <3>1. Len(blocks) \in 1 .. Len(blocks)
      BY <1>1
    <3> QED
      BY <2>2, <3>1 DEF Scope
  <2>4. \A k \in 1 .. list[j].level : b[k] = blocks[k]
    BY <1>1, <1>3, <2>2
  <2>5. b[list[j].level + 1] = blocks[list[j].level + 1]
    <3>1. list[j].level + 1 \in 1 .. Len(blocks) - 1
      BY <1>1, <2>2
    <3> QED
      BY <1>3, <3>1
  <2>6. Placed(list[j], b)
    BY <1>3, <2>2, <2>3, <2>4, <2>5 DEF Placed
  <2> QED
    BY <2>1, <2>2, <2>3, <2>6
<1>8. ASSUME NEW k \in 1 .. Len(b), b[k].kind = "try"
      PROVE  /\ \E i \in 1 .. Len(r) : r[i].level = k - 1
             /\ \A i \in 1 .. Len(r) : r[i].level >= k - 1 => r[i].label.kind = "try"
  <2>1. k \in 1 .. Len(blocks) /\ blocks[k].kind = "try" /\ k \in Nat
    BY <1>1, <1>3, <1>8
  <2>2. PICK j \in 1 .. Len(list) : list[j].level = k - 1
    BY <2>1 DEF Scope
  <2>3. j - n \in 1 .. Len(r) /\ r[j - n] = list[j]
    <3>1. ~(j \in 1 .. n)
      BY <1>1, <1>3, <1>5, <2>1, <2>2
    <3>2. j - n \in 1 .. Len(list) - n
      BY <1>2, <3>1
    <3> QED
      BY <1>2, <1>5, <3>2
  <2>4. \A i \in 1 .. Len(list) : list[i].level >= k - 1 => list[i].label.kind = "try"
    <3>1. \A q \in 1 .. Len(blocks) : blocks[q].kind = "try" =>
             \A i \in 1 .. Len(list) : list[i].level >= q - 1 => list[i].label.kind = "try"
      BY Zenon DEF Scope
    <3> QED
      BY <2>1, <3>1, Zenon
  <2>5. \A i \in 1 .. Len(r) : \E m \in 1 .. Len(list) : r[i] = list[m]
    BY <1>2, <1>5
  <2>6. \A i \in 1 .. Len(r) : r[i].level >= k - 1 => r[i].label.kind = "try"
    BY <2>4, <2>5, Zenon
  <2>7. \E i \in 1 .. Len(r) : r[i].level = k - 1
    BY <2>2, <2>3, Zenon
  <2> QED
    BY <2>6, <2>7
<1>9. ASSUME NEW k \in 1 .. Len(b)
      PROVE  /\ b[k].start <= x
             /\ \A j \in 1 .. k : b[j].start <= b[k].start
             /\ \A i \in 1 .. Len(r) : r[i].level < k - 1 => Below(r[i], b[k].start)
  <2>1. k \in 1 .. Len(blocks) /\ b[k] = blocks[k] /\ \A j \in 1 .. k : b[j] = blocks[j]
    BY <1>1, <1>3
  <2>2. /\ blocks[k].start <= next /\ blocks[k].start <= blocks[Len(blocks)].start
        /\ \A j \in 1 .. k : blocks[j].start <= blocks[k].start
        /\ \A i \in 1 .. Len(list) : list[i].level < k - 1 => Below(list[i], blocks[k].start)
    BY <1>1, <2>1 DEF Scope
  <2>3. \A i \in 1 .. Len(r) : \E m \in 1 .. Len(list) : r[i] = list[m]
    BY <1>2, <1>5
  <2> QED
    BY <2>1, <2>2, <2>3
<1>10. Len(b) >= 1
  BY <1>1, <1>3
<1>11. Scope(b, r, x)
  BY <1>6, <1>7, <1>8, <1>9, <1>10 DEF Scope
<1> QED
  BY <1>3, <1>5, <1>11 DEF b, r

\* A block is opened, other than TRY.
LEMMA ScopeAppend ==
    ASSUME NEW E, Closed(E), NEW blocks \in Seq(Blk), NEW list \in Seq(E),
           NEW next \in Nat, Scope(blocks, list, next),
           NEW b \in Blk, b.kind # "try", b.start = next
    PROVE  /\ Append(blocks, b) \in Seq(Blk) /\ Len(Append(blocks, b)) = Len(blocks) + 1
           /\ Append(blocks, b)[Len(blocks) + 1] = b
           /\ \A k \in 1 .. Len(blocks) : Append(blocks, b)[k] = blocks[k]
           /\ Scope(Append(blocks, b), list, next)
<1> DEFINE c == Append(blocks, b)
<1>1. /\ Len(blocks) \in Nat
      /\ \A k \in 1 .. Len(blocks) : blocks[k].start \in Nat
  BY BlocksLemma
<1>2. /\ Len(list) \in Nat
      /\ \A i \in 1 .. Len(list) : list[i] \in E /\ list[i].level \in Nat
  BY EntriesLemma
<1>3. /\ c \in Seq(Blk) /\ Len(c) = Len(blocks) + 1 /\ c[Len(blocks) + 1] = b
      /\ \A k \in 1 .. Len(blocks) : c[k] = blocks[k]
  BY AppendProperties
<1> HIDE DEF c
<1>4. ASSUME NEW i \in 1 .. Len(list)
      PROVE  Placed(list[i], c) /\ Below(list[i], next)
  <2>1. Placed(list[i], blocks) /\ Below(list[i], next)
    BY DEF Scope
  <2>2. list[i].level \in Nat /\ list[i].level < Len(blocks)
    BY <1>2, <2>1 DEF Placed
  <2>3. /\ list[i].level < Len(c)
        /\ \A k \in 1 .. list[i].level + 1 : k \in 1 .. Len(blocks) /\ c[k] = blocks[k]
    BY <1>1, <1>3, <2>2
  <2>4. list[i].level + 1 \in 1 .. list[i].level + 1 /\ \A k \in 1 .. list[i].level : k \in 1 .. list[i].level + 1
    BY <2>2
  <2>5. Placed(list[i], c)
    BY <2>1, <2>3, <2>4 DEF Placed
  <2> QED
    BY <2>1, <2>5
<1>5. ASSUME NEW k \in 1 .. Len(c), c[k].kind = "try"
      PROVE  /\ \E i \in 1 .. Len(list) : list[i].level = k - 1
             /\ \A i \in 1 .. Len(list) : list[i].level >= k - 1 => list[i].label.kind = "try"
  <2>1. k \in 1 .. Len(blocks) /\ blocks[k].kind = "try"
    BY <1>1, <1>3, <1>5
  <2> QED
    BY <2>1 DEF Scope
<1>6. ASSUME NEW k \in 1 .. Len(c)
      PROVE  /\ c[k].start <= next
             /\ \A j \in 1 .. k : c[j].start <= c[k].start
             /\ \A i \in 1 .. Len(list) : list[i].level < k - 1 => Below(list[i], c[k].start)
  <2>1. CASE k \in 1 .. Len(blocks)
    <3>1. c[k] = blocks[k] /\ \A j \in 1 .. k : c[j] = blocks[j]
      BY <1>1, <1>3, <2>1
    <3> QED
      BY <2>1, <3>1 DEF Scope
  <2>2. CASE k = Len(blocks) + 1
    <3>1. \A j \in 1 .. Len(blocks) : c[j].start <= next
      BY <1>3 DEF Scope
    <3>2. \A j \in 1 .. k : j \in 1 .. Len(blocks) \/ j = k
      BY <1>1, <2>2
    <3> QED
      BY <1>3, <1>4, <2>2, <3>1, <3>2
  <2>3. k \in 1 .. Len(blocks) \/ k = Len(blocks) + 1
    BY <1>1, <1>3
  <2> QED
    BY <2>1, <2>2, <2>3
<1>7. Len(c) >= 1 /\ \A i, j \in 1 .. Len(list) : i < j => list[i].level > list[j].level
  BY <1>1, <1>3 DEF Scope
<1>8. Scope(c, list, next)
  BY <1>4, <1>5, <1>6, <1>7 DEF Scope
<1> QED
  BY <1>3, <1>8 DEF c

\* TRY opens a block and puts its label in the list.
TryEntry(h, blocks, next) ==
    /\ h.level = Len(blocks) /\ h.label.kind = "try"
    /\ h.label.blocks = blocks /\ h.label.next = next

LEMMA ScopeTry ==
    ASSUME NEW E, Closed(E), NEW blocks \in Seq(Blk), NEW list \in Seq(E),
           NEW next \in Nat, Scope(blocks, list, next),
           NEW b \in Blk, b.kind = "try", b.start = next,
           NEW h \in E, TryEntry(h, blocks, next)
    PROVE  Scope(Append(blocks, b), <<h>> \o list, next)
<1>20. /\ h.level = Len(blocks) /\ h.label.kind = "try"
       /\ h.label.blocks = blocks /\ h.label.next = next
  BY DEF TryEntry
<1>21. PICK r \in Seq(E) : r = <<h>> \o list
  BY PushLemma
<1>22. /\ Len(r) = Len(list) + 1 /\ r[1] = h
       /\ \A i \in 1 .. Len(list) : r[i + 1] = list[i]
  BY <1>21, PushLemma
<1> USE <1>20, <1>22
<1> DEFINE c == Append(blocks, b)
<1>1. /\ Len(blocks) \in Nat
      /\ \A k \in 1 .. Len(blocks) : blocks[k].start \in Nat
  BY BlocksLemma
<1>2. /\ Len(list) \in Nat
      /\ \A i \in 1 .. Len(list) : list[i] \in E /\ list[i].level \in Nat
  BY EntriesLemma
<1>3. /\ c \in Seq(Blk) /\ Len(c) = Len(blocks) + 1 /\ c[Len(blocks) + 1] = b
      /\ \A k \in 1 .. Len(blocks) : c[k] = blocks[k]
  BY AppendProperties
<1> HIDE DEF c
<1>4. \A i \in 1 .. Len(list) : list[i].level < Len(blocks)
  BY DEF Scope, Placed
<1>5. ASSUME NEW i \in 1 .. Len(list)
      PROVE  Placed(list[i], c) /\ Below(list[i], next)
  <2>1. Placed(list[i], blocks) /\ Below(list[i], next)
    BY DEF Scope
  <2>2. list[i].level \in Nat /\ list[i].level < Len(blocks)
    BY <1>2, <1>4
  <2>3. /\ list[i].level < Len(c)
        /\ \A k \in 1 .. list[i].level + 1 : k \in 1 .. Len(blocks) /\ c[k] = blocks[k]
    BY <1>1, <1>3, <2>2
  <2>4. list[i].level + 1 \in 1 .. list[i].level + 1 /\ \A k \in 1 .. list[i].level : k \in 1 .. list[i].level + 1
    BY <2>2
  <2>5. Placed(list[i], c)
    BY <2>1, <2>3, <2>4 DEF Placed
  <2> QED
    BY <2>1, <2>5
<1>6. Placed(h, c) /\ Below(h, next)
  <2>1. Len(blocks) < Len(c)
    BY <1>1, <1>3
  <2>2. \A k \in 1 .. Len(blocks) : h.label.blocks[k] = c[k]
    BY <1>3
  <2> QED
    BY <1>1, <1>3, <2>1, <2>2 DEF Placed, Below
<1>7. \A i \in 1 .. Len(r) : i = 1 \/ (i - 1 \in 1 .. Len(list) /\ r[i] = list[i - 1])
  <2> SUFFICES ASSUME NEW i \in 1 .. Len(r), i # 1
               PROVE  i - 1 \in 1 .. Len(list) /\ r[i] = list[i - 1]
    OBVIOUS
  <2>1. PICK j \in 1 .. Len(list) : i = j + 1
    BY <1>2
  <2> QED
    BY <1>2, <2>1
<1>8. \A i \in 1 .. Len(r) : Placed(r[i], c) /\ Below(r[i], next)
  BY <1>5, <1>6, <1>7
<1>9. ASSUME NEW i \in 1 .. Len(r), NEW j \in 1 .. Len(r), i < j
      PROVE  r[i].level > r[j].level
  <2>1. j - 1 \in 1 .. Len(list) /\ r[j] = list[j - 1]
    BY <1>2, <1>7, <1>9
  <2>2. CASE i = 1
    BY <1>1, <1>2, <1>4, <2>1, <2>2
  <2>3. CASE i # 1
    <3>1. i - 1 \in 1 .. Len(list) /\ r[i] = list[i - 1] /\ i - 1 < j - 1
      BY <1>2, <1>7, <1>9, <2>3
    <3> QED
      BY <2>1, <3>1 DEF Scope
  <2> QED
    BY <2>2, <2>3
<1>10. ASSUME NEW k \in 1 .. Len(c), c[k].kind = "try"
      PROVE  /\ \E i \in 1 .. Len(r) : r[i].level = k - 1
             /\ \A i \in 1 .. Len(r) : r[i].level >= k - 1 => r[i].label.kind = "try"
  <2>1. CASE k \in 1 .. Len(blocks)
    <3>1. blocks[k].kind = "try"
      BY <1>3, <1>10, <2>1
    <3>2. PICK i \in 1 .. Len(list) : list[i].level = k - 1
      BY <2>1, <3>1 DEF Scope
    <3>3. i + 1 \in 1 .. Len(r) /\ r[i + 1].level = k - 1
      BY <1>2, <3>2
    <3>4. \A m \in 1 .. Len(list) : list[m].level >= k - 1 => list[m].label.kind = "try"
      BY <2>1, <3>1 DEF Scope
    <3> QED
      BY <1>7, <3>3, <3>4
  <2>2. CASE k = Len(blocks) + 1
    <3>1. 1 \in 1 .. Len(r) /\ r[1].level = k - 1
      BY <1>1, <1>2, <2>2
    <3>2. \A i \in 1 .. Len(list) : ~(list[i].level >= k - 1)
      BY <1>1, <1>2, <1>4, <2>2
    <3> QED
      BY <1>7, <3>1, <3>2
  <2>3. k \in 1 .. Len(blocks) \/ k = Len(blocks) + 1
    BY <1>1, <1>3
  <2> QED
    BY <2>1, <2>2, <2>3
<1>11. ASSUME NEW k \in 1 .. Len(c)
      PROVE  /\ c[k].start <= next
             /\ \A j \in 1 .. k : c[j].start <= c[k].start
             /\ \A i \in 1 .. Len(r) : r[i].level < k - 1 => Below(r[i], c[k].start)
  <2>1. CASE k \in 1 .. Len(blocks)
    <3>1. c[k] = blocks[k] /\ \A j \in 1 .. k : c[j] = blocks[j]
      BY <1>1, <1>3, <2>1
    <3>2. ~(h.level < k - 1)
      BY <1>1, <2>1
    <3>3. \A i \in 1 .. Len(list) : list[i].level < k - 1 => Below(list[i], blocks[k].start)
      BY <2>1 DEF Scope
    <3>4. blocks[k].start <= next /\ \A j \in 1 .. k : blocks[j].start <= blocks[k].start
      BY <2>1 DEF Scope
    <3> QED
      BY <1>7, <3>1, <3>2, <3>3, <3>4
  <2>2. CASE k = Len(blocks) + 1
    <3>1. \A j \in 1 .. Len(blocks) : c[j].start <= next
      BY <1>3 DEF Scope
    <3>2. \A j \in 1 .. k : j \in 1 .. Len(blocks) \/ j = k
      BY <1>1, <2>2
    <3>3. c[k].start = next
      BY <1>3, <2>2
    <3>4. next <= next /\ \A j \in 1 .. k : c[j].start <= next
      BY <3>1, <3>2, <3>3
    <3> QED
      BY <1>8, <3>3, <3>4
  <2>3. k \in 1 .. Len(blocks) \/ k = Len(blocks) + 1
    BY <1>1, <1>3
  <2> QED
    BY <2>1, <2>2, <2>3
<1>12. Len(c) >= 1
  BY <1>1, <1>3
<1>13. Scope(c, r, next)
  BY <1>8, <1>9, <1>10, <1>11, <1>12 DEF Scope
<1> QED
  BY <1>13, <1>21 DEF c

\* ONERROR sets a slot aside and puts its label in the list.
OnErrorEntry(h, blocks, next) ==
    /\ h.level = Len(blocks) - 1 /\ h.label.kind = "onerror"
    /\ h.label.blocks = blocks /\ h.label.next = next

LEMMA ScopeOnError ==
    ASSUME NEW E, Closed(E), NEW blocks \in Seq(Blk), NEW list \in Seq(E),
           NEW next \in Nat, Scope(blocks, list, next),
           \A k \in 1 .. Len(blocks) : blocks[k].kind # "try",
           NEW h \in E, OnErrorEntry(h, blocks, next),
           NEW r \in Seq(E), NEW n \in {0, 1}, PutFirst(r, h, list, n)
    PROVE  Scope(blocks, r, next + 1)
<1>20. /\ h.level = Len(blocks) - 1 /\ h.label.kind = "onerror"
       /\ h.label.blocks = blocks /\ h.label.next = next
  BY DEF OnErrorEntry
<1>21. /\ n <= Len(list) /\ Len(r) = Len(list) - n + 1
       /\ r[1] = h /\ \A i \in 2 .. Len(r) : r[i] = list[i - 1 + n]
       /\ n = 1 => list[1].level = Len(blocks) - 1
       /\ n = 0 => (list = <<>> \/ Len(blocks) - 1 > list[1].level)
  BY <1>20 DEF PutFirst
<1> USE <1>20, <1>21
<1>1. /\ Len(blocks) \in Nat /\ Len(blocks) >= 1
      /\ \A k \in 1 .. Len(blocks) :
            /\ blocks[k].start \in Nat /\ Len(blocks[k].syms) \in Nat
            /\ blocks[k].start <= next
  BY BlocksLemma DEF Scope
<1>2. /\ Len(list) \in Nat
      /\ \A i \in 1 .. Len(list) : list[i] \in E /\ list[i].level \in Nat
  BY EntriesLemma
<1>3. \A i, j \in 1 .. Len(list) : i < j => list[i].level > list[j].level
  BY DEF Scope
<1>4. \A i \in 1 .. Len(r) : i = 1 \/ (i - 1 + n \in 1 .. Len(list) /\ r[i] = list[i - 1 + n])
  BY <1>2
<1>5. \A i \in 1 .. Len(list) : Below(list[i], next) => Below(list[i], next + 1)
  BY EntriesLemma DEF Below
<1>6. Placed(h, blocks) /\ Below(h, next + 1)
  <2>1. Extends(blocks[Len(blocks)], blocks[Len(blocks)])
    BY <1>1 DEF Extends
  <2>2. h.level < Len(blocks) /\ h.level + 1 = Len(blocks)
    BY <1>1
  <2> QED
    BY <2>1, <2>2 DEF Placed, Below
<1>7. \A i \in 1 .. Len(r) : Placed(r[i], blocks) /\ Below(r[i], next + 1)
  <2>1. \A i \in 1 .. Len(list) : Placed(list[i], blocks) /\ Below(list[i], next + 1)
    BY <1>5 DEF Scope
  <2> QED
    BY <1>4, <1>6, <2>1
<1>8. ASSUME NEW i \in 1 .. Len(r), NEW j \in 1 .. Len(r), i < j
      PROVE  r[i].level > r[j].level
  <2>1. j # 1 /\ i - 1 + n < j - 1 + n /\ n <= j - 1 + n - 1
    BY <1>2, <1>8
  <2>2. PICK m \in 1 .. Len(list) : m = j - 1 + n /\ r[j] = list[m]
    BY <1>4, <2>1
  <2>3. 1 \in 1 .. Len(list) /\ list[1].level \in Nat /\ list[m].level \in Nat
    <3>1. 1 \in 1 .. Len(list)
      BY <1>2
    <3> QED
      BY <1>2, <3>1
  <2>4. CASE i = 1
    <3>1. m = 1 \/ list[1].level > list[m].level
      BY <1>2, <1>3, <2>3
    <3>2. CASE n = 0
      <4>1. list # <<>>
        BY <2>3, EmptySeq
      <4> QED
        BY <1>1, <2>2, <2>3, <2>4, <3>1, <3>2, <4>1
    <3>3. CASE n = 1
      <4>1. m # 1
        BY <1>2, <2>1, <2>2, <3>3
      <4> QED
        BY <2>2, <2>4, <3>1, <3>3, <4>1
    <3> QED
      BY <3>2, <3>3
  <2>5. CASE i # 1
    <3>1. i - 1 + n \in 1 .. Len(list) /\ r[i] = list[i - 1 + n] /\ i - 1 + n < m
      BY <1>4, <2>1, <2>2, <2>5
    <3> QED
      BY <1>3, <2>2, <3>1
  <2> QED
    BY <2>4, <2>5
<1>9. ASSUME NEW k \in 1 .. Len(blocks)
      PROVE  /\ blocks[k].start <= next + 1
             /\ \A j \in 1 .. k : blocks[j].start <= blocks[k].start
             /\ \A i \in 1 .. Len(r) : r[i].level < k - 1 => Below(r[i], blocks[k].start)
  <2>1. blocks[k].start <= next + 1
    BY <1>1
  <2>2. ~(h.level < k - 1)
    BY <1>1
  <2>3. /\ \A j \in 1 .. k : blocks[j].start <= blocks[k].start
        /\ \A i \in 1 .. Len(list) : list[i].level < k - 1 => Below(list[i], blocks[k].start)
    BY DEF Scope
  <2> QED
    BY <1>4, <2>1, <2>2, <2>3
<1> QED
  BY <1>1, <1>7, <1>8, <1>9 DEF Scope

\* The innermost block gets another symbol.
LEMMA ScopeSyms ==
    ASSUME NEW E, Closed(E), NEW blocks \in Seq(Blk), NEW list \in Seq(E),
           NEW next \in Nat, Scope(blocks, list, next),
           NEW c \in Seq(Blk), Len(c) = Len(blocks),
           \A k \in 1 .. Len(blocks) - 1 : c[k] = blocks[k],
           Extends(blocks[Len(blocks)], c[Len(blocks)])
    PROVE  Scope(c, list, next)
<1>1. Len(blocks) \in Nat /\ Len(blocks) >= 1
  BY BlocksLemma DEF Scope
<1>2. /\ Len(list) \in Nat
      /\ \A i \in 1 .. Len(list) : list[i] \in E /\ list[i].level \in Nat
  BY EntriesLemma
<1>3. \A k \in 1 .. Len(blocks) :
         c[k].kind = blocks[k].kind /\ c[k].start = blocks[k].start /\ c[k].cond = blocks[k].cond
  BY <1>1 DEF Extends
<1>4. ASSUME NEW i \in 1 .. Len(list)
      PROVE  Placed(list[i], c) /\ Below(list[i], next)
  <2>1. Placed(list[i], blocks) /\ Below(list[i], next)
    BY DEF Scope
  <2>2. list[i].level \in Nat /\ list[i].level < Len(blocks)
    BY <1>2, <2>1 DEF Placed
  <2>3. \A k \in 1 .. list[i].level : list[i].label.blocks[k] = c[k]
    <3>1. \A k \in 1 .. list[i].level : k \in 1 .. Len(blocks) - 1
      BY <1>1, <2>2
    <3> QED
      BY <2>1, <3>1 DEF Placed
  <2>4. list[i].level + 1 \in 1 .. Len(blocks)
    BY <1>1, <2>2
  <2>5. list[i].label.kind = "try" => c[list[i].level + 1].kind = "try"
    BY <1>3, <2>1, <2>4 DEF Placed
  <2>6. ASSUME list[i].label.kind # "try"
        PROVE  Extends(list[i].label.blocks[list[i].level + 1], c[list[i].level + 1])
    <3> DEFINE a == list[i].label.blocks[list[i].level + 1]
               d == blocks[list[i].level + 1]
    <3>1. Extends(a, d)
      BY <2>1, <2>6 DEF Placed
    <3>2. CASE list[i].level + 1 \in 1 .. Len(blocks) - 1
      BY <3>1, <3>2
    <3>3. CASE list[i].level + 1 = Len(blocks)
      <4>1. Extends(d, c[Len(blocks)])
        BY <3>3
      <4>2. SoundEntry(list[i]) /\ list[i] \in E /\ list[i].label.kind = "onerror"
        BY <2>6, EntriesLemma
      <4>3. list[i].label.blocks \in Seq(Blk) /\ Len(list[i].label.blocks) = list[i].level + 1
        BY <4>2, EntryLemma, LabelLemma DEF SoundEntry
      <4>4. /\ Len(a.syms) \in Nat /\ Len(d.syms) \in Nat /\ Len(c[Len(blocks)].syms) \in Nat
        <5>1. list[i].level + 1 \in 1 .. Len(list[i].label.blocks)
          BY <2>2, <4>3
        <5>2. Len(a.syms) \in Nat
          BY <4>3, <5>1, BlocksLemma
        <5>3. Len(blocks) \in 1 .. Len(c)
          BY <1>1
        <5>4. Len(c[Len(blocks)].syms) \in Nat
          BY <5>3, BlocksLemma
        <5> QED
          BY <2>4, <5>2, <5>4, BlocksLemma
      <4> HIDE DEF a, d
      <4>5. Extends(a, c[Len(blocks)])
        <5>1. Len(a.syms) <= Len(d.syms) /\ Len(d.syms) <= Len(c[Len(blocks)].syms)
          BY <3>1, <4>1 DEF Extends
        <5>2. Len(a.syms) <= Len(c[Len(blocks)].syms)
          <6>1. \A p, q, r \in Nat : p <= q /\ q <= r => p <= r
            OBVIOUS
          <6> QED
            BY <4>4, <5>1, <6>1
        <5>3. \A j \in 1 .. Len(a.syms) : j \in 1 .. Len(d.syms)
          BY <4>4, <5>1
        <5>4. \A j \in 1 .. Len(a.syms) : c[Len(blocks)].syms[j] = a.syms[j]
          BY <3>1, <4>1, <5>3 DEF Extends
        <5> QED
          BY <3>1, <4>1, <5>2, <5>4 DEF Extends
      <4> QED
        BY <3>3, <4>5 DEF a
    <3> QED
      BY <1>1, <2>4, <3>2, <3>3
  <2> QED
    BY <2>1, <2>2, <2>3, <2>5, <2>6 DEF Placed
<1>5. ASSUME NEW k \in 1 .. Len(c), c[k].kind = "try"
      PROVE  /\ \E i \in 1 .. Len(list) : list[i].level = k - 1
             /\ \A i \in 1 .. Len(list) : list[i].level >= k - 1 => list[i].label.kind = "try"
  BY <1>3, <1>5 DEF Scope
<1>6. ASSUME NEW k \in 1 .. Len(c)
      PROVE  /\ c[k].start <= next
             /\ \A j \in 1 .. k : c[j].start <= c[k].start
             /\ \A i \in 1 .. Len(list) : list[i].level < k - 1 => Below(list[i], c[k].start)
  <2>1. \A j \in 1 .. k : j \in 1 .. Len(blocks)
    BY <1>1
  <2> QED
    BY <1>3, <2>1 DEF Scope
<1>7. Len(c) >= 1 /\ \A i, j \in 1 .. Len(list) : i < j => list[i].level > list[j].level
  BY <1>1 DEF Scope
<1> QED
  BY <1>4, <1>5, <1>6, <1>7 DEF Scope

-----------------------------------------------------------------------------
(* What the operations on frames do to the fields *)

LEMMA FrameLemma ==
    ASSUME NEW E, NEW f \in Frame(E)
    PROVE  /\ f.kind \in {"main", "proc", "fn"} /\ f.blocks \in Seq(Blk)
           /\ f.slots \in [Slots -> Values] /\ f.next \in Nat \ {0} /\ f.limit \in Slots
           /\ f.entries \in Seq(Slots) /\ f.counter \in Nat /\ f.handlers \in Seq(E)
           /\ f.inHandler \in BOOLEAN /\ Len(f.blocks) \in Nat /\ Len(f.entries) \in Nat
           /\ \A i \in 1 .. Len(f.entries) : f.entries[i] \in Slots
<1>1. /\ f.kind \in {"main", "proc", "fn"} /\ f.blocks \in Seq(Blk)
      /\ f.slots \in [Slots -> Values] /\ f.next \in Nat \ {0} /\ f.limit \in Slots
      /\ f.entries \in Seq(Slots) /\ f.counter \in Nat /\ f.handlers \in Seq(E)
      /\ f.inHandler \in BOOLEAN
  BY DEF Frame
<1> QED
  BY <1>1, LenProperties, ElementOfSeq

LEMMA SlotsLemma ==
    /\ MaxSlots \in Nat \ {0} /\ MaxLevel \in Nat /\ MaxFrames \in Nat \ {0}
    /\ Empty \in Values /\ Wild \in Values /\ Blocks \subseteq Values
    /\ Empty # Wild /\ Empty \notin Blocks /\ Wild \notin Blocks
    /\ \A s \in Slots : s \in Nat /\ 1 <= s /\ s <= MaxSlots
    /\ \A s \in Nat : 1 <= s /\ s <= MaxSlots => s \in Slots
BY ScopesAssumption DEF Slots, Values

\* The fields of a frame that are not its slots.
SameButSlots(f, g) ==
    /\ g.kind = f.kind /\ g.blocks = f.blocks /\ g.next = f.next /\ g.limit = f.limit
    /\ g.entries = f.entries /\ g.counter = f.counter /\ g.handlers = f.handlers
    /\ g.inHandler = f.inHandler

LEMMA InsertFields ==
    ASSUME NEW E, NEW f \in Frame(E), NEW v \in Values, f.next \in Slots, Len(f.blocks) >= 1
    PROVE  LET g == Insert(f, v)
               n == Len(f.blocks)
           IN  /\ g \in Frame(E)
               /\ g.kind = f.kind /\ g.limit = f.limit /\ g.entries = f.entries
               /\ g.counter = f.counter /\ g.handlers = f.handlers /\ g.inHandler = f.inHandler
               /\ g.next = f.next + 1
               /\ \A t \in Slots : g.slots[t] = IF t = f.next THEN v ELSE f.slots[t]
               /\ Len(g.blocks) = n /\ \A k \in 1 .. n - 1 : g.blocks[k] = f.blocks[k]
               /\ g.blocks[n].kind = f.blocks[n].kind /\ g.blocks[n].start = f.blocks[n].start
               /\ g.blocks[n].cond = f.blocks[n].cond
               /\ g.blocks[n].syms = Append(f.blocks[n].syms, f.next)
<1> DEFINE n == Len(f.blocks)
           a == Append(f.blocks[n].syms, f.next)
           b == [f.blocks[n] EXCEPT !.syms = a]
           c == [f.blocks EXCEPT ![n] = b]
           w == [f.slots EXCEPT ![f.next] = v]
           g == [f EXCEPT !.slots = w, !.next = f.next + 1, !.blocks = c]
<1>1. f.blocks \in Seq(Blk) /\ n \in Nat /\ n \in 1 .. n
  BY FrameLemma
<1>2. f.blocks[n] \in Blk /\ f.blocks[n].syms \in Seq(Slots)
  BY <1>1, BlocksLemma
<1>3. a \in Seq(Slots)
  BY <1>2, AppendProperties
<1>4. /\ b \in Blk /\ b.syms = a /\ b.kind = f.blocks[n].kind /\ b.start = f.blocks[n].start
      /\ b.cond = f.blocks[n].cond
  <2> HIDE DEF a
  <2> QED
    BY <1>2, <1>3 DEF Blk
<1>5. /\ c \in Seq(Blk) /\ Len(c) = n /\ c[n] = b
      /\ \A k \in 1 .. n - 1 : c[k] = f.blocks[k]
  <2>1. /\ [f.blocks EXCEPT ![n] = b] \in Seq(Blk) /\ Len([f.blocks EXCEPT ![n] = b]) = Len(f.blocks)
        /\ \A j \in 1 .. Len(f.blocks) :
              [f.blocks EXCEPT ![n] = b][j] = IF j = n THEN b ELSE f.blocks[j]
    <3> HIDE DEF n, b
    <3>1. n \in 1 .. Len(f.blocks)
      BY <1>1 DEF n
    <3> QED
      BY <1>1, <1>4, <3>1, ExceptSeq
  <2> HIDE DEF b
  <2> QED
    BY <1>1, <2>1
<1>6. w \in [Slots -> Values] /\ \A t \in Slots : w[t] = IF t = f.next THEN v ELSE f.slots[t]
  BY FrameLemma
<1>7. f.next + 1 \in Nat \ {0}
  BY FrameLemma
<1> HIDE DEF c, w
<1>8. /\ g \in Frame(E) /\ g.kind = f.kind /\ g.limit = f.limit /\ g.entries = f.entries
      /\ g.counter = f.counter /\ g.handlers = f.handlers /\ g.inHandler = f.inHandler
      /\ g.next = f.next + 1 /\ g.slots = w /\ g.blocks = c
  BY <1>5, <1>6, <1>7 DEF Frame
<1>9. Insert(f, v) = g
  BY DEF Insert, w, c
<1> HIDE DEF g, b, a
<1> QED
  BY <1>4, <1>5, <1>6, <1>8, <1>9 DEF a

LEMMA PushFields ==
    ASSUME NEW E, NEW f \in Frame(E), NEW s \in Slots
    PROVE  LET g == PushReference(f, s)
           IN  /\ g \in Frame(E)
               /\ g.kind = f.kind /\ g.limit = f.limit /\ g.next = f.next
               /\ g.handlers = f.handlers /\ g.inHandler = f.inHandler
               /\ g.slots = f.slots /\ g.blocks = f.blocks
               /\ g.counter = f.counter + 1 /\ g.entries = Append(f.entries, s)
<1>1. Append(f.entries, s) \in Seq(Slots) /\ f.counter + 1 \in Nat
  BY FrameLemma, AppendProperties
<1> DEFINE a == Append(f.entries, s)
<1>2. PushReference(f, s) = [f EXCEPT !.entries = a, !.counter = f.counter + 1]
  BY DEF PushReference
<1> HIDE DEF a
<1>3. [f EXCEPT !.entries = a, !.counter = f.counter + 1] \in Frame(E)
  BY <1>1 DEF Frame, a
<1> QED
  BY <1>2, <1>3 DEF a, Frame

LEMMA PopFields ==
    ASSUME NEW E, NEW f \in Frame(E), f.entries # <<>>, f.counter > 0
    PROVE  LET g == [f EXCEPT !.entries = Front(@), !.counter = @ - 1]
           IN  /\ g \in Frame(E)
               /\ g.kind = f.kind /\ g.limit = f.limit /\ g.next = f.next
               /\ g.handlers = f.handlers /\ g.inHandler = f.inHandler
               /\ g.slots = f.slots /\ g.blocks = f.blocks
               /\ g.counter = f.counter - 1 /\ Len(g.entries) = Len(f.entries) - 1
               /\ \A i \in 1 .. Len(f.entries) - 1 : g.entries[i] = f.entries[i]
<1> DEFINE a == Front(f.entries)
           g == [f EXCEPT !.entries = a, !.counter = f.counter - 1]
<1>1. f.entries \in Seq(Slots) /\ Len(f.entries) \in Nat \ {0} /\ f.counter - 1 \in Nat
  BY FrameLemma, EmptySeq
<1>2. /\ a \in Seq(Slots) /\ Len(a) = Len(f.entries) - 1
      /\ \A i \in 1 .. Len(f.entries) - 1 : a[i] = f.entries[i]
  BY <1>1, FrontLemma
<1> HIDE DEF a
<1>3. /\ g \in Frame(E) /\ g.kind = f.kind /\ g.limit = f.limit /\ g.next = f.next
      /\ g.handlers = f.handlers /\ g.inHandler = f.inHandler
      /\ g.slots = f.slots /\ g.blocks = f.blocks
      /\ g.counter = f.counter - 1 /\ g.entries = a
  BY <1>1, <1>2 DEF Frame
<1>4. [f EXCEPT !.entries = Front(@), !.counter = @ - 1] = g
  BY DEF a
<1> HIDE DEF g
<1> QED
  BY <1>2, <1>3, <1>4

-----------------------------------------------------------------------------
(* Frames stay well shaped *)

LEMMA ShapedFacts ==
    ASSUME NEW E, NEW f, Shaped(f, E)
    PROVE  /\ f \in Frame(E) /\ Closed(E) /\ Scope(f.blocks, f.handlers, f.next)
           /\ Len(f.blocks) \in Nat \ {0} /\ Len(f.blocks) \in 1 .. Len(f.blocks)
           /\ Innermost(f) = f.blocks[Len(f.blocks)] /\ Innermost(f) \in Blk
           /\ Innermost(f).syms \in Seq(Slots) /\ Len(Innermost(f).syms) \in Nat
           /\ Level(f) = Len(f.blocks) - 1
<1>1. f \in Frame(E) /\ Closed(E) /\ Scope(f.blocks, f.handlers, f.next)
  BY DEF Shaped
<1>2. Len(f.blocks) \in Nat \ {0} /\ f.blocks \in Seq(Blk)
  BY <1>1, FrameLemma DEF Scope
<1>3. Len(f.blocks) \in 1 .. Len(f.blocks)
  BY <1>2
<1> QED
  BY <1>1, <1>2, <1>3, BlocksLemma DEF Innermost, Last, Level

LEMMA ShapedSame ==
    ASSUME NEW E, NEW f, Shaped(f, E), NEW g \in Frame(E), SameButSlots(f, g)
    PROVE  Shaped(g, E)
BY DEF Shaped, SameButSlots

\* The segments, with n for the number of blocks.
SegmentsUpTo(f, n, live, base, off) ==
    /\ live <= Len(Innermost(f).syms)
    /\ f.blocks[base].kind \in {"body", "handler"}
    /\ \A k \in base + 1 .. n : f.blocks[k].kind \notin {"body", "handler"}
    /\ \A k \in 1 .. base : f.blocks[k].kind # "try"
    /\ \A k \in base .. n - 1 : off[k + 1] = off[k] + Len(f.blocks[k].syms)
    /\ off[n] + live = Len(f.entries)
    /\ \A j, k \in base .. n : j < k =>
          /\ off[j] <= off[k]
          /\ (\A i \in j .. k - 1 : f.blocks[i].syms = <<>>) => off[j] = off[k]
    /\ \A k \in base .. n :
          \A j \in 1 .. IF k = n THEN live ELSE Len(f.blocks[k].syms) :
             f.entries[off[k] + j] = f.blocks[k].syms[j]
    /\ \A k \in 1 .. base - 1 : \A j \in 1 .. Len(f.blocks[k].syms) :
          \E i \in 1 .. off[base] : f.entries[i] = f.blocks[k].syms[j]

LEMMA SegmentsIntro ==
    ASSUME NEW f, NEW n, n = Len(f.blocks), NEW live, NEW base, NEW off,
           SegmentsUpTo(f, n, live, base, off)
    PROVE  Segments(f, live, base, off)
<1>1. SegmentsUpTo(f, Len(f.blocks), live, base, off)
  BY Zenon
<1> QED
  BY <1>1, Zenon DEF SegmentsUpTo, Segments

LEMMA SegmentsSame ==
    ASSUME NEW f, NEW g, g.blocks = f.blocks, g.entries = f.entries,
           NEW live, NEW base, NEW off, Segments(f, live, base, off)
    PROVE  Segments(g, live, base, off)
<1> DEFINE P(b, c) ==
       /\ live <= Len(Last(b).syms)
       /\ b[base].kind \in {"body", "handler"}
       /\ \A k \in base + 1 .. Len(b) : b[k].kind \notin {"body", "handler"}
       /\ \A k \in 1 .. base : b[k].kind # "try"
       /\ \A k \in base .. Len(b) - 1 : off[k + 1] = off[k] + Len(b[k].syms)
       /\ off[Len(b)] + live = Len(c)
       /\ \A j, k \in base .. Len(b) : j < k =>
             /\ off[j] <= off[k]
             /\ (\A i \in j .. k - 1 : b[i].syms = <<>>) => off[j] = off[k]
       /\ \A k \in base .. Len(b) :
             \A j \in 1 .. IF k = Len(b) THEN live ELSE Len(b[k].syms) :
                c[off[k] + j] = b[k].syms[j]
       /\ \A k \in 1 .. base - 1 : \A j \in 1 .. Len(b[k].syms) :
             \E i \in 1 .. off[base] : c[i] = b[k].syms[j]
<1>1. P(f.blocks, f.entries)
  BY Zenon DEF Segments, Innermost
<1>2. P(g.blocks, g.entries) => Segments(g, live, base, off)
  BY Zenon DEF Segments, Innermost
<1> HIDE DEF P
<1>3. P(g.blocks, g.entries)
  BY <1>1, Zenon
<1> QED
  BY <1>2, <1>3

LEMMA StackedSame ==
    ASSUME NEW E, NEW f, NEW live, Stacked(f, E, live), NEW g, SameButSlots(f, g),
           \A s \in Slots : g.slots[s] # Wild
    PROVE  Stacked(g, E, live)
<1>1. /\ g.blocks = f.blocks /\ g.next = f.next /\ g.limit = f.limit
      /\ g.entries = f.entries
  BY DEF SameButSlots
<1>2. ASSUME NEW base, NEW off, Segments(f, live, base, off), Apart(f, E, base, off)
      PROVE  Segments(g, live, base, off) /\ Apart(g, E, base, off)
  <2>1. Segments(g, live, base, off)
    BY <1>1, <1>2, SegmentsSame, Zenon
  <2>2. Apart(g, E, base, off)
    BY <1>1, <1>2, Zenon DEF Apart
  <2> QED
    BY <2>1, <2>2
<1> QED
  BY <1>1, <1>2 DEF Stacked

LEMMA InsertShaped ==
    ASSUME NEW E, NEW f, Shaped(f, E), f.next <= f.limit, NEW v \in Values
    PROVE  Shaped(Insert(f, v), E)
<1> DEFINE n == Len(f.blocks)
           g == Insert(f, v)
<1>1. /\ f \in Frame(E) /\ Closed(E) /\ Scope(f.blocks, f.handlers, f.next) /\ n \in Nat \ {0}
      /\ n \in 1 .. n
  BY ShapedFacts
<1>2. /\ f.next \in Nat \ {0} /\ f.limit \in Slots /\ f.next \in Slots
      /\ f.handlers \in Seq(E) /\ f.blocks \in Seq(Blk)
  <2>1. f.next \in Nat \ {0} /\ f.limit \in Slots /\ f.handlers \in Seq(E) /\ f.blocks \in Seq(Blk)
    BY <1>1, FrameLemma
  <2>2. f.limit \in Nat /\ f.limit <= MaxSlots
    BY <2>1, SlotsLemma
  <2>3. f.next <= MaxSlots
    BY <2>1, <2>2, SlotsLemma
  <2> QED
    BY <2>1, <2>3, SlotsLemma
<1>3. /\ g \in Frame(E)
      /\ g.kind = f.kind /\ g.limit = f.limit /\ g.entries = f.entries
      /\ g.counter = f.counter /\ g.handlers = f.handlers /\ g.inHandler = f.inHandler
      /\ g.next = f.next + 1
      /\ Len(g.blocks) = n /\ \A k \in 1 .. n - 1 : g.blocks[k] = f.blocks[k]
      /\ g.blocks[n].kind = f.blocks[n].kind /\ g.blocks[n].start = f.blocks[n].start
      /\ g.blocks[n].cond = f.blocks[n].cond
      /\ g.blocks[n].syms = Append(f.blocks[n].syms, f.next)
  BY <1>1, <1>2, InsertFields
<1> HIDE DEF g
<1>4. Extends(f.blocks[n], g.blocks[n])
  <2>1. PICK a \in Seq(Slots) : a = f.blocks[n].syms
    BY <1>1, <1>2, BlocksLemma
  <2>2. /\ Len(Append(a, f.next)) = Len(a) + 1 /\ Len(a) \in Nat
        /\ \A i \in 1 .. Len(a) : Append(a, f.next)[i] = a[i]
    <3>1. f.next \in Slots
      BY <1>2
    <3> QED
      BY <3>1, AppendProperties, LenProperties
  <2>3. /\ Len(a) <= Len(Append(a, f.next))
        /\ g.blocks[n].syms = Append(a, f.next)
    BY <1>3, <2>1, <2>2
  <2>4. /\ g.blocks[n].kind = f.blocks[n].kind /\ g.blocks[n].start = f.blocks[n].start
        /\ g.blocks[n].cond = f.blocks[n].cond
    BY <1>3
  <2> QED
    BY <2>1, <2>2, <2>3, <2>4, Zenon DEF Extends
<1>5. g.blocks \in Seq(Blk) /\ f.next + 1 \in Nat /\ f.next <= f.next + 1
  BY <1>2, <1>3, FrameLemma
<1>6. Scope(g.blocks, f.handlers, f.next)
  BY <1>1, <1>2, <1>3, <1>4, <1>5, ScopeSyms
<1>7. Scope(g.blocks, g.handlers, g.next)
  BY <1>1, <1>2, <1>3, <1>5, <1>6, ScopeNext
<1>8. \A e \in E : Below(e, g.next)
  <2>1. \A e \in E : e.label.next \in Nat
    BY <1>1, EntryLemma, LabelLemma
  <2> QED
    BY <1>2, <1>3, <2>1 DEF Shaped, Below
<1>9. g.next <= g.limit + 1
  BY <1>2, <1>3, SlotsLemma
<1>10. \A k \in 1 .. n : g.blocks[k].kind = f.blocks[k].kind
  BY <1>1, <1>3
<1> QED
  BY <1>1, <1>3, <1>7, <1>8, <1>9, <1>10 DEF Shaped, g

LEMMA PushShaped ==
    ASSUME NEW E, NEW f, Shaped(f, E), f.counter < MaxSlots, NEW s \in Slots
    PROVE  Shaped(PushReference(f, s), E)
<1> DEFINE g == PushReference(f, s)
<1>1. f \in Frame(E) /\ f.entries \in Seq(Slots) /\ f.counter \in Nat /\ f.counter = Len(f.entries)
  BY FrameLemma DEF Shaped
<1>2. /\ g \in Frame(E)
      /\ g.kind = f.kind /\ g.limit = f.limit /\ g.next = f.next
      /\ g.handlers = f.handlers /\ g.inHandler = f.inHandler
      /\ g.slots = f.slots /\ g.blocks = f.blocks
      /\ g.counter = f.counter + 1 /\ g.entries = Append(f.entries, s)
  BY <1>1, PushFields
<1> HIDE DEF g
<1>3. g.counter = Len(g.entries)
  BY <1>1, <1>2, AppendProperties
<1>4. g.counter <= MaxSlots
  BY <1>1, <1>2, SlotsLemma
<1> QED
  BY <1>2, <1>3, <1>4 DEF Shaped, g

LEMMA RoomLemma ==
    ASSUME NEW E, NEW f, Shaped(f, E), Room(f)
    PROVE  f.next \in Slots /\ f.next <= f.limit /\ f.counter < MaxSlots
<1>1. f.next \in Nat \ {0} /\ f.limit \in Slots
  BY FrameLemma DEF Shaped
<1> QED
  BY <1>1, SlotsLemma DEF Room

LEMMA NewRefShaped ==
    ASSUME NEW E, NEW f, Shaped(f, E), Room(f), NEW v \in Values
    PROVE  Shaped(NewRef(f, v), E)
<1>1. f.next \in Slots /\ f.next <= f.limit /\ f.counter < MaxSlots
  BY RoomLemma
<1>2. Shaped(Insert(f, v), E)
  BY <1>1, InsertShaped
<1>3. Insert(f, v).counter = f.counter
  BY <1>1, ShapedFacts, InsertFields
<1> QED
  BY <1>1, <1>2, <1>3, PushShaped DEF NewRef

-----------------------------------------------------------------------------
(* Frames stay stacked *)

LEMMA SegmentsLemma ==
    ASSUME NEW E, NEW f, Shaped(f, E), NEW live \in Nat, NEW base \in 1 .. Len(f.blocks),
           NEW off \in [1 .. Len(f.blocks) -> Nat], Segments(f, live, base, off)
    PROVE  /\ off[Len(f.blocks)] + live = Len(f.entries)
           /\ \A k \in base .. Len(f.blocks) :
                 /\ off[k] \in Nat /\ off[k] <= off[Len(f.blocks)] /\ off[k] <= Len(f.entries)
                 /\ k < Len(f.blocks) =>
                       \A j \in 1 .. Len(f.blocks[k].syms) :
                          off[k] + j \in 1 .. off[Len(f.blocks)]
<1> DEFINE n == Len(f.blocks)
<1>1. /\ n \in Nat \ {0} /\ \A k \in 1 .. n : off[k] \in Nat /\ Len(f.blocks[k].syms) \in Nat
      /\ Len(f.entries) \in Nat
  BY ShapedFacts, FrameLemma, BlocksLemma
<1>2. off[n] + live = Len(f.entries)
  BY DEF Segments
<1>3. \A k \in base .. n : k \in 1 .. n /\ off[k] \in Nat
  BY <1>1
<1>4. \A k \in base .. n : off[k] <= off[n]
  <2> SUFFICES ASSUME NEW k \in base .. n PROVE off[k] <= off[n]
    OBVIOUS
  <2>1. k \in Nat /\ n \in base .. n /\ off[k] \in Nat
    BY <1>1, <1>3
  <2>2. k < n => off[k] <= off[n]
    BY <2>1 DEF Segments
  <2>3. k < n \/ k = n
    BY <1>1
  <2> QED
    BY <2>1, <2>2, <2>3
<1>5. n \in 1 .. n
  BY <1>1
<1>6. ASSUME NEW k \in base .. n, k < n, NEW j \in 1 .. Len(f.blocks[k].syms)
      PROVE  off[k] + j \in 1 .. off[n]
  <2>1. k \in base .. n - 1 /\ k + 1 \in base .. n
    BY <1>1, <1>6
  <2>2. off[k + 1] = off[k] + Len(f.blocks[k].syms)
    BY <2>1 DEF Segments
  <2>3. off[k + 1] <= off[n] /\ off[k] \in Nat /\ off[k + 1] \in Nat /\ off[n] \in Nat
    BY <1>3, <1>4, <1>5, <1>1, <2>1
  <2>4. Len(f.blocks[k].syms) \in Nat
    BY <1>1, <1>3
  <2>5. PICK p \in Nat, q \in Nat, r \in Nat : p = off[k] /\ q = off[n] /\ r = Len(f.blocks[k].syms)
    BY <2>3, <2>4
  <2>6. p + r <= q /\ j \in 1 .. r
    BY <2>2, <2>3, <2>5
  <2>7. p + j \in 1 .. q
    BY <2>6
  <2> QED
    BY <2>5, <2>7
<1>7. \A k \in base .. n : off[k] <= Len(f.entries)
  BY <1>1, <1>2, <1>3, <1>4, <1>5
<1> QED
  BY <1>2, <1>3, <1>4, <1>6, <1>7

\* What a new reference changes, in a frame with room.
RefAdded(f, v, g) ==
    LET n == Len(f.blocks)
    IN  /\ g.kind = f.kind /\ g.limit = f.limit
        /\ g.handlers = f.handlers /\ g.inHandler = f.inHandler
        /\ g.next = f.next + 1 /\ g.counter = f.counter + 1
        /\ \A t \in Slots : g.slots[t] = IF t = f.next THEN v ELSE f.slots[t]
        /\ Len(g.entries) = Len(f.entries) + 1
        /\ g.entries[Len(f.entries) + 1] = f.next
        /\ \A i \in 1 .. Len(f.entries) : g.entries[i] = f.entries[i]
        /\ Len(g.blocks) = n /\ \A k \in 1 .. n - 1 : g.blocks[k] = f.blocks[k]
        /\ g.blocks[n].kind = f.blocks[n].kind /\ g.blocks[n].start = f.blocks[n].start
        /\ g.blocks[n].cond = f.blocks[n].cond
        /\ Len(g.blocks[n].syms) = Len(f.blocks[n].syms) + 1
        /\ g.blocks[n].syms[Len(f.blocks[n].syms) + 1] = f.next
        /\ \A i \in 1 .. Len(f.blocks[n].syms) : g.blocks[n].syms[i] = f.blocks[n].syms[i]

LEMMA NewRefFields ==
    ASSUME NEW E, NEW f, Shaped(f, E), Room(f), NEW v \in Values
    PROVE  NewRef(f, v) \in Frame(E) /\ RefAdded(f, v, NewRef(f, v))
<1> DEFINE h == Insert(f, v)
<1> SUFFICES ASSUME NEW g, g = NewRef(f, v), NEW n, n = Len(f.blocks)
             PROVE  g \in Frame(E) /\ RefAdded(f, v, g)
  OBVIOUS
<1>1. f.next \in Slots /\ f \in Frame(E) /\ n \in Nat \ {0} /\ n \in 1 .. n
  BY RoomLemma, ShapedFacts
<1>2. /\ h \in Frame(E)
      /\ h.kind = f.kind /\ h.limit = f.limit /\ h.entries = f.entries
      /\ h.counter = f.counter /\ h.handlers = f.handlers /\ h.inHandler = f.inHandler
      /\ h.next = f.next + 1
      /\ \A t \in Slots : h.slots[t] = IF t = f.next THEN v ELSE f.slots[t]
      /\ Len(h.blocks) = n /\ \A k \in 1 .. n - 1 : h.blocks[k] = f.blocks[k]
      /\ h.blocks[n].kind = f.blocks[n].kind /\ h.blocks[n].start = f.blocks[n].start
      /\ h.blocks[n].cond = f.blocks[n].cond
      /\ h.blocks[n].syms = Append(f.blocks[n].syms, f.next)
  <2>1. n >= 1
    BY <1>1
  <2> QED
    BY <1>1, <2>1, InsertFields
<1> HIDE DEF h
<1>3. /\ g \in Frame(E)
      /\ g.kind = h.kind /\ g.limit = h.limit /\ g.next = h.next
      /\ g.handlers = h.handlers /\ g.inHandler = h.inHandler
      /\ g.slots = h.slots /\ g.blocks = h.blocks
      /\ g.counter = h.counter + 1 /\ g.entries = Append(h.entries, f.next)
  <2>1. g = PushReference(h, f.next)
    BY DEF NewRef, h
  <2> DEFINE p == PushReference(h, f.next)
  <2>2. /\ p \in Frame(E)
        /\ p.kind = h.kind /\ p.limit = h.limit /\ p.next = h.next
        /\ p.handlers = h.handlers /\ p.inHandler = h.inHandler
        /\ p.slots = h.slots /\ p.blocks = h.blocks
        /\ p.counter = h.counter + 1 /\ p.entries = Append(h.entries, f.next)
    BY <1>1, <1>2, PushFields
  <2> HIDE DEF p
  <2>3. g = p
    BY <2>1 DEF p
  <2> QED
    BY <2>2, <2>3
<1>5. f.entries \in Seq(Slots) /\ f.blocks[n].syms \in Seq(Slots)
  BY <1>1, FrameLemma, BlocksLemma
<1>6. /\ Len(g.entries) = Len(f.entries) + 1 /\ g.entries[Len(f.entries) + 1] = f.next
      /\ \A i \in 1 .. Len(f.entries) : g.entries[i] = f.entries[i]
  BY <1>1, <1>2, <1>3, <1>5, AppendProperties
<1>7. PICK a \in Seq(Slots) : a = f.blocks[n].syms
  BY <1>5
<1>8. /\ Len(Append(a, f.next)) = Len(a) + 1 /\ Append(a, f.next)[Len(a) + 1] = f.next
      /\ \A i \in 1 .. Len(a) : Append(a, f.next)[i] = a[i]
  BY <1>1, AppendProperties
<1>9. g.blocks[n].syms = Append(a, f.next)
  BY <1>2, <1>3, <1>7
<1>10. /\ Len(g.blocks[n].syms) = Len(f.blocks[n].syms) + 1
       /\ g.blocks[n].syms[Len(f.blocks[n].syms) + 1] = f.next
       /\ \A i \in 1 .. Len(f.blocks[n].syms) : g.blocks[n].syms[i] = f.blocks[n].syms[i]
  BY <1>7, <1>8, <1>9
<1>11. /\ g.kind = f.kind /\ g.limit = f.limit
       /\ g.handlers = f.handlers /\ g.inHandler = f.inHandler
       /\ g.next = f.next + 1 /\ g.counter = f.counter + 1
       /\ \A t \in Slots : g.slots[t] = IF t = f.next THEN v ELSE f.slots[t]
  BY <1>2, <1>3
<1>12. /\ Len(g.blocks) = n /\ \A k \in 1 .. n - 1 : g.blocks[k] = f.blocks[k]
       /\ g.blocks[n].kind = f.blocks[n].kind /\ g.blocks[n].start = f.blocks[n].start
       /\ g.blocks[n].cond = f.blocks[n].cond
  BY <1>2, <1>3
<1> QED
  BY <1>3, <1>6, <1>10, <1>11, <1>12 DEF RefAdded

LEMMA NewRefStacked ==
    ASSUME NEW E, NEW f, Shaped(f, E), Stacked(f, E, Len(Innermost(f).syms)), Room(f),
           NEW v \in Values, v # Wild
    PROVE  Stacked(NewRef(f, v), E, Len(Innermost(NewRef(f, v)).syms))
<1> DEFINE g == NewRef(f, v)
           n == Len(f.blocks)
           live == Len(Innermost(f).syms)
<1>1. /\ g \in Frame(E) /\ g.limit = f.limit
      /\ g.next = f.next + 1
      /\ \A t \in Slots : g.slots[t] = IF t = f.next THEN v ELSE f.slots[t]
      /\ Len(g.entries) = Len(f.entries) + 1
      /\ g.entries[Len(f.entries) + 1] = f.next
      /\ \A i \in 1 .. Len(f.entries) : g.entries[i] = f.entries[i]
      /\ Len(g.blocks) = n /\ \A k \in 1 .. n - 1 : g.blocks[k] = f.blocks[k]
      /\ g.blocks[n].kind = f.blocks[n].kind /\ g.blocks[n].start = f.blocks[n].start
      /\ g.blocks[n].cond = f.blocks[n].cond
      /\ Len(g.blocks[n].syms) = Len(f.blocks[n].syms) + 1
      /\ g.blocks[n].syms[Len(f.blocks[n].syms) + 1] = f.next
      /\ \A i \in 1 .. Len(f.blocks[n].syms) : g.blocks[n].syms[i] = f.blocks[n].syms[i]
  <2>1. g \in Frame(E) /\ RefAdded(f, v, g)
    BY NewRefFields
  <2> HIDE DEF g, live
  <2> QED
    BY <2>1 DEF RefAdded
<1> HIDE DEF g
<1>2. /\ n \in Nat \ {0} /\ n \in 1 .. n /\ Innermost(f) = f.blocks[n] /\ live \in Nat
      /\ Closed(E) /\ f \in Frame(E)
  BY ShapedFacts
<1>3. /\ Innermost(g) = g.blocks[n] /\ Len(Innermost(g).syms) = live + 1
  BY <1>1, <1>2 DEF Innermost, Last
<1>4. f.next \in Nat \ {0} /\ f.limit \in Nat /\ f.next <= f.limit /\ Len(f.entries) \in Nat
  <2>1. f.next \in Slots /\ f.limit \in Slots /\ f.next <= f.limit
    BY <1>2, RoomLemma, FrameLemma
  <2> QED
    BY <1>2, <2>1, FrameLemma, SlotsLemma
<1>5. \A k \in 1 .. n : g.blocks[k].kind = f.blocks[k].kind
                        /\ g.blocks[k].start = f.blocks[k].start
                        /\ g.blocks[k].cond = f.blocks[k].cond
  <2>1. \A k \in 1 .. n : k \in 1 .. n - 1 \/ k = n
    BY <1>2
  <2> QED
    BY <1>1, <2>1
<1>6. PICK base \in 1 .. n, off \in [1 .. n -> Nat] :
         Segments(f, live, base, off) /\ Apart(f, E, base, off)
  BY DEF Stacked
<1>7. /\ off[n] + live = Len(f.entries)
      /\ \A k \in base .. n :
            /\ off[k] \in Nat /\ off[k] <= off[n] /\ off[k] <= Len(f.entries)
            /\ k < n => \A j \in 1 .. Len(f.blocks[k].syms) : off[k] + j \in 1 .. off[n]
  BY <1>2, <1>6, SegmentsLemma
<1> HIDE DEF live
<1>8. Segments(g, live + 1, base, off)
  <2>1. live + 1 <= Len(Innermost(g).syms)
    BY <1>2, <1>3
  <2>2. /\ g.blocks[base].kind \in {"body", "handler"}
        /\ \A k \in base + 1 .. n : g.blocks[k].kind \notin {"body", "handler"}
        /\ \A k \in 1 .. base : g.blocks[k].kind # "try"
    <3>1. /\ f.blocks[base].kind \in {"body", "handler"}
          /\ \A k \in base + 1 .. n : f.blocks[k].kind \notin {"body", "handler"}
          /\ \A k \in 1 .. base : f.blocks[k].kind # "try"
      BY <1>6 DEF Segments
    <3>2. /\ \A k \in base + 1 .. n : k \in 1 .. n
          /\ \A k \in 1 .. base : k \in 1 .. n
      BY <1>2
    <3> QED
      BY <1>5, <3>1, <3>2
  <2>3. \A k \in base .. n - 1 : off[k + 1] = off[k] + Len(g.blocks[k].syms)
    <3>1. \A k \in base .. n - 1 : off[k + 1] = off[k] + Len(f.blocks[k].syms)
      BY <1>6 DEF Segments
    <3>2. \A k \in base .. n - 1 : k \in 1 .. n - 1
      BY <1>2
    <3> QED
      BY <1>1, <3>1, <3>2
  <2>4. off[n] + (live + 1) = Len(g.entries)
    <3>1. off[n] \in Nat /\ Len(f.entries) \in Nat /\ off[n] + live = Len(f.entries)
      BY <1>2, <1>4, <1>6, <1>7
    <3>2. PICK p \in Nat, r \in Nat : p = off[n] /\ r = Len(f.entries)
      BY <3>1
    <3>3. PICK q \in Nat : q = live
      BY <1>2
    <3>4. p + q = r
      BY <3>1, <3>2, <3>3
    <3>5. p + (q + 1) = r + 1
      BY <3>4
    <3>6. off[n] + (live + 1) = Len(f.entries) + 1
      BY <3>2, <3>3, <3>5
    <3> QED
      BY <1>1, <3>6
  <2>5. \A j, k \in base .. n : j < k =>
           /\ off[j] <= off[k]
           /\ (\A i \in j .. k - 1 : g.blocks[i].syms = <<>>) => off[j] = off[k]
    <3> SUFFICES ASSUME NEW j \in base .. n, NEW k \in base .. n, j < k
                 PROVE  /\ off[j] <= off[k]
                        /\ (\A i \in j .. k - 1 : g.blocks[i].syms = <<>>) => off[j] = off[k]
      OBVIOUS
    <3>1. \A i \in j .. k - 1 : i \in 1 .. n - 1
      BY <1>2
    <3>2. \A i \in j .. k - 1 : g.blocks[i] = f.blocks[i]
      BY <1>1, <3>1
    <3>3. /\ off[j] <= off[k]
          /\ (\A i \in j .. k - 1 : f.blocks[i].syms = <<>>) => off[j] = off[k]
      BY <1>6 DEF Segments
    <3> QED
      BY <3>2, <3>3
  <2>6. ASSUME NEW k \in base .. n,
               NEW j \in 1 .. IF k = n THEN live + 1 ELSE Len(g.blocks[k].syms)
        PROVE  g.entries[off[k] + j] = g.blocks[k].syms[j]
    <3>1. CASE k < n
      <4>1. k \in 1 .. n - 1 /\ k # n /\ g.blocks[k] = f.blocks[k]
        BY <1>1, <1>2, <3>1
      <4>2. j \in 1 .. Len(f.blocks[k].syms)
        BY <2>6, <4>1
      <4>3. f.entries[off[k] + j] = f.blocks[k].syms[j]
        BY <1>6, <4>1, <4>2 DEF Segments
      <4>4. off[k] + j \in 1 .. Len(f.entries)
        <5>1. off[k] + j \in 1 .. off[n] /\ off[n] \in Nat
          BY <1>2, <1>6, <1>7, <3>1, <4>2
        <5> QED
          BY <1>2, <1>4, <1>7, <5>1
      <4> QED
        BY <1>1, <4>1, <4>3, <4>4
    <3>2. CASE k = n /\ j \in 1 .. live
      <4>1. f.entries[off[n] + j] = f.blocks[n].syms[j]
        BY <1>6, <3>2 DEF Segments
      <4>2. off[n] + j \in 1 .. Len(f.entries) /\ off[n] \in Nat
        BY <1>2, <1>6, <1>7, <3>2
      <4>3. Len(f.blocks[n].syms) = live
        BY <1>2 DEF live
      <4> QED
        BY <1>1, <3>2, <4>1, <4>2, <4>3
    <3>3. CASE k = n /\ j = live + 1
      <4>1. off[n] + (live + 1) = Len(f.entries) + 1
        BY <1>1, <2>4
      <4>2. Len(f.blocks[n].syms) = live
        BY <1>2 DEF live
      <4> QED
        BY <1>1, <3>3, <4>1, <4>2
    <3>4. k < n \/ (k = n /\ j \in 1 .. live) \/ (k = n /\ j = live + 1)
      BY <1>2, <2>6
    <3> QED
      BY <3>1, <3>2, <3>3, <3>4
  <2>7. ASSUME NEW k \in 1 .. base - 1, NEW j \in 1 .. Len(g.blocks[k].syms)
        PROVE  \E i \in 1 .. off[base] : g.entries[i] = g.blocks[k].syms[j]
    <3>1. k \in 1 .. n - 1 /\ g.blocks[k] = f.blocks[k] /\ base \in base .. n
      BY <1>1, <1>2
    <3>2. PICK i \in 1 .. off[base] : f.entries[i] = f.blocks[k].syms[j]
      BY <1>6, <2>7, <3>1 DEF Segments
    <3>3. i \in 1 .. Len(f.entries)
      BY <1>4, <1>7, <3>1
    <3> QED
      BY <1>1, <3>1, <3>2, <3>3
  <2> HIDE DEF n
  <2> QED
    BY <1>1, <2>1, <2>2, <2>3, <2>4, <2>5, <2>6, <2>7, Zenon DEF Segments
<1>9. Apart(g, E, base, off)
  <2>1. \A i \in 1 .. Len(g.entries) : i \in 1 .. Len(f.entries) \/ i = Len(f.entries) + 1
    BY <1>1, <1>4
  <2>2. \A i \in 1 .. Len(f.entries) : f.entries[i] # f.next /\ f.entries[i] \in Nat
    <3>1. \A i \in 1 .. Len(f.entries) : f.entries[i] \in Nat
      BY <1>2, FrameLemma, SlotsLemma
    <3>2. \A i \in 1 .. Len(f.entries) : f.next <= f.entries[i] => f.entries[i] > f.limit
      BY <1>6 DEF Apart
    <3> QED
      BY <1>4, <3>1, <3>2
  <2>3. ASSUME NEW i \in 1 .. Len(g.entries), NEW j \in 1 .. Len(g.entries),
               g.entries[i] = g.entries[j]
        PROVE  i = j
    <3>1. CASE i \in 1 .. Len(f.entries) /\ j \in 1 .. Len(f.entries)
      BY <1>1, <1>6, <2>3, <3>1 DEF Apart
    <3>2. CASE ~(i \in 1 .. Len(f.entries) /\ j \in 1 .. Len(f.entries))
      BY <1>1, <2>1, <2>2, <2>3, <3>2
    <3> QED
      BY <3>1, <3>2
  <2>4. ASSUME NEW i \in 1 .. Len(g.entries)
        PROVE  /\ g.next <= g.entries[i] => g.entries[i] > g.limit
               /\ \A k \in base + 1 .. n :
                     g.blocks[k].start <= g.entries[i] /\ g.entries[i] <= g.limit => i > off[k]
               /\ \A e \in E : e.label.kind = "onerror" => g.entries[i] # e.label.next
    <3>1. CASE i \in 1 .. Len(f.entries)
      <4>1. g.entries[i] = f.entries[i] /\ f.entries[i] \in Nat
        BY <1>1, <2>2, <3>1
      <4>2. g.next <= g.entries[i] => g.entries[i] > g.limit
        <5>1. f.next <= f.entries[i] => f.entries[i] > f.limit
          BY <1>6, <3>1, Zenon DEF Apart
        <5>2. PICK x \in Nat, y \in Nat, z \in Nat :
                 x = f.next /\ y = f.entries[i] /\ z = f.limit /\ g.next = x + 1 /\ g.limit = z
          BY <1>1, <1>4, <4>1, SlotsLemma
        <5> QED
          BY <4>1, <5>1, <5>2
      <4>3. \A k \in base + 1 .. n : g.blocks[k].start = f.blocks[k].start
        BY <1>2, <1>5
      <4>4. \A k \in base + 1 .. n :
               f.blocks[k].start <= f.entries[i] /\ f.entries[i] <= f.limit => i > off[k]
        BY <1>6, <3>1 DEF Apart
      <4>5. \A e \in E : e.label.kind = "onerror" => f.entries[i] # e.label.next
        BY <1>6, <3>1 DEF Apart
      <4> QED
        BY <1>1, <4>1, <4>2, <4>3, <4>4, <4>5
    <3>2. CASE i = Len(f.entries) + 1
      <4>1. g.entries[i] = f.next
        BY <1>1, <3>2
      <4>2. ~(g.next <= g.entries[i])
        BY <1>1, <1>4, <4>1
      <4>3. \A k \in base + 1 .. n : k \in base .. n
        BY <1>2
      <4>4. \A k \in base + 1 .. n : i > off[k]
        BY <1>4, <1>7, <3>2, <4>3
      <4>5. \A e \in E : e.label.next \in Nat /\ Below(e, f.next)
        BY <1>2, EntryLemma, LabelLemma DEF Shaped
      <4>6. \A e \in E : e.label.kind = "onerror" => f.next # e.label.next
        BY <1>4, <4>5 DEF Below
      <4> QED
        BY <4>1, <4>2, <4>4, <4>6
    <3> QED
      BY <2>1, <3>1, <3>2
  <2> QED
    BY <1>1, <2>3, <2>4 DEF Apart
<1>10. /\ \A k \in 1 .. Len(g.blocks) : g.blocks[k].cond = 0
       /\ \A s \in Slots : g.slots[s] # Wild
  BY <1>1, <1>5 DEF Stacked
<1> QED
  BY <1>1, <1>3, <1>8, <1>9, <1>10 DEF Stacked, g

-----------------------------------------------------------------------------
(* Sets of entries *)

LEMMA LabelsMono ==
    ASSUME NEW E, NEW F, E \subseteq F
    PROVE  Labels(E) \subseteq Labels(F) /\ Frame(E) \subseteq Frame(F)
<1>1. Seq(E) \subseteq Seq(F)
  <2> SUFFICES ASSUME NEW s \in Seq(E) PROVE s \in Seq(F)
    OBVIOUS
  <2>1. \A i \in 1 .. Len(s) : s[i] \in F
    BY ElementOfSeq
  <2> QED
    BY <2>1, SeqOfElements
<1> QED
  BY <1>1 DEF Labels, Frame

LEMMA ClosedAdd ==
    ASSUME NEW E, Closed(E), NEW h, h \in [level : Nat, label : Labels(E)], SoundEntry(h)
    PROVE  Closed(E \cup {h})
<1>1. Labels(E) \subseteq Labels(E \cup {h})
  BY LabelsMono
<1> QED
  BY <1>1 DEF Closed

\* The entries that were there before the slot x was given out.
LEMMA ClosedBelow ==
    ASSUME NEW E, Closed(E), NEW x \in Nat
    PROVE  Closed(EarlierThan(E, x))
<1> DEFINE F == {e \in E : Below(e, x)}
<1>1. SUFFICES ASSUME NEW e \in F
               PROVE  e \in [level : Nat, label : Labels(F)] /\ SoundEntry(e)
  BY DEF Closed, EarlierThan
<1>2. /\ e \in E /\ Below(e, x) /\ e.level \in Nat /\ e.label \in Labels(E) /\ SoundEntry(e)
      /\ e = [level |-> e.level, label |-> e.label]
  BY EntryLemma
<1>3. /\ e.label.kind \in {"try", "onerror"} /\ e.label.blocks \in Seq(Blk)
      /\ e.label.next \in Nat \ {0} /\ e.label.handlers \in Seq(E)
      /\ e.label = [kind |-> e.label.kind, blocks |-> e.label.blocks, next |-> e.label.next,
                    handlers |-> e.label.handlers]
  BY <1>2 DEF Labels
<1>4. e.label.next <= x
  BY <1>2 DEF Below
<1>5. ASSUME NEW i \in 1 .. Len(e.label.handlers)
      PROVE  e.label.handlers[i] \in F
  <2>1. e.label.handlers[i] \in E /\ Below(e.label.handlers[i], e.label.next)
    BY <1>2, <1>3, EntriesLemma DEF SoundEntry, Scope
  <2>2. e.label.handlers[i].label.next \in Nat
    BY <2>1, EntryLemma, LabelLemma
  <2>3. Below(e.label.handlers[i], x)
    BY <1>3, <1>4, <2>1, <2>2 DEF Below
  <2> QED
    BY <2>1, <2>3
<1>6. e.label.handlers \in Seq(F)
  <2> HIDE DEF F
  <2> QED
    BY <1>3, <1>5, SeqOfElements
<1>7. e.label \in Labels(F)
  <2> HIDE DEF F
  <2>1. PICK k \in {"try", "onerror"}, b \in Seq(Blk), m \in Nat \ {0}, l \in Seq(F) :
           e.label = [kind |-> k, blocks |-> b, next |-> m, handlers |-> l]
    BY <1>3, <1>6
  <2> QED
    BY <2>1 DEF Labels
<1> QED
  BY <1>2, <1>7

\* Of a list that is in scope at x, all entries are among them.
LEMMA ListBelow ==
    ASSUME NEW E, NEW list \in Seq(E), NEW blocks, NEW x, Scope(blocks, list, x)
    PROVE  list \in Seq(EarlierThan(E, x))
<1> DEFINE F == {e \in E : Below(e, x)}
<1>1. \A i \in 1 .. Len(list) : list[i] \in F
  BY ElementOfSeq DEF Scope
<1> HIDE DEF F
<1>2. list \in Seq(F)
  BY <1>1, SeqOfElements
<1> QED
  BY <1>2 DEF F, EarlierThan

-----------------------------------------------------------------------------
(* A block is opened *)

\* What opening the block b changes of the part of a frame that follows the stack.
Opened(f, b, g) ==
    /\ g.blocks = Append(f.blocks, b)
    /\ g.slots = f.slots /\ g.entries = f.entries /\ g.next = f.next /\ g.limit = f.limit

LEMMA OpenedStacked ==
    ASSUME NEW E, NEW f, Shaped(f, E), Stacked(f, E, Len(Innermost(f).syms)),
           NEW b \in Blk, b.kind \notin {"body", "handler"}, b.syms = <<>>, b.cond = 0,
           b.start = f.next, NEW g, Opened(f, b, g)
    PROVE  Stacked(g, E, 0)
<1>6. PICK n \in Nat \ {0}, live \in Nat : n = Len(f.blocks) /\ live = Len(Innermost(f).syms)
  BY ShapedFacts
<1>1. /\ n \in Nat \ {0} /\ n \in 1 .. n /\ Innermost(f) = f.blocks[n] /\ live \in Nat
      /\ f.blocks \in Seq(Blk) /\ Len(f.entries) \in Nat /\ f.next \in Nat /\ f.limit \in Nat
      /\ \A i \in 1 .. Len(f.entries) : f.entries[i] \in Nat
  BY <1>6, ShapedFacts, FrameLemma, SlotsLemma
<1>2. /\ Len(g.blocks) = n + 1 /\ g.blocks[n + 1] = b
      /\ \A k \in 1 .. n : g.blocks[k] = f.blocks[k]
      /\ g.slots = f.slots /\ g.entries = f.entries /\ g.next = f.next /\ g.limit = f.limit
  BY <1>1, <1>6, AppendProperties DEF Opened
<1>3. PICK base \in 1 .. n, off \in [1 .. n -> Nat] :
         Segments(f, live, base, off) /\ Apart(f, E, base, off)
  BY <1>6 DEF Stacked
<1>4. /\ off[n] + live = Len(f.entries)
      /\ \A k \in base .. n :
            /\ off[k] \in Nat /\ off[k] <= off[n] /\ off[k] <= Len(f.entries)
            /\ k < n => \A j \in 1 .. Len(f.blocks[k].syms) : off[k] + j \in 1 .. off[n]
  BY <1>1, <1>3, <1>6, SegmentsLemma
<1>5. /\ f.blocks[base].kind \in {"body", "handler"}
      /\ \A k \in base + 1 .. n : f.blocks[k].kind \notin {"body", "handler"}
      /\ \A k \in 1 .. base : f.blocks[k].kind # "try"
      /\ \A k \in base .. n - 1 : off[k + 1] = off[k] + Len(f.blocks[k].syms)
      /\ \A j, k \in base .. n : j < k =>
            /\ off[j] <= off[k]
            /\ (\A i \in j .. k - 1 : f.blocks[i].syms = <<>>) => off[j] = off[k]
      /\ \A k \in base .. n :
            \A j \in 1 .. IF k = n THEN live ELSE Len(f.blocks[k].syms) :
               f.entries[off[k] + j] = f.blocks[k].syms[j]
      /\ \A k \in 1 .. base - 1 : \A j \in 1 .. Len(f.blocks[k].syms) :
            \E i \in 1 .. off[base] : f.entries[i] = f.blocks[k].syms[j]
  BY <1>3, <1>6 DEF Segments
<1>16. /\ f.blocks[base].kind \in {"body", "handler"}
       /\ \A k \in base + 1 .. n : f.blocks[k].kind \notin {"body", "handler"}
       /\ \A k \in 1 .. base : f.blocks[k].kind # "try"
  BY <1>5
<1>17. \A j, k \in base .. n : j < k =>
            /\ off[j] <= off[k]
            /\ (\A i \in j .. k - 1 : f.blocks[i].syms = <<>>) => off[j] = off[k]
  BY <1>5
<1>18. \A i \in 1 .. Len(f.entries) :
          /\ f.next <= f.entries[i] => f.entries[i] > f.limit
          /\ \A k \in base + 1 .. n :
                f.blocks[k].start <= f.entries[i] /\ f.entries[i] <= f.limit => i > off[k]
          /\ \A e \in E : e.label.kind = "onerror" => f.entries[i] # e.label.next
  BY <1>3, <1>6 DEF Apart
<1>7. PICK new \in [1 .. n + 1 -> Nat] :
         new[n + 1] = Len(f.entries) /\ \A k \in 1 .. n : new[k] = off[k]
  <2>1. \A k \in 1 .. n : off[k] \in Nat
    BY <1>3, <1>6
  <2> DEFINE w == [k \in 1 .. n + 1 |-> IF k = n + 1 THEN Len(f.entries) ELSE off[k]]
  <2>2. w \in [1 .. n + 1 -> Nat]
    BY <1>1, <2>1
  <2>3. w[n + 1] = Len(f.entries) /\ \A k \in 1 .. n : w[k] = off[k]
    OBVIOUS
  <2> QED
    BY <2>2, <2>3
<1>8. Innermost(g) = b /\ Len(Innermost(g).syms) = 0
  BY <1>1, <1>2, EmptySeq DEF Innermost, Last
<1>9. live = Len(f.blocks[n].syms)
  BY <1>1, <1>6
<1>10. Len(f.blocks) = n /\ Len(g.blocks) = n + 1
  BY <1>2, <1>6
<1>11. base \in 1 .. n /\ base \in base .. n /\ n \in base .. n
  BY <1>6
<1>12. Segments(g, 0, base, new)
  <2>1. /\ g.blocks[base].kind \in {"body", "handler"}
        /\ \A k \in base + 1 .. n + 1 : g.blocks[k].kind \notin {"body", "handler"}
        /\ \A k \in 1 .. base : g.blocks[k].kind # "try"
    <3>1. \A k \in base + 1 .. n + 1 : (k \in base + 1 .. n /\ k \in 1 .. n) \/ k = n + 1
      BY <1>11
    <3>2. \A k \in 1 .. base : k \in 1 .. n
      BY <1>11
    <3> QED
      BY <1>2, <1>16, <3>1, <3>2
  <2>2. ASSUME NEW k \in base .. n + 1 - 1
        PROVE  new[k + 1] = new[k] + Len(g.blocks[k].syms)
    <3>1. k \in 1 .. n /\ k \in base .. n /\ new[k] = off[k] /\ g.blocks[k] = f.blocks[k]
      BY <1>2, <1>6, <1>7, <1>11
    <3>2. CASE k < n
      <4>1. k \in base .. n - 1 /\ k + 1 \in 1 .. n
        BY <3>1, <3>2
      <4>2. off[k + 1] = off[k] + Len(f.blocks[k].syms) /\ new[k + 1] = off[k + 1]
        BY <1>5, <1>6, <1>7, <4>1
      <4> QED
        BY <3>1, <4>2
    <3>3. CASE k = n
      BY <1>4, <1>6, <1>7, <1>9, <3>1, <3>3
    <3> QED
      BY <3>1, <3>2, <3>3
  <2>3. new[n + 1] + 0 = Len(g.entries)
    BY <1>1, <1>2, <1>7
  <2>4. ASSUME NEW j \in base .. n + 1, NEW k \in base .. n + 1, j < k
        PROVE  /\ new[j] <= new[k]
               /\ (\A i \in j .. k - 1 : g.blocks[i].syms = <<>>) => new[j] = new[k]
    <3>1. j \in base .. n /\ j \in 1 .. n /\ new[j] = off[j] /\ off[j] \in Nat
      BY <1>4, <1>6, <1>7, <1>11, <2>4
    <3>2. CASE k \in base .. n
      <4>1. \A i \in j .. k - 1 : i \in 1 .. n
        BY <1>11
      <4>2. new[k] = off[k]
        BY <1>7, <1>11, <3>2
      <4>3. \A i \in j .. k - 1 : g.blocks[i] = f.blocks[i]
        BY <1>2, <4>1
      <4>4. /\ off[j] <= off[k]
            /\ (\A i \in j .. k - 1 : f.blocks[i].syms = <<>>) => off[j] = off[k]
        BY <1>17, <2>4, <3>1, <3>2
      <4> QED
        BY <3>1, <4>2, <4>3, <4>4
    <3>3. CASE k = n + 1
      <4>1. new[k] = Len(f.entries) /\ off[j] <= Len(f.entries)
        BY <1>4, <1>6, <1>7, <3>1, <3>3
      <4>2. ASSUME \A i \in j .. k - 1 : g.blocks[i].syms = <<>>
            PROVE  off[j] = Len(f.entries)
        <5>1. \A i \in j .. n : i \in j .. k - 1 /\ i \in 1 .. n
          BY <1>11, <3>3
        <5>2. \A i \in j .. n : f.blocks[i].syms = <<>>
          BY <1>2, <1>6, <4>2, <5>1
        <5>3. live = 0
          BY <1>9, <3>1, <5>2, EmptySeq
        <5>4. off[n] = Len(f.entries)
          <6>1. off[n] \in Nat /\ off[n] + live = Len(f.entries)
            BY <1>4, <1>6, <1>11
          <6> QED
            BY <5>3, <6>1
        <5>5. j = n \/ off[j] = off[n]
          <6>1. \A i \in j .. n - 1 : i \in j .. n
            OBVIOUS
          <6>2. j < n => off[j] = off[n]
            BY <1>11, <1>17, <3>1, <5>2, <6>1
          <6> QED
            BY <3>1, <6>2
        <5> QED
          BY <5>4, <5>5
      <4> QED
        BY <3>1, <4>1, <4>2
    <3> QED
      BY <3>2, <3>3
  <2>5. ASSUME NEW k \in base .. n + 1,
               NEW j \in 1 .. IF k = n + 1 THEN 0 ELSE Len(g.blocks[k].syms)
        PROVE  g.entries[new[k] + j] = g.blocks[k].syms[j]
    <3>1. k # n + 1
      BY <2>5
    <3>2. k \in 1 .. n /\ k \in base .. n
      BY <1>11, <3>1
    <3>3. new[k] = off[k] /\ g.blocks[k] = f.blocks[k] /\ j \in 1 .. Len(f.blocks[k].syms)
      BY <1>2, <1>6, <1>7, <2>5, <3>1, <3>2
    <3>4. j \in 1 .. IF k = n THEN live ELSE Len(f.blocks[k].syms)
      BY <1>9, <3>3
    <3> QED
      BY <1>2, <1>5, <1>6, <3>2, <3>3, <3>4
  <2>6. ASSUME NEW k \in 1 .. base - 1, NEW j \in 1 .. Len(g.blocks[k].syms)
        PROVE  \E i \in 1 .. new[base] : g.entries[i] = g.blocks[k].syms[j]
    <3>1. k \in 1 .. n /\ new[base] = off[base] /\ g.blocks[k] = f.blocks[k]
      BY <1>2, <1>7, <1>11
    <3>2. \E i \in 1 .. off[base] : f.entries[i] = f.blocks[k].syms[j]
      BY <1>5, <2>6, <3>1
    <3> QED
      BY <1>2, <3>1, <3>2
  <2> QED
    <3>1. 0 <= Len(Innermost(g).syms)
      BY <1>8
    <3>2. SegmentsUpTo(g, n + 1, 0, base, new)
      BY <2>1, <2>2, <2>3, <2>4, <2>5, <2>6, <3>1, SMT DEF SegmentsUpTo
    <3> QED
      BY <1>10, <3>2, SegmentsIntro, Zenon
<1>13. Apart(g, E, base, new)
  <2>1. ASSUME NEW i \in 1 .. Len(f.entries), NEW k \in base + 1 .. n + 1,
               g.blocks[k].start <= f.entries[i], f.entries[i] <= f.limit
        PROVE  i > new[k]
    <3>1. CASE k \in 1 .. n
      <4>1. k \in base + 1 .. n /\ g.blocks[k] = f.blocks[k] /\ new[k] = off[k]
        BY <1>2, <1>6, <1>7, <3>1
      <4> QED
        BY <1>18, <2>1, <4>1
    <3>2. CASE k = n + 1
      <4>1. f.next <= f.entries[i]
        BY <1>2, <1>6, <2>1, <3>2
      <4>2. f.entries[i] > f.limit
        BY <1>18, <4>1
      <4>3. PICK p \in Nat, q \in Nat : p = f.entries[i] /\ q = f.limit
        BY <1>1
      <4>4. p > q /\ p <= q
        BY <2>1, <4>2, <4>3
      <4> QED
        BY <4>4
    <3>3. k \in 1 .. n \/ k = n + 1
      BY <1>11
    <3> QED
      BY <3>1, <3>2, <3>3
  <2> QED
    <3>1. \A i, j \in 1 .. Len(f.entries) : f.entries[i] = f.entries[j] => i = j
      BY <1>3 DEF Apart
    <3> QED
      BY <1>2, <1>10, <1>18, <2>1, <3>1 DEF Apart
<1>14. /\ \A k \in 1 .. n + 1 : g.blocks[k].cond = 0
       /\ \A s \in Slots : g.slots[s] # Wild
  <2>1. \A k \in 1 .. n + 1 : k \in 1 .. n \/ k = n + 1
    OBVIOUS
  <2> QED
    BY <1>2, <1>6, <1>10, <2>1 DEF Stacked
<1>15. base \in 1 .. n + 1
  BY <1>11
<1> QED
  BY <1>10, <1>12, <1>13, <1>14, <1>15 DEF Stacked

LEMMA OpenedShaped ==
    ASSUME NEW E, NEW f, Shaped(f, E),
           Level(f) < MaxLevel \/ (f.inHandler /\ Level(f) <= MaxLevel),
           NEW b \in Blk, b.kind \in {"block", "loop"}, b.start = f.next
    PROVE  LET g == [f EXCEPT !.blocks = Append(@, b)]
           IN  Shaped(g, E) /\ Opened(f, b, g)
<1> DEFINE g == [f EXCEPT !.blocks = Append(@, b)]
           c == Append(f.blocks, b)
<1>1. /\ f \in Frame(E) /\ Closed(E) /\ Scope(f.blocks, f.handlers, f.next)
      /\ f.blocks \in Seq(Blk) /\ f.handlers \in Seq(E) /\ f.next \in Nat
      /\ Level(f) = Len(f.blocks) - 1 /\ Len(f.blocks) \in Nat \ {0}
  BY ShapedFacts, FrameLemma
<1>2. /\ c \in Seq(Blk) /\ Len(c) = Len(f.blocks) + 1 /\ c[Len(f.blocks) + 1] = b
      /\ \A k \in 1 .. Len(f.blocks) : c[k] = f.blocks[k]
      /\ Scope(c, f.handlers, f.next)
  BY <1>1, ScopeAppend
<1> HIDE DEF c
<1>3. /\ g \in Frame(E) /\ g.blocks = c
      /\ g.kind = f.kind /\ g.slots = f.slots /\ g.next = f.next /\ g.limit = f.limit
      /\ g.entries = f.entries /\ g.counter = f.counter /\ g.handlers = f.handlers
      /\ g.inHandler = f.inHandler
  BY <1>1, <1>2 DEF Frame, c
<1> HIDE DEF g
<1>4. ~f.inHandler => Len(c) <= MaxLevel + 1
  BY <1>1, <1>2, SlotsLemma
<1>5. /\ Len(c) <= MaxLevel + 2
      /\ ~g.inHandler => \A k \in 1 .. Len(c) : c[k].kind # "handler"
  <2>1. \A k \in 1 .. Len(c) : k \in 1 .. Len(f.blocks) \/ k = Len(f.blocks) + 1
    BY <1>1, <1>2
  <2>2. Len(c) <= MaxLevel + 2
    BY <1>1, <1>2, <1>4, SlotsLemma
  <2>3. ~f.inHandler => \A k \in 1 .. Len(f.blocks) : f.blocks[k].kind # "handler"
    BY DEF Shaped
  <2> QED
    BY <1>2, <1>3, <2>1, <2>2, <2>3
<1>6. Shaped(g, E)
  BY <1>1, <1>2, <1>3, <1>4, <1>5 DEF Shaped
<1>7. Opened(f, b, g)
  BY <1>3 DEF Opened, c
<1> QED
  BY <1>6, <1>7 DEF g

\* At its level and below, a list has all its entries.
LEMMA TruncateAll ==
    ASSUME NEW E, Closed(E), NEW list \in Seq(E), NEW blocks \in Seq(Blk), NEW x,
           Scope(blocks, list, x)
    PROVE  HandlerListTruncate(list, Len(blocks) - 1) = list
<1> DEFINE r == HandlerListTruncate(list, Len(blocks) - 1)
<1>1. Len(blocks) - 1 \in Int
  BY BlocksLemma
<1>2. PICK n \in 0 .. Len(list) :
         /\ r \in Seq(E) /\ Len(r) = Len(list) - n
         /\ \A i \in 1 .. Len(list) - n : r[i] = list[i + n]
         /\ \A i \in 1 .. n : list[i].level > Len(blocks) - 1
  BY <1>1, TruncateLemma DEF Scope
<1>3. Len(list) \in Nat
  BY LenProperties
<1>4. n = 0
  <2>1. \A i \in 1 .. n : i \in 1 .. Len(list) /\ list[i].level < Len(blocks) /\ list[i].level \in Nat
    BY <1>3, EntriesLemma DEF Scope, Placed
  <2>2. ~(1 \in 1 .. n)
    BY <1>1, <1>2, <2>1, BlocksLemma
  <2> QED
    BY <1>3, <2>2
<1> HIDE DEF r
<1>5. Len(r) = Len(list) /\ \A i \in 1 .. Len(list) : r[i] = list[i]
  <2>1. \A i \in 1 .. Len(list) : i + 0 = i
    OBVIOUS
  <2> QED
    BY <1>2, <1>3, <1>4, <2>1
<1>6. r = list
  BY <1>2, <1>5, SeqEqual
<1> QED
  BY <1>6 DEF r

\* TRY, of the blocks and the list alone.
LEMMA TryScope ==
    ASSUME NEW E, Closed(E), NEW blocks \in Seq(Blk), NEW list \in Seq(E),
           NEW next \in Nat \ {0}, Scope(blocks, list, next), Len(blocks) <= MaxLevel + 1,
           NEW b \in Blk, b.kind = "try", b.start = next,
           NEW label,
           label = [kind |-> "try", blocks |-> blocks, next |-> next, handlers |-> list]
    PROVE  \E h : /\ h.label.kind = "try" /\ Closed(E \cup {h}) /\ Below(h, next)
                  /\ HandlerListUpdate(list, Len(blocks), label) \in Seq(E \cup {h})
                  /\ Scope(Append(blocks, b), HandlerListUpdate(list, Len(blocks), label), next)
<1> DEFINE h == [level |-> Len(blocks), label |-> label]
           F == E \cup {h}
<1>1. Len(blocks) \in Nat
  BY BlocksLemma
<1>2. /\ label \in Labels(E) /\ label.kind = "try" /\ label.blocks = blocks
      /\ label.next = next /\ label.handlers = list
  BY DEF Labels
<1>3. h \in [level : Nat, label : Labels(E)] /\ h.level = Len(blocks) /\ h.label = label
  BY <1>1, <1>2
<1>4. HandlerListUpdate(list, Len(blocks), label) = <<h>> \o list
  <2>1. Len(list) \in Nat /\ \A i \in 1 .. Len(list) : list[i].level \in Nat /\ list[i].level < Len(blocks)
    BY EntriesLemma DEF Scope, Placed
  <2>2. list = <<>> \/ 1 \in 1 .. Len(list)
    BY <2>1, EmptySeq
  <2>3. list = <<>> \/ Len(blocks) > list[1].level
    BY <1>1, <2>1, <2>2
  <2> QED
    BY <2>3 DEF HandlerListUpdate
<1> HIDE DEF h
<1>5. SoundEntry(h)
  BY <1>2, <1>3 DEF SoundEntry
<1>6. Closed(F) /\ h \in F /\ E \subseteq F
  BY <1>3, <1>5, ClosedAdd
<1>7. \A i \in 1 .. Len(list) : list[i] \in F
  BY <1>6, ElementOfSeq
<1> HIDE DEF F
<1>8. list \in Seq(F)
  BY <1>7, SeqOfElements
<1>9. <<h>> \o list \in Seq(F)
  BY <1>6, <1>8, PushLemma
<1>10. TryEntry(h, blocks, next)
  BY <1>2, <1>3 DEF TryEntry
<1>11. Scope(Append(blocks, b), <<h>> \o list, next)
  BY <1>6, <1>8, <1>10, ScopeTry
<1>12. Below(h, next) /\ h.label.kind = "try"
  BY <1>2, <1>3 DEF Below
<1> QED
  BY <1>4, <1>6, <1>9, <1>11, <1>12 DEF F

WithTry(f) ==
    LET o == [f EXCEPT !.blocks = Append(@, Block("try", f.next))]
        label == [kind |-> "try", blocks |-> f.blocks, next |-> f.next,
                  handlers |-> HandlerListTruncate(f.handlers, Level(f))]
    IN  [o EXCEPT !.handlers = HandlerListUpdate(@, Level(o), label)]

LEMMA TryShaped ==
    ASSUME NEW E, NEW f, Shaped(f, E), Level(f) < MaxLevel, NEW g, g = WithTry(f)
    PROVE  \E h : /\ h.label.kind = "try" /\ Shaped(g, E \cup {h})
                  /\ Opened(f, Block("try", f.next), g)
<1>1. PICK blocks \in Seq(Blk), list \in Seq(E), next \in Nat \ {0} :
         blocks = f.blocks /\ list = f.handlers /\ next = f.next
  BY ShapedFacts, FrameLemma
<1>2. PICK b : b = Block("try", next)
  OBVIOUS
<1>3. PICK label :
         label = [kind |-> "try", blocks |-> blocks, next |-> next, handlers |-> list]
  OBVIOUS
<1> DEFINE o == [f EXCEPT !.blocks = Append(@, b)]
           r == HandlerListUpdate(list, Len(blocks), label)
           c == Append(blocks, b)
<1>5. /\ f \in Frame(E) /\ Closed(E) /\ Scope(blocks, list, next)
      /\ Level(f) = Len(blocks) - 1 /\ Len(blocks) \in Nat \ {0}
      /\ Len(blocks) <= MaxLevel
  <2>1. /\ f \in Frame(E) /\ Closed(E) /\ Scope(blocks, list, next)
        /\ Level(f) = Len(blocks) - 1 /\ Len(blocks) \in Nat \ {0}
    BY <1>1, ShapedFacts
  <2> QED
    BY <2>1, SlotsLemma
<1>6. b \in Blk /\ b.kind = "try" /\ b.start = next
  BY <1>2, EmptySeq DEF Block, Blk, Kind
<1>4. PICK h : /\ h.label.kind = "try" /\ Closed(E \cup {h}) /\ Below(h, next)
              /\ r \in Seq(E \cup {h}) /\ Scope(c, r, next)
  <2>1. Len(blocks) <= MaxLevel + 1
    BY <1>5, SlotsLemma
  <2> QED
    BY <1>3, <1>5, <1>6, <2>1, TryScope
<1>7. /\ c \in Seq(Blk) /\ Len(c) = Len(blocks) + 1 /\ c[Len(blocks) + 1] = b
      /\ \A k \in 1 .. Len(blocks) : c[k] = blocks[k]
  BY <1>6, AppendProperties
<1> HIDE DEF r
<1>8. g = [o EXCEPT !.handlers = r]
  <2>1. HandlerListTruncate(list, Len(blocks) - 1) = list
    BY <1>5, TruncateAll
  <2>2. HandlerListTruncate(f.handlers, Level(f)) = list
    BY <1>1, <1>5, <2>1
  <2>3. Level(o) = Len(blocks) /\ o.handlers = list
    <3>1. o.blocks = c /\ o.handlers = list
      BY <1>1, <1>5 DEF Frame
    <3> HIDE DEF o, c
    <3> QED
      BY <1>5, <1>7, <3>1 DEF Level
  <2>4. g = [o EXCEPT !.handlers = HandlerListUpdate(o.handlers, Level(o), label)]
    BY <1>1, <1>2, <1>3, <2>2 DEF WithTry
  <2> HIDE DEF o
  <2> QED
    BY <2>3, <2>4 DEF r
<1>9. PICK F : F = E \cup {h}
  OBVIOUS
<1>10. f \in Frame(F)
  <2>1. E \subseteq F
    BY <1>9
  <2> QED
    BY <1>5, <2>1, LabelsMono
<1>11. /\ g \in Frame(F) /\ g.blocks = c /\ g.handlers = r
       /\ g.kind = f.kind /\ g.slots = f.slots /\ g.next = f.next /\ g.limit = f.limit
       /\ g.entries = f.entries /\ g.counter = f.counter /\ g.inHandler = f.inHandler
  <2>1. r \in Seq(F)
    BY <1>4, <1>9
  <2>2. /\ o \in Frame(F) /\ o.blocks = c
        /\ o.kind = f.kind /\ o.slots = f.slots /\ o.next = f.next /\ o.limit = f.limit
        /\ o.entries = f.entries /\ o.counter = f.counter /\ o.inHandler = f.inHandler
    BY <1>1, <1>7, <1>10 DEF Frame
  <2> HIDE DEF o, c
  <2> QED
    BY <1>8, <2>1, <2>2 DEF Frame
<1> HIDE DEF c, o
<1>12. Len(c) <= MaxLevel + 1 /\ Len(c) <= MaxLevel + 2
  BY <1>5, <1>7, SlotsLemma
<1>13. ~g.inHandler => \A k \in 1 .. Len(c) : c[k].kind # "handler"
  <2>1. \A k \in 1 .. Len(c) : k \in 1 .. Len(blocks) \/ k = Len(blocks) + 1
    BY <1>5, <1>7
  <2>2. ~f.inHandler => \A k \in 1 .. Len(blocks) : blocks[k].kind # "handler"
    BY <1>1 DEF Shaped
  <2> QED
    BY <1>6, <1>7, <1>11, <2>1, <2>2
<1>14. \A e \in F : Below(e, g.next)
  <2>1. \A e \in E : Below(e, f.next)
    BY DEF Shaped
  <2> QED
    BY <1>1, <1>4, <1>9, <1>11, <2>1
<1>15. f.next <= f.limit + 1 /\ f.counter = Len(f.entries) /\ f.counter <= MaxSlots
  BY DEF Shaped
<1>16. Shaped(g, F)
  BY <1>1, <1>4, <1>7, <1>9, <1>11, <1>12, <1>13, <1>14, <1>15 DEF Shaped
<1>17. Opened(f, b, g)
  BY <1>1, <1>11 DEF Opened, c
<1> QED
  BY <1>1, <1>2, <1>4, <1>9, <1>16, <1>17

-----------------------------------------------------------------------------
(* ONERROR *)

\* The level of the innermost block (p->level).
AtLevel(m, blocks) == m = Len(blocks) - 1

\* The list r with the handler h of an ONERROR at a place where E are the entries.
OnErrorPlaced(E, h, blocks, r, next) ==
    /\ h.label.kind = "onerror" /\ h.label.next = next /\ Closed(E \cup {h})
    /\ r \in Seq(E \cup {h}) /\ Scope(blocks, r, next + 1)

LEMMA OnErrorScope ==
    ASSUME NEW E, Closed(E), NEW blocks \in Seq(Blk), NEW list \in Seq(E),
           NEW next \in Slots, Scope(blocks, list, next), Len(blocks) <= MaxLevel + 1,
           \A k \in 1 .. Len(blocks) : blocks[k].kind \notin {"try", "handler"},
           NEW label,
           label = [kind |-> "onerror", blocks |-> blocks, next |-> next, handlers |-> list],
           NEW m \in Nat, AtLevel(m, blocks)
    PROVE  \E h : OnErrorPlaced(E, h, blocks, HandlerListUpdate(list, m, label), next)
<1>2. PICK h : h = [level |-> m, label |-> label]
  OBVIOUS
<1>3. PICK F : F = E \cup {h}
  OBVIOUS
<1> DEFINE r == HandlerListUpdate(list, m, label)
<1>4. /\ label \in Labels(E) /\ label.kind = "onerror" /\ label.blocks = blocks
      /\ label.next = next /\ label.handlers = list /\ next \in Nat
  BY SlotsLemma DEF Labels
<1>5. h \in [level : Nat, label : Labels(E)] /\ h.level = m /\ h.label = label
  BY <1>2, <1>4
<1>6. Len(blocks) = m + 1
  BY BlocksLemma DEF AtLevel
<1>7. SoundEntry(h)
  BY <1>4, <1>5, <1>6 DEF SoundEntry
<1>8. Closed(F) /\ h \in F /\ E \subseteq F
  BY <1>3, <1>5, <1>7, ClosedAdd
<1>9. list \in Seq(F)
  <2>1. \A i \in 1 .. Len(list) : list[i] \in F
    BY <1>8, ElementOfSeq
  <2> QED
    BY <2>1, SeqOfElements
<1>10. list # <<>> => m >= list[1].level
  <2>1. Len(list) \in Nat /\ \A i \in 1 .. Len(list) : list[i].level \in Nat /\ list[i].level < Len(blocks)
    BY EntriesLemma DEF Scope, Placed
  <2>2. list # <<>> => 1 \in 1 .. Len(list)
    BY <2>1, EmptySeq
  <2> QED
    BY <1>6, <2>1, <2>2
<1>11. /\ r \in Seq(F)
       /\ \E n \in {0, 1} : PutFirst(r, h, list, n)
  BY <1>2, <1>8, <1>9, <1>10, UpdateLemma
<1> HIDE DEF r
<1>13. PICK n \in {0, 1} : r \in Seq(F) /\ PutFirst(r, h, list, n)
  BY <1>11
<1>14. OnErrorEntry(h, blocks, next)
  BY <1>4, <1>5 DEF OnErrorEntry, AtLevel
<1>15. \A k \in 1 .. Len(blocks) : blocks[k].kind # "try"
  OBVIOUS
<1>16. Scope(blocks, r, next + 1)
  BY <1>4, <1>8, <1>9, <1>13, <1>14, <1>15, ScopeOnError
<1>17. OnErrorPlaced(E, h, blocks, r, next)
  BY <1>3, <1>4, <1>5, <1>8, <1>13, <1>16 DEF OnErrorPlaced
<1> QED
  BY <1>17 DEF r

\* What ONERROR changes of the part of a frame that follows the stack.
SetAside(f, g) ==
    /\ g.blocks = f.blocks /\ g.slots = f.slots /\ g.entries = f.entries
    /\ g.next = f.next + 1 /\ g.limit = f.limit

WithOnError(f) ==
    LET label == [kind |-> "onerror", blocks |-> f.blocks, next |-> f.next,
                  handlers |-> f.handlers]
    IN  [f EXCEPT !.handlers = HandlerListUpdate(@, Level(f), label), !.next = @ + 1]

LEMMA OnErrorShaped ==
    ASSUME NEW E, NEW f, Shaped(f, E), Room(f), ~f.inHandler, TryLevels(f) = {},
           NEW g, g = WithOnError(f)
    PROVE  \E h : /\ h.label.kind = "onerror" /\ h.label.next = f.next
                  /\ Shaped(g, E \cup {h}) /\ SetAside(f, g)
<1>1. PICK blocks \in Seq(Blk), list \in Seq(E), next \in Slots :
         blocks = f.blocks /\ list = f.handlers /\ next = f.next
  BY ShapedFacts, FrameLemma, RoomLemma
<1>2. PICK label :
         label = [kind |-> "onerror", blocks |-> blocks, next |-> next, handlers |-> list]
  OBVIOUS
<1>16. PICK m \in Nat : AtLevel(m, blocks)
  <2>1. Len(f.blocks) \in Nat \ {0}
    BY ShapedFacts
  <2>2. Len(f.blocks) - 1 \in Nat
    BY <2>1
  <2> QED
    BY <1>1, <2>2 DEF AtLevel
<1> DEFINE r == HandlerListUpdate(list, m, label)
<1>3. f \in Frame(E) /\ Closed(E) /\ Scope(blocks, list, next) /\ next \in Nat
  BY <1>1, ShapedFacts, SlotsLemma
<1>4. /\ Len(blocks) <= MaxLevel + 1
      /\ \A k \in 1 .. Len(blocks) : blocks[k].kind \notin {"try", "handler"}
  <2>1. \A k \in 1 .. Len(blocks) : blocks[k].kind # "try"
    BY <1>1, BlocksLemma DEF TryLevels
  <2>2. Len(blocks) <= MaxLevel + 1 /\ \A k \in 1 .. Len(blocks) : blocks[k].kind # "handler"
    BY <1>1 DEF Shaped
  <2> QED
    BY <2>1, <2>2
<1>5. PICK h : /\ h.label.kind = "onerror" /\ h.label.next = next /\ Closed(E \cup {h})
              /\ r \in Seq(E \cup {h}) /\ Scope(blocks, r, next + 1)
  <2>1. PICK h : OnErrorPlaced(E, h, blocks, r, next)
    BY <1>2, <1>3, <1>4, <1>16, OnErrorScope
  <2> HIDE DEF r
  <2> QED
    BY <2>1 DEF OnErrorPlaced
<1>6. PICK F : F = E \cup {h}
  OBVIOUS
<1>7. g = [f EXCEPT !.handlers = r, !.next = next + 1]
  <2>1. Level(f) = m
    BY <1>1, <1>16, ShapedFacts DEF AtLevel
  <2> QED
    BY <1>1, <1>2, <2>1 DEF WithOnError
<1> HIDE DEF r
<1>8. f \in Frame(F)
  <2>1. E \subseteq F
    BY <1>6
  <2> QED
    BY <1>3, <2>1, LabelsMono
<1>9. r \in Seq(F) /\ next + 1 \in Nat \ {0}
  BY <1>3, <1>5, <1>6
<1>10. /\ g \in Frame(F) /\ g.blocks = blocks /\ g.handlers = r /\ g.next = next + 1
       /\ g.kind = f.kind /\ g.slots = f.slots /\ g.limit = f.limit
       /\ g.entries = f.entries /\ g.counter = f.counter /\ g.inHandler = f.inHandler
  BY <1>1, <1>7, <1>8, <1>9 DEF Frame
<1>11. next + 1 <= f.limit + 1
  <2>1. f.limit \in Nat /\ next <= f.limit
    BY <1>1, <1>3, FrameLemma, SlotsLemma DEF Room
  <2> QED
    BY <1>3, <2>1
<1>12. \A e \in F : Below(e, next + 1)
  <2>1. \A e \in E : Below(e, next) /\ e.label.next \in Nat
    BY <1>1, <1>3, EntryLemma, LabelLemma DEF Shaped
  <2>2. \A e \in E : Below(e, next + 1)
    BY <1>3, <2>1 DEF Below
  <2>3. Below(h, next + 1)
    BY <1>3, <1>5 DEF Below
  <2> QED
    BY <1>6, <2>2, <2>3
<1>13. /\ f.counter = Len(f.entries) /\ f.counter <= MaxSlots
       /\ Len(blocks) <= MaxLevel + 2
       /\ ~f.inHandler =>
             /\ Len(blocks) <= MaxLevel + 1
             /\ \A k \in 1 .. Len(blocks) : blocks[k].kind # "handler"
  BY <1>1 DEF Shaped
<1>14. Shaped(g, F)
  BY <1>5, <1>6, <1>10, <1>11, <1>12, <1>13 DEF Shaped
<1>15. SetAside(f, g)
  BY <1>1, <1>10 DEF SetAside
<1> QED
  BY <1>1, <1>5, <1>6, <1>14, <1>15

LEMMA OnErrorStacked ==
    ASSUME NEW E, NEW f, Shaped(f, E), NEW live, Stacked(f, E, live), Room(f),
           NEW h, h.label.next = f.next, NEW g, SetAside(f, g)
    PROVE  Stacked(g, E \cup {h}, live)
<1>1. /\ g.blocks = f.blocks /\ g.slots = f.slots /\ g.entries = f.entries
      /\ g.next = f.next + 1 /\ g.limit = f.limit
  BY DEF SetAside
<1>2. PICK base \in 1 .. Len(f.blocks), off \in [1 .. Len(f.blocks) -> Nat] :
         Segments(f, live, base, off) /\ Apart(f, E, base, off)
  BY DEF Stacked
<1>3. Segments(g, live, base, off)
  BY <1>1, <1>2, SegmentsSame, Zenon
<1>4. /\ \A i \in 1 .. Len(f.entries) : f.entries[i] \in Nat
      /\ f.next \in Nat /\ f.limit \in Nat /\ f.next <= f.limit
  BY ShapedFacts, FrameLemma, SlotsLemma DEF Room
<1>5. ASSUME NEW i \in 1 .. Len(f.entries)
      PROVE  /\ f.next + 1 <= f.entries[i] => f.entries[i] > f.limit
             /\ \A e \in E \cup {h} : e.label.kind = "onerror" => f.entries[i] # e.label.next
  <2>1. f.next <= f.entries[i] => f.entries[i] > f.limit
    BY <1>2 DEF Apart
  <2>2. PICK p \in Nat, q \in Nat, x \in Nat : p = f.entries[i] /\ q = f.limit /\ x = f.next
    BY <1>4
  <2>3. x <= p => p > q
    BY <2>1, <2>2
  <2>4. x + 1 <= p => p > q
    BY <2>3
  <2>5. p # x
    BY <1>4, <2>2, <2>3
  <2>6. \A e \in E : e.label.kind = "onerror" => f.entries[i] # e.label.next
    BY <1>2 DEF Apart
  <2> QED
    BY <2>2, <2>4, <2>5, <2>6
<1>6. Apart(g, E \cup {h}, base, off)
  <2>1. \A i, j \in 1 .. Len(f.entries) : f.entries[i] = f.entries[j] => i = j
    BY <1>2 DEF Apart
  <2>2. \A i \in 1 .. Len(f.entries) : \A k \in base + 1 .. Len(f.blocks) :
           f.blocks[k].start <= f.entries[i] /\ f.entries[i] <= f.limit => i > off[k]
    BY <1>2 DEF Apart
  <2> QED
    BY <1>1, <1>5, <2>1, <2>2 DEF Apart
<1> QED
  BY <1>1, <1>2, <1>3, <1>6 DEF Stacked

\* The label of a TRY sets no slot aside.
LEMMA TryStacked ==
    ASSUME NEW E, NEW f, NEW live, Stacked(f, E, live), NEW h, h.label.kind = "try"
    PROVE  Stacked(f, E \cup {h}, live)
<1>1. PICK base \in 1 .. Len(f.blocks), off \in [1 .. Len(f.blocks) -> Nat] :
         Segments(f, live, base, off) /\ Apart(f, E, base, off)
  BY DEF Stacked
<1>2. Apart(f, E \cup {h}, base, off)
  BY <1>1 DEF Apart
<1> QED
  BY <1>1, <1>2 DEF Stacked

-----------------------------------------------------------------------------
(* The innermost block is closed *)

\* What closing it changes of the part of a frame that follows the stack; another
\* iteration of a loop has the slots of its body again.
Closes(f, g) ==
    /\ g.blocks = Front(f.blocks) /\ g.slots = f.slots /\ g.entries = f.entries
    /\ g.next \in {f.next, Innermost(f).start} /\ g.limit = f.limit

\* What leaving the blocks inside block p changes of it.
CutTo(f, p, g) ==
    /\ Len(g.blocks) = p /\ \A k \in 1 .. p : g.blocks[k] = f.blocks[k]
    /\ g.slots = f.slots /\ g.entries = f.entries
    /\ g.next \in {f.next, Innermost(f).start} /\ g.limit = f.limit

\* The blocks inside block p are the procedure's own or the handler's, and have no
\* entries, but those of the innermost one that have been popped.
Emptied(f, p) ==
    /\ \A k \in p + 1 .. Len(f.blocks) : f.blocks[k].kind \notin {"body", "handler"}
    /\ \A k \in p + 1 .. Len(f.blocks) - 1 : f.blocks[k].syms = <<>>

LEMMA CutStacked ==
    ASSUME NEW E, NEW f, Shaped(f, E), Stacked(f, E, 0), NEW p \in 1 .. Len(f.blocks) - 1,
           Emptied(f, p), NEW g, CutTo(f, p, g)
    PROVE  Stacked(g, E, Len(Innermost(g).syms))
<1>1. PICK m \in Nat : m = Len(f.blocks) /\ p < m /\ p \in Nat /\ 1 <= p
  BY ShapedFacts
<1>2. /\ f.blocks \in Seq(Blk) /\ f \in Frame(E) /\ f.limit \in Nat /\ f.next \in Nat
      /\ \A i \in 1 .. Len(f.entries) : f.entries[i] \in Nat
      /\ \A k \in p + 1 .. m : f.blocks[k].kind \notin {"body", "handler"}
      /\ \A k \in p + 1 .. m - 1 : f.blocks[k].syms = <<>>
  BY <1>1, ShapedFacts, FrameLemma, SlotsLemma DEF Emptied
<1>3. p \in 1 .. p /\ p \in 1 .. m /\ m \in 1 .. m
  BY <1>1
<1>4. /\ Len(g.blocks) = p /\ \A k \in 1 .. p : g.blocks[k] = f.blocks[k]
      /\ g.slots = f.slots /\ g.entries = f.entries /\ g.limit = f.limit
  BY DEF CutTo
<1>5. PICK base \in 1 .. m, off \in [1 .. m -> Nat] :
         Segments(f, 0, base, off) /\ Apart(f, E, base, off)
  BY <1>1 DEF Stacked
<1>6. Innermost(f) = f.blocks[m] /\ Innermost(g) = g.blocks[p]
  BY <1>1, <1>4, ShapedFacts DEF Innermost, Last
<1>7. base \in 1 .. p
  <2>1. f.blocks[base].kind \in {"body", "handler"}
    BY <1>5 DEF Segments
  <2>2. base \notin p + 1 .. m
    BY <1>2, <2>1
  <2> QED
    BY <1>1, <2>2
<1>8. /\ f.blocks[base].kind \in {"body", "handler"}
      /\ \A k \in base + 1 .. m : f.blocks[k].kind \notin {"body", "handler"}
      /\ \A k \in 1 .. base : f.blocks[k].kind # "try"
  BY <1>1, <1>5 DEF Segments
<1>9. \A k \in base .. m - 1 : off[k + 1] = off[k] + Len(f.blocks[k].syms)
  <2>1. \A k \in base .. Len(f.blocks) - 1 : off[k + 1] = off[k] + Len(f.blocks[k].syms)
    BY <1>5 DEF Segments
  <2>2. Len(f.blocks) - 1 = m - 1
    BY <1>1
  <2> QED
    BY <2>1, <2>2
<1>10. off[m] + 0 = Len(f.entries) /\ off[m] \in Nat
  BY <1>1, <1>3, <1>5 DEF Segments
<1>11. \A j, k \in base .. m : j < k =>
          /\ off[j] <= off[k]
          /\ (\A i \in j .. k - 1 : f.blocks[i].syms = <<>>) => off[j] = off[k]
  BY <1>1, <1>5 DEF Segments
<1>12. \A k \in base .. m :
          \A j \in 1 .. IF k = m THEN 0 ELSE Len(f.blocks[k].syms) :
             f.entries[off[k] + j] = f.blocks[k].syms[j]
  <2>1. \A k \in base .. Len(f.blocks) :
           \A j \in 1 .. IF k = Len(f.blocks) THEN 0 ELSE Len(f.blocks[k].syms) :
              f.entries[off[k] + j] = f.blocks[k].syms[j]
    BY <1>5 DEF Segments
  <2> QED
    BY <1>1, <2>1
<1>13. \A k \in 1 .. base - 1 : \A j \in 1 .. Len(f.blocks[k].syms) :
          \E i \in 1 .. off[base] : f.entries[i] = f.blocks[k].syms[j]
  BY <1>5 DEF Segments
<1>14. /\ \A i, j \in 1 .. Len(f.entries) : f.entries[i] = f.entries[j] => i = j
       /\ \A i \in 1 .. Len(f.entries) :
             /\ f.next <= f.entries[i] => f.entries[i] > f.limit
             /\ \A k \in base + 1 .. m :
                   f.blocks[k].start <= f.entries[i] /\ f.entries[i] <= f.limit => i > off[k]
             /\ \A e \in E : e.label.kind = "onerror" => f.entries[i] # e.label.next
  BY <1>1, <1>5 DEF Apart
<1>15. PICK new \in [1 .. p -> Nat] : \A k \in 1 .. p : new[k] = off[k]
  <2>1. [k \in 1 .. p |-> off[k]] \in [1 .. p -> Nat]
    BY <1>1, <1>5
  <2> QED
    BY <2>1
<1>16. PICK live \in Nat : live = Len(g.blocks[p].syms) /\ live = Len(f.blocks[p].syms)
  BY <1>1, <1>2, <1>3, <1>4, BlocksLemma
<1>17. Segments(g, live, base, new)
  <2>1. live <= Len(Innermost(g).syms)
    BY <1>6, <1>16
  <2>2. /\ g.blocks[base].kind \in {"body", "handler"}
        /\ \A k \in base + 1 .. p : g.blocks[k].kind \notin {"body", "handler"}
        /\ \A k \in 1 .. base : g.blocks[k].kind # "try"
    <3>1. /\ \A k \in base + 1 .. p : k \in base + 1 .. m /\ k \in 1 .. p
          /\ \A k \in 1 .. base : k \in 1 .. p
      BY <1>1, <1>7
    <3> QED
      BY <1>4, <1>7, <1>8, <3>1
  <2>3. \A k \in base .. p - 1 : new[k + 1] = new[k] + Len(g.blocks[k].syms)
    <3>1. \A k \in base .. p - 1 : k \in base .. m - 1 /\ k \in 1 .. p /\ k + 1 \in 1 .. p
      BY <1>1, <1>7
    <3> QED
      BY <1>4, <1>9, <1>15, <3>1
  <2>4. new[p] + live = Len(g.entries)
    <3>1. p \in base .. m - 1 /\ p + 1 \in base .. m /\ m \in base .. m /\ off[p] \in Nat
      BY <1>1, <1>3, <1>5, <1>7
    <3>2. off[p + 1] = off[p] + live
      BY <1>9, <1>16, <3>1
    <3>3. off[m] = off[p + 1]
      <4>1. CASE p + 1 < m
        <5>1. \A i \in p + 1 .. m - 1 : f.blocks[i].syms = <<>>
          BY <1>2
        <5> QED
          BY <1>11, <3>1, <4>1, <5>1
      <4>2. CASE p + 1 = m
        BY <4>2
      <4> QED
        BY <1>1, <4>1, <4>2
    <3> QED
      BY <1>3, <1>4, <1>10, <1>15, <3>2, <3>3
  <2>5. ASSUME NEW j \in base .. p, NEW k \in base .. p, j < k
        PROVE  /\ new[j] <= new[k]
               /\ (\A i \in j .. k - 1 : g.blocks[i].syms = <<>>) => new[j] = new[k]
    <3>1. /\ j \in 1 .. p /\ k \in 1 .. p /\ j \in base .. m /\ k \in base .. m
          /\ \A i \in j .. k - 1 : i \in 1 .. p
      BY <1>1, <1>7
    <3>2. new[j] = off[j] /\ new[k] = off[k] /\ \A i \in j .. k - 1 : g.blocks[i] = f.blocks[i]
      BY <1>4, <1>15, <3>1
    <3>3. /\ off[j] <= off[k]
          /\ (\A i \in j .. k - 1 : f.blocks[i].syms = <<>>) => off[j] = off[k]
      BY <1>11, <2>5, <3>1
    <3> QED
      BY <3>2, <3>3
  <2>6. ASSUME NEW k \in base .. p,
               NEW j \in 1 .. IF k = p THEN live ELSE Len(g.blocks[k].syms)
        PROVE  g.entries[new[k] + j] = g.blocks[k].syms[j]
    <3>1. k \in 1 .. p /\ k \in base .. m /\ k # m
      BY <1>1, <1>7
    <3>2. j \in 1 .. Len(f.blocks[k].syms)
      BY <1>4, <1>16, <2>6, <3>1
    <3>3. f.entries[off[k] + j] = f.blocks[k].syms[j]
      BY <1>12, <3>1, <3>2
    <3> QED
      BY <1>4, <1>15, <3>1, <3>3
  <2>7. ASSUME NEW k \in 1 .. base - 1, NEW j \in 1 .. Len(g.blocks[k].syms)
        PROVE  \E i \in 1 .. new[base] : g.entries[i] = g.blocks[k].syms[j]
    <3>1. k \in 1 .. p /\ new[base] = off[base]
      BY <1>7, <1>15
    <3>2. g.blocks[k] = f.blocks[k]
      BY <1>4, <3>1
    <3>3. \E i \in 1 .. off[base] : f.entries[i] = f.blocks[k].syms[j]
      BY <1>13, <2>7, <3>2
    <3> QED
      BY <1>4, <3>1, <3>2, <3>3
  <2> QED
    <3>1. SegmentsUpTo(g, p, live, base, new)
      BY <2>1, <2>2, <2>3, <2>4, <2>5, <2>6, <2>7, Zenon DEF SegmentsUpTo
    <3> QED
      BY <1>4, <3>1, SegmentsIntro, Zenon
<1>18. \A i \in 1 .. Len(f.entries) : g.next <= f.entries[i] => f.entries[i] > f.limit
  <2>1. CASE g.next = f.next
    BY <1>14, <2>1
  <2>2. CASE g.next = f.blocks[m].start
    <3> SUFFICES ASSUME NEW i \in 1 .. Len(f.entries), g.next <= f.entries[i]
                 PROVE  f.entries[i] > f.limit
      OBVIOUS
    <3>1. m \in base + 1 .. m
      BY <1>1, <1>7
    <3>2. f.entries[i] <= f.limit => i > off[m]
      BY <1>14, <2>2, <3>1
    <3>3. ~(i > off[m])
      BY <1>10
    <3>4. PICK x \in Nat, y \in Nat : x = f.entries[i] /\ y = f.limit
      BY <1>2
    <3> QED
      BY <3>2, <3>3, <3>4
  <2> QED
    BY <1>6, <2>1, <2>2 DEF CutTo
<1>19. Apart(g, E, base, new)
  <2>1. ASSUME NEW i \in 1 .. Len(f.entries), NEW k \in base + 1 .. p,
               g.blocks[k].start <= f.entries[i], f.entries[i] <= f.limit
        PROVE  i > new[k]
    <3>1. k \in base + 1 .. m /\ k \in 1 .. p
      BY <1>1, <1>7
    <3>2. g.blocks[k] = f.blocks[k] /\ new[k] = off[k]
      BY <1>4, <1>15, <3>1
    <3> QED
      BY <1>14, <2>1, <3>1, <3>2
  <2>2. \A i, j \in 1 .. Len(f.entries) : f.entries[i] = f.entries[j] => i = j
    BY <1>14
  <2>3. \A i \in 1 .. Len(f.entries) : \A e \in E : e.label.kind = "onerror" => f.entries[i] # e.label.next
    BY <1>14
  <2> QED
    <3>1. \A i \in 1 .. Len(f.entries) :
             /\ g.next <= f.entries[i] => f.entries[i] > f.limit
             /\ \A k \in base + 1 .. p :
                   g.blocks[k].start <= f.entries[i] /\ f.entries[i] <= f.limit => i > new[k]
             /\ \A e \in E : e.label.kind = "onerror" => f.entries[i] # e.label.next
      BY <1>18, <2>1, <2>3
    <3> QED
      <4>1. \A i \in 1 .. Len(g.entries) :
               /\ g.next <= g.entries[i] => g.entries[i] > g.limit
               /\ \A k \in base + 1 .. Len(g.blocks) :
                     g.blocks[k].start <= g.entries[i] /\ g.entries[i] <= g.limit => i > new[k]
               /\ \A e \in E : e.label.kind = "onerror" => g.entries[i] # e.label.next
        BY <1>4, <3>1, Zenon
      <4>2. \A i, j \in 1 .. Len(g.entries) : g.entries[i] = g.entries[j] => i = j
        BY <1>4, <2>2, Zenon
      <4> QED
        BY <4>1, <4>2, Zenon DEF Apart
<1>20. /\ \A k \in 1 .. p : g.blocks[k].cond = 0
       /\ \A s \in Slots : g.slots[s] # Wild
  <2>1. \A k \in 1 .. p : k \in 1 .. Len(f.blocks)
    BY <1>1
  <2> QED
    BY <1>4, <2>1 DEF Stacked
<1>21. Stacked(g, E, live)
  BY <1>4, <1>7, <1>17, <1>19, <1>20 DEF Stacked
<1> QED
  BY <1>6, <1>16, <1>21

LEMMA ClosedStacked ==
    ASSUME NEW E, NEW f, Shaped(f, E), Stacked(f, E, 0), Len(f.blocks) > 1,
           Innermost(f).kind \notin {"body", "handler"}, NEW g, Closes(f, g)
    PROVE  Stacked(g, E, Len(Innermost(g).syms))
<1>1. PICK p : p = Len(f.blocks) - 1
  OBVIOUS
<1>2. /\ f.blocks \in Seq(Blk) /\ Len(f.blocks) \in Nat
      /\ Innermost(f) = f.blocks[Len(f.blocks)]
  BY ShapedFacts, FrameLemma
<1>3. CutTo(f, p, g)
  <2>1. f.blocks # <<>>
    BY <1>2, EmptySeq
  <2> QED
    BY <1>1, <1>2, <2>1, FrontLemma DEF Closes, CutTo
<1>4. p \in 1 .. Len(f.blocks) - 1
  BY <1>1, <1>2
<1>5. Emptied(f, p)
  <2>1. \A k \in p + 1 .. Len(f.blocks) : k = Len(f.blocks)
    BY <1>1, <1>2
  <2>2. \A k \in p + 1 .. Len(f.blocks) - 1 : FALSE
    BY <1>1, <1>2
  <2> QED
    BY <1>2, <2>1, <2>2 DEF Emptied
<1> QED
  BY <1>3, <1>4, <1>5, CutStacked

\* The frame without its innermost block, with x as the next slot.
WithClosed(f, x) ==
    [f EXCEPT !.blocks = Front(@), !.handlers = HandlerListTruncate(@, Level(f) - 1),
              !.next = x]

LEMMA OuterLemma ==
    ASSUME NEW E, NEW f \in Frame(E)
    PROVE  Outer(f) = WithClosed(f, f.next)
BY DEF Outer, WithClosed, Frame

\* A closed block's slots may be given out again.
NextAfter(f, x) == x \in {f.next, Innermost(f).start}

LEMMA ClosedShaped ==
    ASSUME NEW E, NEW f, Shaped(f, E), Len(f.blocks) > 1, NEW x, NextAfter(f, x),
           NEW g, g = WithClosed(f, x)
    PROVE  /\ Shaped(g, EarlierThan(E, x)) /\ Closes(f, g)
           /\ Len(g.blocks) = Len(f.blocks) - 1
           /\ \A k \in 1 .. Len(f.blocks) - 1 : g.blocks[k] = f.blocks[k]
           /\ g.next = x
<1>1. PICK blocks \in Seq(Blk), list \in Seq(E), next \in Nat \ {0} :
         blocks = f.blocks /\ list = f.handlers /\ next = f.next
  BY ShapedFacts, FrameLemma
<1>2. PICK b, r : b = Front(blocks) /\ r = HandlerListTruncate(list, Len(blocks) - 2)
  OBVIOUS
<1>3. PICK F : F = EarlierThan(E, x)
  OBVIOUS
<1>4. /\ f \in Frame(E) /\ Closed(E) /\ Scope(blocks, list, next)
      /\ Len(blocks) > 1 /\ Len(blocks) \in Nat
      /\ x \in {next, blocks[Len(blocks)].start}
  BY <1>1, ShapedFacts DEF NextAfter
<1>5. /\ x \in Nat \ {0} /\ x <= next /\ next <= f.limit + 1 /\ x <= f.limit + 1
  <2>1. Len(blocks) \in 1 .. Len(blocks)
    BY <1>4
  <2>2. blocks[Len(blocks)].start \in Nat \ {0} /\ blocks[Len(blocks)].start <= next
    BY <1>4, <2>1, BlocksLemma DEF Scope
  <2>3. next <= f.limit + 1 /\ f.limit \in Nat
    BY <1>1, <1>4, FrameLemma, SlotsLemma DEF Shaped
  <2> QED
    BY <1>4, <2>2, <2>3
<1>6. /\ b \in Seq(Blk) /\ Len(b) = Len(blocks) - 1
      /\ \A k \in 1 .. Len(blocks) - 1 : b[k] = blocks[k]
      /\ r \in Seq(E) /\ Scope(b, r, x)
  BY <1>2, <1>4, ScopeCut
<1>7. r \in Seq(F)
  BY <1>3, <1>6, ListBelow
<1>8. g = [f EXCEPT !.blocks = b, !.handlers = r, !.next = x]
  <2>1. Level(f) - 1 = Len(blocks) - 2
    BY <1>1, <1>4 DEF Level
  <2> QED
    BY <1>1, <1>2, <2>1 DEF WithClosed
<1>9. Closed(F)
  BY <1>3, <1>4, <1>5, ClosedBelow
<1>10. /\ g \in Frame(F) /\ g.blocks = b /\ g.handlers = r /\ g.next = x
       /\ g.kind = f.kind /\ g.slots = f.slots /\ g.limit = f.limit
       /\ g.entries = f.entries /\ g.counter = f.counter /\ g.inHandler = f.inHandler
  BY <1>4, <1>5, <1>6, <1>7, <1>8 DEF Frame
<1>11. /\ f.counter = Len(f.entries) /\ f.counter <= MaxSlots
       /\ Len(blocks) <= MaxLevel + 2
       /\ ~f.inHandler =>
             /\ Len(blocks) <= MaxLevel + 1
             /\ \A k \in 1 .. Len(blocks) : blocks[k].kind # "handler"
  BY <1>1 DEF Shaped
<1>12. /\ Len(b) <= MaxLevel + 2
       /\ ~f.inHandler =>
             /\ Len(b) <= MaxLevel + 1
             /\ \A k \in 1 .. Len(b) : b[k].kind # "handler"
  <2>1. \A k \in 1 .. Len(b) : k \in 1 .. Len(blocks) /\ b[k] = blocks[k]
    BY <1>4, <1>6
  <2>2. Len(b) <= MaxLevel + 2 /\ (~f.inHandler => Len(b) <= MaxLevel + 1)
    BY <1>4, <1>6, <1>11, SlotsLemma
  <2>3. ~f.inHandler => \A k \in 1 .. Len(b) : b[k].kind # "handler"
    BY <1>11, <2>1, Zenon
  <2> QED
    BY <2>2, <2>3
<1>13. \A e \in F : Below(e, x)
  BY <1>3 DEF EarlierThan
<1>14. Shaped(g, F)
  BY <1>5, <1>6, <1>9, <1>10, <1>11, <1>12, <1>13 DEF Shaped
<1>15. Closes(f, g)
  BY <1>1, <1>2, <1>10 DEF Closes, NextAfter
<1> QED
  BY <1>1, <1>3, <1>6, <1>10, <1>14, <1>15

LEMMA StackedSub ==
    ASSUME NEW E, NEW F, F \subseteq E, NEW f, NEW live, Stacked(f, E, live)
    PROVE  Stacked(f, F, live)
<1>1. PICK base \in 1 .. Len(f.blocks), off \in [1 .. Len(f.blocks) -> Nat] :
         Segments(f, live, base, off) /\ Apart(f, E, base, off)
  BY DEF Stacked
<1>2. Apart(f, F, base, off)
  BY <1>1 DEF Apart
<1> QED
  BY <1>1, <1>2 DEF Stacked

-----------------------------------------------------------------------------
(* An entry is popped *)

\* What a pop changes of the part of a frame that follows the stack.
Popped(f, g) ==
    /\ g.blocks = f.blocks /\ g.slots = f.slots /\ g.next = f.next /\ g.limit = f.limit
    /\ Len(g.entries) = Len(f.entries) - 1
    /\ \A i \in 1 .. Len(f.entries) - 1 : g.entries[i] = f.entries[i]

LEMMA PopShaped ==
    ASSUME NEW E, NEW f, Shaped(f, E), f.entries # <<>>,
           NEW g, g = [f EXCEPT !.entries = Front(@), !.counter = @ - 1]
    PROVE  Shaped(g, E) /\ Popped(f, g)
<1>1. /\ f \in Frame(E) /\ f.counter \in Nat /\ f.counter = Len(f.entries) /\ f.counter > 0
      /\ f.counter <= MaxSlots
  BY FrameLemma, EmptySeq DEF Shaped
<1>2. /\ g \in Frame(E)
      /\ g.kind = f.kind /\ g.limit = f.limit /\ g.next = f.next
      /\ g.handlers = f.handlers /\ g.inHandler = f.inHandler
      /\ g.slots = f.slots /\ g.blocks = f.blocks
      /\ g.counter = f.counter - 1 /\ Len(g.entries) = Len(f.entries) - 1
      /\ \A i \in 1 .. Len(f.entries) - 1 : g.entries[i] = f.entries[i]
  BY <1>1, PopFields
<1>3. g.counter = Len(g.entries) /\ g.counter <= MaxSlots
  BY <1>1, <1>2, SlotsLemma
<1>4. Shaped(g, E)
  BY <1>2, <1>3 DEF Shaped
<1>5. Popped(f, g)
  BY <1>2 DEF Popped
<1> QED
  BY <1>4, <1>5

LEMMA PopStacked ==
    ASSUME NEW E, NEW f, Shaped(f, E), NEW live \in Nat \ {0}, Stacked(f, E, live),
           NEW g, Popped(f, g)
    PROVE  /\ Stacked(g, E, live - 1) /\ live <= Len(f.entries)
           /\ live <= Len(Innermost(f).syms)
           /\ f.entries[Len(f.entries)] = Innermost(f).syms[live]
<1>1. PICK n \in Nat \ {0}, m \in Nat : n = Len(f.blocks) /\ m = Len(f.entries)
  BY ShapedFacts, FrameLemma
<1>2. /\ n \in 1 .. n /\ f.blocks \in Seq(Blk) /\ Innermost(f) = f.blocks[n]
      /\ \A k \in 1 .. n : Len(f.blocks[k].syms) \in Nat
  BY <1>1, ShapedFacts, FrameLemma, BlocksLemma
<1>3. /\ g.blocks = f.blocks /\ g.slots = f.slots /\ g.next = f.next /\ g.limit = f.limit
      /\ Len(g.entries) = m - 1 /\ \A i \in 1 .. m - 1 : g.entries[i] = f.entries[i]
  BY <1>1 DEF Popped
<1>4. PICK base \in 1 .. n, off \in [1 .. n -> Nat] :
         Segments(f, live, base, off) /\ Apart(f, E, base, off)
  BY <1>1 DEF Stacked
<1>5. /\ off[n] + live = m
      /\ \A k \in base .. n :
            /\ off[k] \in Nat /\ off[k] <= off[n]
            /\ k < n => \A j \in 1 .. Len(f.blocks[k].syms) : off[k] + j \in 1 .. off[n]
  BY <1>1, <1>4, SegmentsLemma
<1>6. /\ f.blocks[base].kind \in {"body", "handler"}
      /\ \A k \in base + 1 .. n : f.blocks[k].kind \notin {"body", "handler"}
      /\ \A k \in 1 .. base : f.blocks[k].kind # "try"
      /\ \A k \in base .. n - 1 : off[k + 1] = off[k] + Len(f.blocks[k].syms)
      /\ live <= Len(Innermost(f).syms)
  BY <1>1, <1>4 DEF Segments
<1>7. \A j, k \in base .. n : j < k =>
          /\ off[j] <= off[k]
          /\ (\A i \in j .. k - 1 : f.blocks[i].syms = <<>>) => off[j] = off[k]
  BY <1>1, <1>4 DEF Segments
<1>8. \A k \in base .. n :
          \A j \in 1 .. IF k = n THEN live ELSE Len(f.blocks[k].syms) :
             f.entries[off[k] + j] = f.blocks[k].syms[j]
  BY <1>1, <1>4 DEF Segments
<1>9. \A k \in 1 .. base - 1 : \A j \in 1 .. Len(f.blocks[k].syms) :
          \E i \in 1 .. off[base] : f.entries[i] = f.blocks[k].syms[j]
  BY <1>4 DEF Segments
<1>10. off[n] \in Nat /\ n \in base .. n /\ base \in base .. n
  BY <1>4
<1>11. off[n] <= m - 1 /\ m - 1 \in Nat /\ live <= m /\ off[n] + (live - 1) = m - 1
  BY <1>5, <1>10
<1>12. Segments(g, live - 1, base, off)
  <2>1. live - 1 <= Len(Innermost(g).syms)
    <3>1. Innermost(g) = Innermost(f)
      BY <1>3 DEF Innermost
    <3>2. PICK p \in Nat : p = Len(Innermost(f).syms)
      BY <1>2
    <3> QED
      BY <1>6, <3>1, <3>2
  <2>2. ASSUME NEW k \in base .. n,
               NEW j \in 1 .. IF k = n THEN live - 1 ELSE Len(f.blocks[k].syms)
        PROVE  g.entries[off[k] + j] = f.blocks[k].syms[j]
    <3>1. j \in 1 .. IF k = n THEN live ELSE Len(f.blocks[k].syms)
      BY <2>2
    <3>2. f.entries[off[k] + j] = f.blocks[k].syms[j]
      BY <1>8, <3>1
    <3>3. off[k] + j \in 1 .. m - 1
      <4>1. CASE k = n
        <5>1. j \in 1 .. live - 1
          BY <2>2, <4>1
        <5> QED
          BY <1>5, <1>10, <4>1, <5>1
      <4>2. CASE k < n
        <5>1. j \in 1 .. Len(f.blocks[k].syms)
          BY <2>2, <4>2
        <5>2. off[k] + j \in 1 .. off[n]
          BY <1>5, <4>2, <5>1
        <5> QED
          BY <1>10, <1>11, <5>2
      <4>3. k = n \/ k < n
        OBVIOUS
      <4> QED
        BY <4>1, <4>2, <4>3
    <3> QED
      BY <1>3, <3>2, <3>3
  <2>3. ASSUME NEW k \in 1 .. base - 1, NEW j \in 1 .. Len(f.blocks[k].syms)
        PROVE  \E i \in 1 .. off[base] : g.entries[i] = f.blocks[k].syms[j]
    <3>1. PICK i \in 1 .. off[base] : f.entries[i] = f.blocks[k].syms[j]
      BY <1>9
    <3>2. off[base] \in Nat /\ off[base] <= off[n]
      BY <1>5, <1>10
    <3>3. i \in 1 .. m - 1
      BY <1>10, <1>11, <3>2
    <3> QED
      BY <1>3, <3>1, <3>3
  <2>4. off[n] + (live - 1) = Len(g.entries)
    BY <1>3, <1>11
  <2>5. Len(g.blocks) = n
    BY <1>1, <1>3
  <2>6. /\ g.blocks[base].kind \in {"body", "handler"}
        /\ \A k \in base + 1 .. n : g.blocks[k].kind \notin {"body", "handler"}
        /\ \A k \in 1 .. base : g.blocks[k].kind # "try"
        /\ \A k \in base .. n - 1 : off[k + 1] = off[k] + Len(g.blocks[k].syms)
    BY <1>3, <1>6
  <2>7. \A j, k \in base .. n : j < k =>
          /\ off[j] <= off[k]
          /\ (\A i \in j .. k - 1 : g.blocks[i].syms = <<>>) => off[j] = off[k]
    BY <1>3, <1>7
  <2>8. /\ \A k \in base .. n :
             \A j \in 1 .. IF k = n THEN live - 1 ELSE Len(g.blocks[k].syms) :
                g.entries[off[k] + j] = g.blocks[k].syms[j]
        /\ \A k \in 1 .. base - 1 : \A j \in 1 .. Len(g.blocks[k].syms) :
             \E i \in 1 .. off[base] : g.entries[i] = g.blocks[k].syms[j]
    BY <1>3, <2>2, <2>3
  <2> QED
    <3>1. SegmentsUpTo(g, n, live - 1, base, off)
      BY <2>1, <2>4, <2>6, <2>7, <2>8, Zenon DEF SegmentsUpTo
    <3> QED
      BY <2>5, <3>1, SegmentsIntro, Zenon
<1>13. Apart(g, E, base, off)
  <2>1. \A i \in 1 .. Len(g.entries) : i \in 1 .. Len(f.entries) /\ g.entries[i] = f.entries[i]
    <3>1. \A i \in 1 .. m - 1 : i \in 1 .. m
      BY <1>1
    <3> QED
      BY <1>1, <1>3, <3>1, Zenon
  <2>2. \A i, j \in 1 .. Len(f.entries) : f.entries[i] = f.entries[j] => i = j
    BY <1>4 DEF Apart
  <2>3. \A i \in 1 .. Len(f.entries) :
          /\ f.next <= f.entries[i] => f.entries[i] > f.limit
          /\ \A k \in base + 1 .. Len(f.blocks) :
                f.blocks[k].start <= f.entries[i] /\ f.entries[i] <= f.limit => i > off[k]
          /\ \A e \in E : e.label.kind = "onerror" => f.entries[i] # e.label.next
    BY <1>4 DEF Apart
  <2>4. \A i, j \in 1 .. Len(g.entries) : g.entries[i] = g.entries[j] => i = j
    BY <2>1, <2>2
  <2> QED
    BY <1>3, <2>1, <2>3, <2>4 DEF Apart
<1>14. f.entries[m] = f.blocks[n].syms[live]
  <2>1. live \in 1 .. IF n = n THEN live ELSE Len(f.blocks[n].syms)
    OBVIOUS
  <2> QED
    BY <1>5, <1>8, <1>10, <2>1
<1> QED
  BY <1>1, <1>2, <1>3, <1>4, <1>6, <1>11, <1>12, <1>13, <1>14 DEF Stacked

-----------------------------------------------------------------------------
(* Assignments, loops and calls *)

LEMMA SetSlot ==
    ASSUME NEW E, NEW f, Shaped(f, E), NEW s, NEW v \in Values,
           NEW g, g = [f EXCEPT !.slots[s] = v]
    PROVE  /\ Shaped(g, E) /\ SameButSlots(f, g)
           /\ \A t \in Slots : g.slots[t] = IF t = s THEN v ELSE f.slots[t]
           /\ \A live : Stacked(f, E, live) /\ v # Wild => Stacked(g, E, live)
<1>1. /\ g \in Frame(E) /\ SameButSlots(f, g)
      /\ \A t \in Slots : g.slots[t] = IF t = s THEN v ELSE f.slots[t]
  <2> DEFINE w == [f.slots EXCEPT ![s] = v]
  <2>1. f \in Frame(E)
    BY ShapedFacts
  <2>2. w \in [Slots -> Values] /\ \A t \in Slots : w[t] = IF t = s THEN v ELSE f.slots[t]
    BY <2>1, FrameLemma
  <2> HIDE DEF w
  <2>3. g = [f EXCEPT !.slots = w]
    BY DEF w
  <2>4. g \in Frame(E) /\ SameButSlots(f, g) /\ g.slots = w
    BY <2>1, <2>2, <2>3 DEF Frame, SameButSlots
  <2> QED
    BY <2>2, <2>4
<1>2. Shaped(g, E)
  BY <1>1, ShapedSame
<1>3. ASSUME NEW live, Stacked(f, E, live), v # Wild
      PROVE  Stacked(g, E, live)
  <2>1. \A t \in Slots : f.slots[t] # Wild
    BY <1>3 DEF Stacked
  <2>2. \A t \in Slots : g.slots[t] # Wild
    BY <1>1, <1>3, <2>1
  <2> QED
    BY <1>1, <1>3, <2>2, StackedSame
<1> QED
  BY <1>1, <1>2, <1>3

LEMMA NewFrameShaped ==
    ASSUME NEW kind \in {"main", "proc", "fn"}
    PROVE  /\ Shaped(NewFrame(kind), {}) /\ Stacked(NewFrame(kind), {}, 0)
           /\ NewFrame(kind).kind = kind /\ Len(Innermost(NewFrame(kind)).syms) = 0
           /\ Room(NewFrame(kind)) /\ NewFrame(kind).entries = <<>>
           /\ NewFrame(kind).handlers = <<>> /\ NewFrame(kind).inHandler = FALSE
<1> DEFINE f == NewFrame(kind)
<1>1. PICK b : b = Block("body", 1)
  OBVIOUS
<1>2. /\ b \in Blk /\ b.kind = "body" /\ b.start = 1 /\ b.syms = <<>> /\ b.cond = 0
      /\ Len(b.syms) = 0
  BY <1>1, EmptySeq DEF Block, Blk, Kind
<1>3. <<b>> \in Seq(Blk) /\ Len(<<b>>) = 1 /\ <<b>>[1] = b
  BY <1>2
<1>4. [s \in Slots |-> Empty] \in [Slots -> Values]
  BY SlotsLemma
<1>5. /\ f.kind = kind /\ f.blocks = <<b>> /\ f.slots = [s \in Slots |-> Empty] /\ f.next = 1
      /\ f.limit = MaxSlots /\ f.entries = <<>> /\ f.counter = 0 /\ f.handlers = <<>>
      /\ f.inHandler = FALSE
  BY <1>1 DEF NewFrame
<1>6. f \in Frame({})
  <2>1. MaxSlots \in Slots
    BY SlotsLemma
  <2> QED
    BY <1>1, <1>3, <1>4, <2>1, EmptySeq DEF NewFrame, Frame
<1> HIDE DEF f
<1>7. Closed({})
  BY DEF Closed
<1>8. Scope(<<b>>, <<>>, 1)
  BY <1>2, <1>3 DEF Scope
<1>9. Shaped(f, {})
  <2>1. /\ f.next <= f.limit + 1 /\ f.counter = Len(f.entries) /\ f.counter <= MaxSlots
        /\ Len(f.blocks) <= MaxLevel + 2 /\ Len(f.blocks) <= MaxLevel + 1
    BY <1>3, <1>5, SlotsLemma
  <2>2. \A k \in 1 .. Len(f.blocks) : f.blocks[k].kind # "handler"
    BY <1>2, <1>3, <1>5
  <2>3. Scope(f.blocks, f.handlers, f.next)
    BY <1>5, <1>8
  <2>4. \A e \in {} : Below(e, f.next)
    OBVIOUS
  <2> QED
    BY <1>6, <1>7, <2>1, <2>2, <2>3, <2>4 DEF Shaped
<1>10. Innermost(f) = b
  BY <1>3, <1>5, <1>9, ShapedFacts
<1>11. Room(f)
  BY <1>5, SlotsLemma DEF Room
<1>12. Stacked(f, {}, 0)
  <2>1. PICK off : off = [k \in 1 .. 1 |-> 0]
    OBVIOUS
  <2>2. off \in [1 .. 1 -> Nat] /\ off[1] = 0
    BY <2>1
  <2>3. Segments(f, 0, 1, off)
    BY <1>2, <1>3, <1>5, <1>10, <2>2 DEF Segments
  <2>4. Apart(f, {}, 1, off)
    BY <1>5 DEF Apart
  <2>5. \A s \in Slots : f.slots[s] # Wild
    BY <1>5, SlotsLemma
  <2>6. \A k \in 1 .. Len(f.blocks) : f.blocks[k].cond = 0
    BY <1>2, <1>3, <1>5
  <2>7. Len(f.blocks) = 1 /\ 1 \in 1 .. 1
    BY <1>3, <1>5
  <2> QED
    BY <2>2, <2>3, <2>4, <2>5, <2>6, <2>7 DEF Stacked
<1> QED
  BY <1>2, <1>5, <1>9, <1>10, <1>11, <1>12 DEF f

\* The frame at the start of another iteration.
WithLoop(f) ==
    [Outer(f) EXCEPT !.blocks = Append(@, [Innermost(f) EXCEPT !.syms = <<>>]),
                     !.next = Innermost(f).start]

\* What is as it was, and the innermost block, in another iteration.
Again(f, g) ==
    /\ g.kind = f.kind /\ g.slots = f.slots /\ g.entries = f.entries
    /\ g.counter = f.counter /\ g.inHandler = f.inHandler
    /\ Innermost(g).kind = "loop" /\ Innermost(g).syms = <<>>

LEMMA LoopShaped ==
    ASSUME NEW E, NEW f, Shaped(f, E), Len(f.blocks) > 1, Innermost(f).kind = "loop",
           NEW g, g = WithLoop(f)
    PROVE  \E F : Shaped(g, F) /\ Again(f, g) /\ (Stacked(f, E, 0) => Stacked(g, F, 0))
<1>1. PICK x, b : x = Innermost(f).start /\ b = [Innermost(f) EXCEPT !.syms = <<>>]
  OBVIOUS
<1>2. PICK F : F = EarlierThan(E, x)
  OBVIOUS
<1>3. PICK c : c = WithClosed(f, x)
  OBVIOUS
<1>4. /\ f \in Frame(E) /\ Closed(E) /\ Len(f.blocks) \in Nat /\ Innermost(f) \in Blk
      /\ Innermost(f) = f.blocks[Len(f.blocks)]
  BY ShapedFacts
<1>5. /\ b \in Blk /\ b.kind = "loop" /\ b.syms = <<>> /\ b.start = x
      /\ b.cond = Innermost(f).cond
  BY <1>1, <1>4, EmptySeq DEF Blk
<1>6. /\ Shaped(c, F) /\ Closes(f, c) /\ Len(c.blocks) = Len(f.blocks) - 1 /\ c.next = x
  <2>1. NextAfter(f, x)
    BY <1>1 DEF NextAfter
  <2>2. /\ Shaped(c, EarlierThan(E, x)) /\ Closes(f, c)
        /\ Len(c.blocks) = Len(f.blocks) - 1 /\ c.next = x
    BY <1>3, <2>1, ClosedShaped
  <2> QED
    BY <1>2, <2>2
<1>7. /\ c.kind = f.kind /\ c.slots = f.slots /\ c.entries = f.entries
      /\ c.counter = f.counter /\ c.inHandler = f.inHandler
  BY <1>3, <1>4 DEF WithClosed, Frame
<1>8. c \in Frame(F) /\ Level(c) = Len(c.blocks) - 1 /\ c.blocks \in Seq(Blk)
  BY <1>6, ShapedFacts, FrameLemma
<1>9. Level(c) < MaxLevel \/ (c.inHandler /\ Level(c) <= MaxLevel)
  <2>1. /\ Len(f.blocks) <= MaxLevel + 2
        /\ f.inHandler \in BOOLEAN /\ (~f.inHandler => Len(f.blocks) <= MaxLevel + 1)
    BY <1>4, FrameLemma DEF Shaped
  <2> QED
    BY <1>4, <1>6, <1>7, <1>8, <2>1, SlotsLemma
<1>10. g = [c EXCEPT !.blocks = Append(@, b)]
  <2>1. g = [Outer(f) EXCEPT !.blocks = Append(@, b), !.next = x]
    BY <1>1 DEF WithLoop
  <2>2. Outer(f) = WithClosed(f, f.next)
    BY <1>4, OuterLemma
  <2> QED
    BY <1>3, <1>4, <2>1, <2>2 DEF WithClosed, Frame
<1>11. Shaped(g, F) /\ Opened(c, b, g)
  BY <1>5, <1>6, <1>9, <1>10, OpenedShaped
<1>12. /\ g.kind = c.kind /\ g.slots = c.slots /\ g.entries = c.entries
       /\ g.counter = c.counter /\ g.inHandler = c.inHandler
  BY <1>8, <1>10 DEF Frame
<1>13. Innermost(g) = b
  <2>1. g.blocks = Append(c.blocks, b) /\ Innermost(g) = g.blocks[Len(g.blocks)]
    BY <1>11, ShapedFacts DEF Opened
  <2> QED
    BY <1>5, <1>8, <2>1, AppendProperties
<1>14. Again(f, g)
  BY <1>5, <1>7, <1>12, <1>13 DEF Again
<1>15. ASSUME Stacked(f, E, 0) PROVE Stacked(g, F, 0)
  <2>1. Stacked(c, E, Len(Innermost(c).syms))
    BY <1>4, <1>6, <1>15, ClosedStacked
  <2>2. Stacked(c, F, Len(Innermost(c).syms))
    <3>1. F \subseteq E
      BY <1>2 DEF EarlierThan
    <3> QED
      BY <2>1, <3>1, StackedSub
  <2>3. b.cond = 0
    BY <1>4, <1>5, <1>15 DEF Stacked
  <2> QED
    BY <1>5, <1>6, <1>11, <2>2, <2>3, OpenedStacked
<1> QED
  BY <1>11, <1>14, <1>15

-----------------------------------------------------------------------------
(* Arriving at a handler *)

\* The head of a handler list is the innermost TRY when there is one.
LEMMA HeadLemma ==
    ASSUME NEW E, NEW f, Shaped(f, E)
    PROVE  /\ f.handlers # <<>> =>
                 /\ Len(f.handlers) \in Nat \ {0} /\ Head(f.handlers) = f.handlers[1]
                 /\ Head(f.handlers) \in E /\ Placed(Head(f.handlers), f.blocks)
                 /\ Below(Head(f.handlers), f.next)
           /\ TryLevels(f) # {} =>
                 /\ f.handlers # <<>> /\ Head(f.handlers).label.kind = "try"
                 /\ Max(TryLevels(f)) = Head(f.handlers).level + 1
           /\ f.handlers # <<>> /\ Head(f.handlers).label.kind = "try" =>
                 Head(f.handlers).level + 1 \in TryLevels(f)
<1>1. PICK blocks \in Seq(Blk), list \in Seq(E) : blocks = f.blocks /\ list = f.handlers
  BY ShapedFacts, FrameLemma
<1>2. Closed(E) /\ Scope(blocks, list, f.next) /\ Len(blocks) \in Nat /\ DOMAIN blocks = 1 .. Len(blocks)
  BY <1>1, ShapedFacts, BlocksLemma
<1>3. list # <<>> => /\ Len(list) \in Nat \ {0} /\ Head(list) = list[1] /\ 1 \in 1 .. Len(list)
  BY <1>1, EmptySeq
<1>4. /\ Len(list) \in Nat
      /\ \A i \in 1 .. Len(list) : /\ list[i] \in E /\ list[i].level \in Nat
                                   /\ Placed(list[i], blocks) /\ Below(list[i], f.next)
      /\ \A i, j \in 1 .. Len(list) : i < j => list[i].level > list[j].level
      /\ \A k \in 1 .. Len(blocks) : blocks[k].kind = "try" =>
            /\ \E i \in 1 .. Len(list) : list[i].level = k - 1
            /\ \A i \in 1 .. Len(list) : list[i].level >= k - 1 => list[i].label.kind = "try"
  BY <1>1, <1>2, EntriesLemma DEF Scope
<1>5. TryLevels(f) = {i \in 1 .. Len(blocks) : blocks[i].kind = "try"}
  BY <1>1, <1>2 DEF TryLevels
<1>6. list # <<>> /\ list[1].label.kind = "try" => list[1].level + 1 \in TryLevels(f)
  <2> SUFFICES ASSUME list # <<>>, list[1].label.kind = "try"
               PROVE  list[1].level + 1 \in TryLevels(f)
    OBVIOUS
  <2>1. Placed(list[1], blocks) /\ list[1].level \in Nat
    BY <1>3, <1>4
  <2>2. list[1].level < Len(blocks) /\ blocks[list[1].level + 1].kind = "try"
    BY <2>1 DEF Placed
  <2> QED
    BY <1>2, <1>5, <2>1, <2>2
<1>7. ASSUME NEW k \in TryLevels(f)
      PROVE  list # <<>> /\ list[1].label.kind = "try" /\ k <= list[1].level + 1
  <2>1. k \in 1 .. Len(blocks) /\ blocks[k].kind = "try"
    BY <1>5
  <2>2. PICK i \in 1 .. Len(list) : list[i].level = k - 1
    BY <1>4, <2>1
  <2>3. list # <<>> /\ 1 \in 1 .. Len(list)
    BY <1>4, <2>2
  <2>4. list[1].level \in Nat /\ list[i].level \in Nat /\ (i # 1 => list[1].level > list[i].level)
    BY <1>4, <2>2, <2>3
  <2>5. list[1].level >= k - 1
    BY <2>1, <2>2, <2>4
  <2>6. list[1].label.kind = "try"
    <3>1. \A j \in 1 .. Len(list) : list[j].level >= k - 1 => list[j].label.kind = "try"
      BY <1>4, <2>1
    <3> QED
      BY <2>3, <2>5, <3>1
  <2>7. k <= list[1].level + 1
    BY <2>1, <2>4, <2>5
  <2> QED
    BY <2>3, <2>6, <2>7
<1>8. TryLevels(f) # {} => Max(TryLevels(f)) = list[1].level + 1
  <2> SUFFICES ASSUME TryLevels(f) # {}
               PROVE  Max(TryLevels(f)) = list[1].level + 1
    OBVIOUS
  <2>1. PICK p : p = list[1].level + 1
    OBVIOUS
  <2>2. p \in TryLevels(f) /\ \A k \in TryLevels(f) : k <= p
    BY <1>6, <1>7, <2>1
  <2>3. \A k \in TryLevels(f) : k \in Nat
    BY <1>5
  <2>4. Max(TryLevels(f)) \in TryLevels(f) /\ \A k \in TryLevels(f) : k <= Max(TryLevels(f))
    BY <2>2 DEF Max
  <2>5. PICK q \in Nat : q = Max(TryLevels(f))
    BY <2>3, <2>4
  <2>6. q <= p /\ p <= q /\ p \in Nat
    BY <2>2, <2>3, <2>4, <2>5
  <2> QED
    BY <2>1, <2>5, <2>6
<1> QED
  BY <1>1, <1>3, <1>4, <1>6, <1>7, <1>8

\* At the code of a TRY's handler.
LEMMA AtTryShaped ==
    ASSUME NEW E, NEW f, Shaped(f, E), f.handlers # <<>>,
           Head(f.handlers).label.kind = "try", NEW g, g = AtHandler(f)
    PROVE  /\ Shaped(g, E)
           /\ Head(f.handlers).level \in 1 .. Len(f.blocks) - 1
           /\ CutTo(f, Head(f.handlers).level, g)
           /\ g.kind = f.kind /\ g.counter = f.counter
<1>1. PICK h \in E : h = Head(f.handlers) /\ h.label.kind = "try"
  BY HeadLemma
<1>2. PICK blocks \in Seq(Blk), next \in Nat \ {0} : blocks = f.blocks /\ next = f.next
  BY ShapedFacts, FrameLemma
<1>3. f \in Frame(E) /\ Closed(E) /\ Len(blocks) \in Nat
  BY <1>2, ShapedFacts
<1>4. PICK b, r, x : b = h.label.blocks /\ r = h.label.handlers /\ x = h.label.next
  OBVIOUS
<1>5. /\ h.level \in Nat /\ SoundEntry(h)
      /\ b \in Seq(Blk) /\ r \in Seq(E) /\ x \in Nat \ {0}
  BY <1>3, <1>4, EntryLemma, LabelLemma
<1>6. Placed(h, blocks) /\ Below(h, next)
  <2>1. Placed(Head(f.handlers), f.blocks) /\ Below(Head(f.handlers), f.next)
    BY HeadLemma
  <2> QED
    BY <1>1, <1>2, <2>1
<1>7. Scope(b, r, x) /\ Len(b) <= MaxLevel + 1 /\ Len(b) = h.level /\ Len(b) >= 1 /\ Len(b) \in Nat
  <2>1. Scope(b, r, x) /\ Len(b) <= MaxLevel + 1 /\ Len(b) = h.level
    BY <1>1, <1>4, <1>5 DEF SoundEntry
  <2>2. Len(b) >= 1
    BY <2>1 DEF Scope
  <2> QED
    BY <1>5, <2>1, <2>2
<1>8. Len(b) < Len(blocks) /\ \A k \in 1 .. Len(b) : b[k] = blocks[k]
  BY <1>4, <1>6, <1>7 DEF Placed
<1>9. Scope(b, r, next)
  <2>1. x <= next /\ x \in Nat /\ next \in Nat
    BY <1>4, <1>5, <1>6 DEF Below
  <2> QED
    BY <1>3, <1>5, <1>7, <2>1, ScopeNext
<1>10. g = [f EXCEPT !.blocks = b, !.handlers = r]
  BY <1>1, <1>4 DEF AtHandler
<1>11. /\ g \in Frame(E) /\ g.blocks = b /\ g.handlers = r /\ g.next = f.next
       /\ g.kind = f.kind /\ g.slots = f.slots /\ g.limit = f.limit
       /\ g.entries = f.entries /\ g.counter = f.counter /\ g.inHandler = f.inHandler
  BY <1>3, <1>5, <1>10 DEF Frame
<1>12. /\ Len(b) <= MaxLevel + 2
       /\ ~f.inHandler => \A k \in 1 .. Len(b) : b[k].kind # "handler"
  <2>1. ~f.inHandler => \A k \in 1 .. Len(blocks) : blocks[k].kind # "handler"
    BY <1>2 DEF Shaped
  <2>2. \A k \in 1 .. Len(b) : k \in 1 .. Len(blocks)
    BY <1>3, <1>7, <1>8
  <2> QED
    BY <1>7, <1>8, <2>1, <2>2, SlotsLemma
<1>13. /\ f.next <= f.limit + 1 /\ f.counter = Len(f.entries) /\ f.counter <= MaxSlots
       /\ \A e \in E : Below(e, f.next)
  BY DEF Shaped
<1>14. Shaped(g, E)
  BY <1>2, <1>3, <1>7, <1>9, <1>11, <1>12, <1>13 DEF Shaped
<1>15. CutTo(f, Len(b), g)
  BY <1>2, <1>8, <1>11 DEF CutTo
<1>16. Len(b) \in 1 .. Len(f.blocks) - 1
  BY <1>2, <1>3, <1>7, <1>8
<1> QED
  BY <1>1, <1>7, <1>11, <1>14, <1>15, <1>16

\* Where an error is handled: no entries have been popped, or all of a handler's.
AtError(f, live) == live = Len(Innermost(f).syms) \/ (live = 0 /\ Innermost(f).kind = "handler")

\* The body of the innermost TRY holds no references.
NothingHeld(f) ==
    TryLevels(f) # {} => \A i \in Max(TryLevels(f)) .. Len(f.blocks) : f.blocks[i].syms = <<>>

LEMMA AtTryStacked ==
    ASSUME NEW E, NEW f, Shaped(f, E), f.handlers # <<>>,
           Head(f.handlers).label.kind = "try", NEW g, g = AtHandler(f),
           NEW live \in Nat, Stacked(f, E, live), AtError(f, live), NothingHeld(f)
    PROVE  Stacked(g, E, Len(Innermost(g).syms))
<1>1. PICK p : p = Head(f.handlers).level
  OBVIOUS
<1>2. p \in 1 .. Len(f.blocks) - 1 /\ CutTo(f, p, g)
  BY <1>1, AtTryShaped
<1>3. PICK m \in Nat : m = Len(f.blocks) /\ p < m /\ p \in Nat
  BY <1>2, ShapedFacts
<1>4. p + 1 \in TryLevels(f) /\ Max(TryLevels(f)) = p + 1
  BY <1>1, HeadLemma
<1>5. f.blocks[p + 1].kind = "try"
  BY <1>4 DEF TryLevels
<1>6. \A k \in p + 1 .. m : f.blocks[k].syms = <<>>
  BY <1>3, <1>4 DEF NothingHeld
<1>7. \A k \in p + 1 .. m : f.blocks[k].kind \notin {"body", "handler"}
  <2>1. PICK base \in 1 .. m, off \in [1 .. m -> Nat] : Segments(f, live, base, off)
    BY <1>3 DEF Stacked
  <2>2. /\ \A k \in base + 1 .. m : f.blocks[k].kind \notin {"body", "handler"}
        /\ \A k \in 1 .. base : f.blocks[k].kind # "try"
    BY <1>3, <2>1 DEF Segments
  <2>3. base <= p
    <3>1. p + 1 \notin 1 .. base
      BY <1>5, <2>2
    <3> QED
      BY <1>3, <2>1, <3>1
  <2>4. \A k \in p + 1 .. m : k \in base + 1 .. m
    BY <1>3, <2>1, <2>3
  <2> QED
    BY <2>2, <2>4
<1>8. Innermost(f) = f.blocks[m] /\ m \in p + 1 .. m
  BY <1>3, ShapedFacts
<1>9. live = 0
  <2>1. live = Len(Innermost(f).syms)
    BY <1>7, <1>8 DEF AtError
  <2> QED
    BY <1>6, <1>8, <2>1
<1>10. Emptied(f, p)
  <2>1. \A k \in p + 1 .. m - 1 : k \in p + 1 .. m
    BY <1>3
  <2> QED
    BY <1>3, <1>6, <1>7, <2>1 DEF Emptied
<1>11. Stacked(f, E, 0)
  BY <1>9
<1> QED
  BY <1>2, <1>10, <1>11, CutStacked

\* At the code of an ONERROR.
LEMMA AtOnErrorShaped ==
    ASSUME NEW E, NEW f, Shaped(f, E), f.handlers # <<>>,
           Head(f.handlers).label.kind = "onerror", NEW g, g = AtHandler(f)
    PROVE  LET label == Head(f.handlers).label
           IN  /\ Shaped(g, EarlierThan(E, label.next))
               /\ g.blocks = Append(label.blocks, Block("handler", label.next))
               /\ g.next = label.next /\ g.limit = label.next
               /\ g.kind = f.kind /\ g.counter = f.counter
               /\ g.slots = f.slots /\ g.entries = f.entries
<1>1. PICK h \in E : h = Head(f.handlers) /\ h.label.kind = "onerror"
  BY HeadLemma
<1>2. f \in Frame(E) /\ Closed(E)
  BY ShapedFacts
<1>3. PICK b, r, x : b = h.label.blocks /\ r = h.label.handlers /\ x = h.label.next
  OBVIOUS
<1>4. /\ h.level \in Nat /\ SoundEntry(h)
      /\ b \in Seq(Blk) /\ r \in Seq(E) /\ x \in Nat \ {0}
  BY <1>2, <1>3, EntryLemma, LabelLemma
<1>5. /\ Scope(b, r, x) /\ Len(b) <= MaxLevel + 1 /\ Len(b) \in Nat /\ x \in Slots
  BY <1>1, <1>3, <1>4 DEF SoundEntry
<1>6. PICK k : k = Block("handler", x)
  OBVIOUS
<1>7. k \in Blk /\ k.kind = "handler" /\ k.start = x
  BY <1>4, <1>6, EmptySeq DEF Block, Blk, Kind
<1>8. PICK c : c = Append(b, k)
  OBVIOUS
<1>9. c \in Seq(Blk) /\ Len(c) = Len(b) + 1 /\ Scope(c, r, x)
  BY <1>2, <1>4, <1>5, <1>7, <1>8, ScopeAppend
<1>10. PICK F : F = EarlierThan(E, x)
  OBVIOUS
<1>11. r \in Seq(F) /\ Closed(F) /\ \A e \in F : Below(e, x)
  <2>1. r \in Seq(EarlierThan(E, x))
    BY <1>4, <1>5, ListBelow
  <2>2. Closed(EarlierThan(E, x))
    BY <1>2, <1>4, ClosedBelow
  <2> QED
    BY <1>10, <2>1, <2>2 DEF EarlierThan
<1>12. g = [f EXCEPT !.blocks = c, !.handlers = r, !.inHandler = TRUE, !.next = x, !.limit = x]
  <2>1. Head(f.handlers).label.kind # "try"
    OBVIOUS
  <2> QED
    BY <1>1, <1>3, <1>6, <1>8, <2>1 DEF AtHandler
<1>13. /\ g \in Frame(F) /\ g.blocks = c /\ g.handlers = r /\ g.next = x
       /\ g.kind = f.kind /\ g.slots = f.slots /\ g.limit = x
       /\ g.entries = f.entries /\ g.counter = f.counter /\ g.inHandler = TRUE
  BY <1>2, <1>4, <1>5, <1>9, <1>11, <1>12 DEF Frame
<1>14. f.counter = Len(f.entries) /\ f.counter <= MaxSlots
  BY DEF Shaped
<1>15. Len(c) <= MaxLevel + 2 /\ x <= x + 1
  BY <1>4, <1>5, <1>9, SlotsLemma
<1>16. Shaped(g, F)
  BY <1>9, <1>11, <1>13, <1>14, <1>15 DEF Shaped
<1> QED
  BY <1>1, <1>3, <1>6, <1>8, <1>10, <1>13, <1>16

\* The entries of a block are on the stack.
OnStack(f, syms) ==
    \A j \in 1 .. Len(syms) : \E i \in 1 .. Len(f.entries) : f.entries[i] = syms[j]

LEMMA EntriesOnStack ==
    ASSUME NEW E, NEW f, Shaped(f, E), NEW live \in Nat, Stacked(f, E, live),
           NEW k \in 1 .. Len(f.blocks), k = Len(f.blocks) => live = Len(Innermost(f).syms)
    PROVE  OnStack(f, f.blocks[k].syms)
<1>1. PICK n \in Nat : n = Len(f.blocks) /\ n >= 1 /\ Innermost(f) = f.blocks[n]
  BY ShapedFacts
<1>2. PICK base \in 1 .. n, off \in [1 .. n -> Nat] : Segments(f, live, base, off)
  BY <1>1 DEF Stacked
<1>3. /\ off[n] + live = Len(f.entries)
      /\ \A i \in base .. n :
            /\ off[i] \in Nat /\ off[i] <= off[n] /\ off[i] <= Len(f.entries)
            /\ i < n => \A j \in 1 .. Len(f.blocks[i].syms) : off[i] + j \in 1 .. off[n]
  BY <1>1, <1>2, SegmentsLemma
<1>4. PICK m \in Nat : m = Len(f.entries) /\ off[n] <= m /\ off[n] \in Nat
  BY <1>1, <1>2, <1>3
<1>5. \A i \in base .. n :
          \A j \in 1 .. IF i = n THEN live ELSE Len(f.blocks[i].syms) :
             f.entries[off[i] + j] = f.blocks[i].syms[j]
  BY <1>1, <1>2 DEF Segments
<1>6. \A i \in 1 .. base - 1 : \A j \in 1 .. Len(f.blocks[i].syms) :
          \E l \in 1 .. off[base] : f.entries[l] = f.blocks[i].syms[j]
  BY <1>2 DEF Segments
<1>7. ASSUME NEW j \in 1 .. Len(f.blocks[k].syms)
      PROVE  \E i \in 1 .. m : f.entries[i] = f.blocks[k].syms[j]
  <2>1. CASE k = n
    <3>1. j \in 1 .. live
      BY <1>1, <1>7, <2>1
    <3>2. f.entries[off[n] + j] = f.blocks[k].syms[j]
      <4>1. n \in base .. n /\ j \in 1 .. IF n = n THEN live ELSE Len(f.blocks[n].syms)
        BY <1>1, <1>2, <3>1
      <4> QED
        BY <1>5, <2>1, <4>1, Zenon
    <3>3. off[n] + j \in 1 .. m
      BY <1>3, <1>4, <3>1
    <3> QED
      BY <3>2, <3>3
  <2>2. CASE k # n /\ k \in base .. n
    <3>1. k < n
      BY <1>1, <2>2
    <3>2. off[k] + j \in 1 .. off[n]
      BY <1>3, <1>7, <2>2, <3>1
    <3>3. f.entries[off[k] + j] = f.blocks[k].syms[j]
      BY <1>5, <1>7, <2>2
    <3>4. off[k] + j \in 1 .. m
      BY <1>4, <3>2
    <3> QED
      BY <3>3, <3>4
  <2>3. CASE k \in 1 .. base - 1
    <3>1. PICK l \in 1 .. off[base] : f.entries[l] = f.blocks[k].syms[j]
      BY <1>6, <1>7, <2>3
    <3>2. off[base] \in Nat /\ off[base] <= m
      BY <1>2, <1>3, <1>4
    <3> QED
      BY <1>4, <3>1, <3>2
  <2>4. k = n \/ (k # n /\ k \in base .. n) \/ k \in 1 .. base - 1
    BY <1>1, <1>2
  <2> QED
    BY <2>1, <2>2, <2>3, <2>4
<1> QED
  BY <1>4, <1>7 DEF OnStack

LEMMA AtOnErrorStacked ==
    ASSUME NEW E, NEW f, Shaped(f, E), f.handlers # <<>>,
           Head(f.handlers).label.kind = "onerror", NEW g, g = AtHandler(f),
           NEW live \in Nat, Stacked(f, E, live), AtError(f, live)
    PROVE  Stacked(g, EarlierThan(E, Head(f.handlers).label.next), Len(Innermost(g).syms))
<1>1. PICK h \in E : h = Head(f.handlers) /\ h.label.kind = "onerror"
  BY HeadLemma
<1>2. PICK b, x, F : b = h.label.blocks /\ x = h.label.next /\ F = EarlierThan(E, x)
  OBVIOUS
<1>3. Closed(E) /\ f.blocks \in Seq(Blk)
  BY ShapedFacts, FrameLemma
<1>4. h.level \in Nat /\ SoundEntry(h) /\ b \in Seq(Blk) /\ x \in Nat \ {0} /\ x \in Nat
  BY <1>2, <1>3, EntryLemma, LabelLemma
<1>5. PICK n \in Nat, k \in {Block("handler", x)} : n = Len(b) /\ k = Block("handler", x)
  BY <1>4
<1>6. /\ n = h.level + 1 /\ n \in 1 .. n
      /\ \A i \in 1 .. n : b[i].kind \notin {"try", "handler"}
  <2>1. /\ Len(h.label.blocks) = h.level + 1
        /\ \A i \in 1 .. h.level + 1 : h.label.blocks[i].kind \notin {"try", "handler"}
    BY <1>1, <1>4 DEF SoundEntry
  <2>2. n = h.level + 1
    BY <1>2, <1>5, <2>1
  <2>3. n \in 1 .. n
    BY <1>4, <2>2
  <2>4. \A i \in 1 .. n : b[i].kind \notin {"try", "handler"}
    BY <1>2, <2>1, <2>2
  <2> QED
    BY <2>2, <2>3, <2>4
<1>7. k \in Blk /\ k.kind = "handler" /\ k.syms = <<>> /\ k.cond = 0
  BY <1>4, <1>5, EmptySeq DEF Block, Blk, Kind
<1>8. /\ g.blocks = Append(b, k) /\ g.next = x /\ g.limit = x
      /\ g.slots = f.slots /\ g.entries = f.entries
  BY <1>1, <1>2, <1>5, AtOnErrorShaped
<1>9. PICK q \in Nat \ {0} : q = n + 1 /\ q = Len(g.blocks)
  BY <1>4, <1>5, <1>7, <1>8, AppendProperties
<1>10. g.blocks[q] = k /\ \A i \in 1 .. n : g.blocks[i] = b[i]
  BY <1>4, <1>5, <1>7, <1>8, <1>9, AppendProperties
<1>11. PICK m \in Nat : m = Len(f.entries)
  BY ShapedFacts, FrameLemma
<1>12. /\ Placed(h, f.blocks) /\ h.level < Len(f.blocks) /\ Len(f.blocks) \in Nat
       /\ n \in 1 .. Len(f.blocks)
  <2>1. Placed(Head(f.handlers), f.blocks)
    BY HeadLemma
  <2>2. Placed(h, f.blocks) /\ h.level < Len(f.blocks)
    BY <1>1, <2>1 DEF Placed
  <2> QED
    BY <1>3, <1>4, <1>6, <2>2
<1>13. /\ \A i \in 1 .. n - 1 : b[i] = f.blocks[i]
       /\ Extends(b[n], f.blocks[n])
  <2>1. \A i \in 1 .. h.level : h.label.blocks[i] = f.blocks[i]
    BY <1>12 DEF Placed
  <2>2. Extends(h.label.blocks[h.level + 1], f.blocks[h.level + 1])
    BY <1>1, <1>12 DEF Placed
  <2>3. n - 1 = h.level
    BY <1>4, <1>6
  <2> QED
    BY <1>2, <1>6, <2>1, <2>2, <2>3
<1>14. \A i \in 1 .. n : OnStack(f, b[i].syms) /\ b[i].cond = 0
  <2> TAKE i \in 1 .. n
  <2>1. i \in 1 .. Len(f.blocks)
    BY <1>12
  <2>2. f.blocks[i].cond = 0
    BY <2>1 DEF Stacked
  <2>3. f.blocks[i].kind = b[i].kind /\ b[i].kind \notin {"try", "handler"} /\ b[i].cond = 0
    BY <1>6, <1>13, <2>2 DEF Extends
  <2>4. i = Len(f.blocks) => live = Len(Innermost(f).syms)
    <3>1. Innermost(f) = f.blocks[Len(f.blocks)]
      BY ShapedFacts
    <3> QED
      BY <2>3, <3>1 DEF AtError
  <2>5. OnStack(f, f.blocks[i].syms)
    BY <2>1, <2>4, EntriesOnStack
  <2>6. CASE i \in 1 .. n - 1
    BY <1>13, <2>3, <2>5, <2>6
  <2>7. CASE i = n
    <3>1. /\ Len(b[n].syms) <= Len(f.blocks[n].syms)
          /\ \A j \in 1 .. Len(b[n].syms) : f.blocks[n].syms[j] = b[n].syms[j]
      BY <1>13 DEF Extends
    <3>2. Len(b[n].syms) \in Nat /\ Len(f.blocks[n].syms) \in Nat
      BY <1>3, <1>4, <1>5, <1>6, <1>12, BlocksLemma
    <3>3. \A j \in 1 .. Len(b[n].syms) : j \in 1 .. Len(f.blocks[n].syms)
      BY <3>1, <3>2
    <3>4. OnStack(f, b[n].syms)
      BY <2>5, <2>7, <3>1, <3>3 DEF OnStack
    <3> QED
      BY <2>3, <2>7, <3>4
  <2> QED
    BY <2>6, <2>7
<1>15. PICK base \in 1 .. Len(f.blocks), old \in [1 .. Len(f.blocks) -> Nat] :
          Apart(f, E, base, old)
  BY DEF Stacked
<1>16. PICK off \in [1 .. q -> Nat] : off[q] = m
  <2>1. [i \in 1 .. q |-> m] \in [1 .. q -> Nat] /\ [i \in 1 .. q |-> m][q] = m
    BY <1>9, <1>11
  <2> QED
    BY <2>1
<1>17. Innermost(g) = k /\ Len(Innermost(g).syms) = 0
  <2>1. Innermost(g) = k
    BY <1>9, <1>10 DEF Innermost, Last
  <2> QED
    BY <1>7, <2>1, EmptySeq
<1>18. Segments(g, 0, q, off)
  <2>1. 0 <= Len(Innermost(g).syms) /\ g.blocks[q].kind \in {"body", "handler"}
    BY <1>7, <1>10, <1>17
  <2>2. \A i \in q + 1 .. q : g.blocks[i].kind \notin {"body", "handler"}
    OBVIOUS
  <2>3. \A i \in 1 .. q : g.blocks[i].kind # "try"
    <3>1. \A i \in 1 .. q : i \in 1 .. n \/ i = q
      BY <1>9
    <3> QED
      BY <1>6, <1>7, <1>10, <3>1
  <2>4. \A i \in q .. q - 1 : off[i + 1] = off[i] + Len(g.blocks[i].syms)
    OBVIOUS
  <2>5. off[q] + 0 = Len(g.entries)
    BY <1>8, <1>11, <1>16
  <2>6. \A i, j \in q .. q : i < j =>
           /\ off[i] <= off[j]
           /\ (\A l \in i .. j - 1 : g.blocks[l].syms = <<>>) => off[i] = off[j]
    OBVIOUS
  <2>7. \A i \in q .. q :
           \A j \in 1 .. IF i = q THEN 0 ELSE Len(g.blocks[i].syms) :
              g.entries[off[i] + j] = g.blocks[i].syms[j]
    OBVIOUS
  <2>8. \A i \in 1 .. q - 1 : \A j \in 1 .. Len(g.blocks[i].syms) :
           \E l \in 1 .. off[q] : g.entries[l] = g.blocks[i].syms[j]
    <3>1. \A i \in 1 .. q - 1 : i \in 1 .. n
      BY <1>9
    <3> SUFFICES ASSUME NEW i \in 1 .. q - 1, NEW j \in 1 .. Len(g.blocks[i].syms)
                 PROVE  \E l \in 1 .. off[q] : g.entries[l] = g.blocks[i].syms[j]
      OBVIOUS
    <3>2. OnStack(f, b[i].syms) /\ g.blocks[i] = b[i]
      BY <1>10, <1>14, <3>1
    <3>3. \E l \in 1 .. Len(f.entries) : f.entries[l] = b[i].syms[j]
      BY <3>2 DEF OnStack
    <3> QED
      BY <1>8, <1>11, <1>16, <3>2, <3>3
  <2> QED
    <3>1. SegmentsUpTo(g, q, 0, q, off)
      BY <2>1, <2>2, <2>3, <2>4, <2>5, <2>6, <2>7, <2>8, Zenon DEF SegmentsUpTo
    <3> QED
      BY <1>9, <3>1, SegmentsIntro, Zenon
<1>19. Apart(g, F, q, off)
  <2>1. \A i, j \in 1 .. Len(g.entries) : g.entries[i] = g.entries[j] => i = j
    BY <1>8, <1>15 DEF Apart
  <2>2. \A i \in 1 .. Len(g.entries) : \A e \in F :
           e.label.kind = "onerror" => g.entries[i] # e.label.next
    BY <1>2, <1>8, <1>15 DEF Apart, EarlierThan
  <2>3. ASSUME NEW i \in 1 .. Len(g.entries), g.next <= g.entries[i]
        PROVE  g.entries[i] > g.limit
    <3>1. f.entries[i] \in Nat /\ i \in 1 .. Len(f.entries)
      BY <1>8, ShapedFacts, FrameLemma, SlotsLemma
    <3>2. f.entries[i] # x
      BY <1>1, <1>2, <1>15, <3>1 DEF Apart
    <3>3. PICK y \in Nat : y = f.entries[i]
      BY <3>1
    <3> QED
      BY <1>4, <1>8, <2>3, <3>2, <3>3
  <2>4. \A j \in q + 1 .. q : FALSE
    OBVIOUS
  <2> QED
    BY <1>9, <2>1, <2>2, <2>3, <2>4 DEF Apart
<1>20. /\ \A i \in 1 .. q : g.blocks[i].cond = 0
       /\ \A s \in Slots : g.slots[s] # Wild
  <2>1. \A i \in 1 .. q : i \in 1 .. n \/ i = q
    BY <1>9
  <2>2. \A i \in 1 .. q : g.blocks[i].cond = 0
    BY <1>7, <1>10, <1>14, <2>1
  <2>3. \A s \in Slots : f.slots[s] # Wild
    BY DEF Stacked
  <2> QED
    BY <1>8, <2>2, <2>3
<1>21. q \in 1 .. q
  OBVIOUS
<1>22. Stacked(g, F, 0)
  BY <1>9, <1>18, <1>19, <1>20, <1>21 DEF Stacked
<1> QED
  BY <1>1, <1>2, <1>17, <1>22

=============================================================================
