---------------------------- MODULE SymbolTable ----------------------------
(***************************************************************************)
(* The symbol table of a procedure: frontend/symbol_table.c over           *)
(* frontend/hash_table.c.  Names are found in a hash table; a list per     *)
(* level remembers which symbols to remove when the block ends; allocated  *)
(* counts the bytes of the frame.  Temporaries have numbers for names and  *)
(* may be promoted to a variable.  Nothing is ever shadowed: the parser    *)
(* looks a name up before it declares it.                                  *)
(*                                                                         *)
(* A name stands for its hash before the reduction, so two names may share *)
(* a bucket; a symbol is a number, its place in symbols.                   *)
(***************************************************************************)
EXTENDS Integers, Sequences, SequencesExt, FiniteSets

CONSTANTS
    Names,      \* the identifiers of the program, none of them a number the
                \* table makes up for a temporary
    Types,      \* [size, align] of the types of the program
    NumBuckets, \* SUBTILIS_CONFIG_ST_SIZE
    MaxLevels,  \* SUBTILIS_SYMBOL_MAX_LEVELS
    MaxDepth,   \* bound: blocks the program opens inside each other
    MaxSymbols  \* bound: symbols of one procedure

ASSUME SymbolAssumption ==
    /\ Names \subseteq Nat \ (0 .. MaxSymbols)
    /\ Types \subseteq [size : Nat \ {0}, align : Nat \ {0}]
    /\ NumBuckets \in Nat \ {0}
    /\ MaxLevels \in Nat \ {0}
    /\ MaxDepth \in Nat
    /\ MaxSymbols \in Nat

VARIABLES
    buckets,    \* h->buckets: chains of [key, value], newest first
    levels,     \* levels[i].symbols: symbols in the order of declaration
    level,      \* the level of the innermost open block
    allocated,  \* bytes of the frame in use
    tmpCount,   \* number of the next temporary
    symbols     \* every symbol made so far: [key, loc, size, inReg]

vars == <<buckets, levels, level, allocated, tmpCount, symbols>>

None == 0

-----------------------------------------------------------------------------
(* frontend/hash_table.c *)

Hash(key) == key % NumBuckets

\* prv_find_node: the place of a key in its chain, 0 if it is not there.
FindNode(h, key) == SelectInSeq(h[Hash(key)], LAMBDA n : n.key = key)

Find(h, key) ==
    LET i == FindNode(h, key)
    IN  IF i = 0 THEN None ELSE h[Hash(key)][i].value

\* A key that is there already keeps its value.
HashInsert(h, key, value) ==
    IF FindNode(h, key) # 0
      THEN h
      ELSE [h EXCEPT ![Hash(key)] = <<[key |-> key, value |-> value]>> \o @]

\* subtilis_hashtable_remove, and what is left by subtilis_hashtable_extract.
HashRemove(h, key) ==
    LET i == FindNode(h, key)
    IN  IF i = 0 THEN h ELSE [h EXCEPT ![Hash(key)] = RemoveAt(@, i)]

-----------------------------------------------------------------------------
(* frontend/symbol_table.c *)

Lookup(name) == Find(buckets, name)

Aligned(n, align) == ((n + align - 1) \div align) * align

\* Mutant: the bytes skipped to align a variable are not counted.
AllocatesUnaligned(key, type, lvl) ==
    /\ symbols' = Append(symbols, [key |-> key, loc |-> Aligned(allocated, type.align),
                                   size |-> type.size, inReg |-> FALSE])
    /\ allocated' = allocated + type.size
    /\ levels' = [levels EXCEPT ![lvl] = Append(@, Len(symbols) + 1)]
    /\ buckets' = HashInsert(buckets, key, Len(symbols) + 1)

(***************************************************************************)
(* prv_symbol_table_insert, for a name that is not in the table: the frame *)
(* grows to the alignment of the type and by its size.                     *)
(***************************************************************************)
Allocate(key, type, lvl) ==
    LET loc == Aligned(allocated, type.align)
    IN  /\ symbols' = Append(symbols, [key |-> key, loc |-> loc,
                                       size |-> type.size, inReg |-> FALSE])
        /\ allocated' = loc + type.size
        /\ levels' = [levels EXCEPT ![lvl] = Append(@, Len(symbols) + 1)]
        /\ buckets' = HashInsert(buckets, key, Len(symbols) + 1)

\* Room for another symbol, and a level the table has.
Usable == level < MaxLevels /\ Len(symbols) < MaxSymbols

\* subtilis_symbol_table_insert: a name that is there is not inserted again.
Insert(name, type) ==
    /\ Usable
    /\ IF Lookup(name) # None
         THEN UNCHANGED <<symbols, allocated, levels, buckets>>
         ELSE Allocate(name, type, level)
    /\ UNCHANGED <<level, tmpCount>>

\* subtilis_symbol_table_insert_tmp
InsertTmp(type) ==
    /\ Usable
    /\ Allocate(tmpCount, type, level)
    /\ tmpCount' = tmpCount + 1
    /\ UNCHANGED level

\* subtilis_symbol_table_create_local_buf: at level 0 wherever the program is.
CreateLocalBuf(type) ==
    /\ Usable
    /\ Allocate(tmpCount, type, 0)
    /\ tmpCount' = tmpCount + 1
    /\ UNCHANGED level

\* subtilis_symbol_table_create_named_local_buf: made when it is first needed.
CreateNamedLocalBuf(name, type) ==
    /\ Usable
    /\ IF Lookup(name) # None
         THEN UNCHANGED <<symbols, allocated, levels, buckets>>
         ELSE Allocate(name, type, 0)
    /\ UNCHANGED <<level, tmpCount>>

\* subtilis_symbol_table_insert_reg: loc is the number of a register.
InsertReg(name, type) ==
    /\ Usable
    /\ IF Lookup(name) # None
         THEN UNCHANGED <<symbols, levels, buckets>>
         ELSE /\ symbols' = Append(symbols, [key |-> name, loc |-> 0,
                                             size |-> type.size, inReg |-> TRUE])
              /\ levels' = [levels EXCEPT ![level] = Append(@, Len(symbols) + 1)]
              /\ buckets' = HashInsert(buckets, name, Len(symbols) + 1)
    /\ UNCHANGED <<level, allocated, tmpCount>>

\* Mutant: the symbol keeps the name of the temporary.
PromoteKeepsKey(tmp, name) ==
    /\ Lookup(name) = None
    /\ buckets' = HashInsert(HashRemove(buckets, tmp), name, Lookup(tmp))
    /\ UNCHANGED <<symbols, levels, level, allocated, tmpCount>>

(***************************************************************************)
(* subtilis_symbol_table_promote_tmp: the symbol of a temporary moves to   *)
(* the name of a variable the parser has not found in the table.           *)
(***************************************************************************)
PromoteTmp(tmp, name) ==
    LET s == Lookup(tmp)
    IN  /\ Lookup(name) = None
        /\ symbols' = [symbols EXCEPT ![s].key = name]
        /\ buckets' = HashInsert(HashRemove(buckets, tmp), name, s)
        /\ UNCHANGED <<levels, level, allocated, tmpCount>>

\* The temporaries of the statement the parser is in.
Temporaries ==
    {t \in 0 .. tmpCount - 1 : level < MaxLevels /\ Lookup(t) \in ToSet(levels[level])}

(***************************************************************************)
(* subtilis_symbol_table_level_up: "too many blocks", the guard here, ends  *)
(* the compilation.  It lets the level reach MaxLevels, which the table of *)
(* levels does not have: what the other operations do there is undefined,  *)
(* and they are not modelled there.                                        *)
(***************************************************************************)
LevelUp ==
    /\ level < MaxDepth
    /\ level < MaxLevels
    /\ level' = level + 1
    /\ UNCHANGED <<buckets, levels, allocated, tmpCount, symbols>>

\* The table after the symbols of a list were removed, one after the other.
RemoveSymbols(h, list) ==
    LET removed[n \in 0 .. Len(list)] ==
          IF n = 0 THEN h ELSE HashRemove(removed[n - 1], symbols[list[n]].key)
    IN  removed[Len(list)]

\* Mutant: the bytes of the block are given back.
LevelDownFreesFrame ==
    /\ level > 0 /\ level < MaxLevels
    /\ buckets' = RemoveSymbols(buckets, levels[level])
    /\ allocated' = IF levels[level] = <<>> THEN allocated
                                            ELSE symbols[Head(levels[level])].loc
    /\ levels' = [levels EXCEPT ![level] = <<>>]
    /\ level' = level - 1
    /\ UNCHANGED <<tmpCount, symbols>>

(***************************************************************************)
(* subtilis_symbol_table_level_down: the symbols of the block leave the    *)
(* hash table by their names; the frame keeps their bytes.                 *)
(***************************************************************************)
LevelDown ==
    /\ level > 0 /\ level < MaxLevels
    /\ buckets' = RemoveSymbols(buckets, levels[level])
    /\ levels' = [levels EXCEPT ![level] = <<>>]
    /\ level' = level - 1
    /\ UNCHANGED <<allocated, tmpCount, symbols>>

-----------------------------------------------------------------------------
(* The specification *)

Init ==
    /\ buckets = [b \in 0 .. NumBuckets - 1 |-> <<>>]
    /\ levels = [l \in 0 .. MaxLevels - 1 |-> <<>>]
    /\ level = 0
    /\ allocated = 0
    /\ tmpCount = 0
    /\ symbols = <<>>

Next ==
    \/ \E name \in Names, type \in Types :
          Insert(name, type) \/ CreateNamedLocalBuf(name, type) \/ InsertReg(name, type)
    \/ \E type \in Types : InsertTmp(type) \/ CreateLocalBuf(type)
    \/ \E tmp \in Temporaries, name \in Names : PromoteTmp(tmp, name)
    \/ LevelUp \/ LevelDown

Spec == Init /\ [][Next]_vars

-----------------------------------------------------------------------------
(* Properties *)

Listed(l) == ToSet(levels[l])

TypeOK ==
    /\ buckets \in [0 .. NumBuckets - 1 -> Seq([key : Nat, value : DOMAIN symbols])]
    /\ level \in 0 .. MaxDepth
    /\ levels \in [0 .. MaxLevels - 1 -> Seq(DOMAIN symbols)]
    /\ \A l \in DOMAIN levels : l > level => levels[l] = <<>>
    /\ allocated \in Nat
    /\ tmpCount \in Nat
    /\ symbols \in Seq([key : Nat, loc : Nat, size : Nat, inReg : BOOLEAN])

(***************************************************************************)
(* The hash table finds exactly the symbols the levels list, each under    *)
(* its own name, whatever was promoted and closed before: nothing stays    *)
(* visible after its block and nothing is lost with another block.         *)
(***************************************************************************)
TableMatchesScopes ==
    /\ TypeOK
    /\ \A l \in DOMAIN levels : \A s \in Listed(l) : Find(buckets, symbols[s].key) = s
    /\ \A b \in DOMAIN buckets : \A i \in DOMAIN buckets[b] :
          \E l \in DOMAIN levels : buckets[b][i].value \in Listed(l)

InFrame == {s \in DOMAIN symbols : ~symbols[s].inReg}

End(s) == symbols[s].loc + symbols[s].size

(***************************************************************************)
(* The variables of a procedure that live in its frame lie inside what was *)
(* allocated, and no two of them overlap, even if their blocks were open   *)
(* at different times: a buffer of level 0 made in a block outlives it.    *)
(***************************************************************************)
FrameSound ==
    /\ \A s \in InFrame : End(s) <= allocated
    /\ \A s, t \in InFrame : s # t => End(s) <= symbols[t].loc \/ End(t) <= symbols[s].loc

PlaceOf(s) == [loc |-> symbols[s].loc, size |-> symbols[s].size, inReg |-> symbols[s].inReg]

Scopes == INSTANCE Environment WITH
    Name <- Nat,
    Place <- [loc : Nat, size : Nat, inReg : BOOLEAN],
    scopes <- [i \in 1 .. level + 1 |->
                 {[name |-> symbols[s].key, place |-> PlaceOf(s)] : s \in Listed(i - 1)}]

(***************************************************************************)
(* The lists, the numbered symbols and the count of bytes are a stack of   *)
(* scopes: every declaration, promotion and end of a block is one.         *)
(***************************************************************************)
ImplementsEnvironment == Scopes!Spec
=============================================================================
