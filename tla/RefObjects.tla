----------------------------- MODULE RefObjects -----------------------------
(***************************************************************************)
(* What the heap of the IR interpreter (frontend/vm.c over                 *)
(* common/vm_heap.c) promises to a compiled program: reference counted     *)
(* objects that nobody but their owner changes.  An object exists from its *)
(* ALLOC to the DEREF that takes its last reference, a REALLOC moves it    *)
(* and keeps what it holds, and no operation on one object touches         *)
(* another one.  Module VmHeap implements this specification with free and *)
(* used lists and reference counts stored in the memory it hands out.      *)
(***************************************************************************)
EXTENDS Integers, Sequences, SequencesExt

CONSTANTS
    Ptr,    \* the pointers ALLOC may return
    Word    \* what a word of an object may hold

VARIABLES
    objs,   \* [live pointers -> [refs: Nat \ {0}, data: Seq(Word)]]
    eflag   \* the program's error flag

vars == <<objs, eflag>>

Live == DOMAIN objs

Init ==
    /\ objs = [p \in {} |-> 0]
    /\ eflag = FALSE

\* Every object but those of S is what it was.
Untouched(S) == \A q \in Live \ S : q \in DOMAIN objs' /\ objs'[q] = objs[q]

(***************************************************************************)
(* ALLOC returns a pointer no live object has; its contents are arbitrary. *)
(***************************************************************************)
Alloc ==
    /\ \E p \in Ptr \ Live :
          /\ DOMAIN objs' = Live \cup {p}
          /\ objs'[p].refs = 1
          /\ objs'[p].data \in Seq(Word)
    /\ Untouched({})
    /\ UNCHANGED eflag

\* ALLOC and REALLOC may always run out of memory: nothing but the flag changes.
OutOfMemory ==
    /\ eflag' = TRUE
    /\ UNCHANGED objs

Ref ==
    /\ \E p \in Live : objs' = [objs EXCEPT ![p].refs = @ + 1]
    /\ UNCHANGED eflag

\* The last DEREF of an object ends it.
Deref ==
    /\ \E p \in Live :
          objs' = IF objs[p].refs > 1
                    THEN [objs EXCEPT ![p].refs = @ - 1]
                    ELSE [q \in Live \ {p} |-> objs[q]]
    /\ UNCHANGED eflag

(***************************************************************************)
(* REALLOC moves an unshared object: it stays unshared and its old         *)
(* contents are a prefix of the new ones.                                  *)
(***************************************************************************)
Realloc ==
    /\ \E p \in Live, q \in Ptr \ Live :
          /\ objs[p].refs = 1
          /\ DOMAIN objs' = (Live \ {p}) \cup {q}
          /\ objs'[q].refs = 1
          /\ objs'[q].data \in Seq(Word)
          /\ IsPrefix(objs[p].data, objs'[q].data)
          /\ Untouched({p})
    /\ UNCHANGED eflag

\* The program stores a word into an object it holds.
Write ==
    /\ \E p \in Live \cap DOMAIN objs' : \E i \in DOMAIN objs[p].data :
          /\ objs'[p].data[i] \in Word
          /\ objs' = [objs EXCEPT ![p].data[i] = objs'[p].data[i]]
    /\ UNCHANGED eflag

\* The program consumes the error (parser_error.c, var_set_eflag).
ClearError ==
    /\ eflag' = FALSE
    /\ UNCHANGED objs

Next == Alloc \/ OutOfMemory \/ Ref \/ Deref \/ Realloc \/ Write \/ ClearError

Spec == Init /\ [][Next]_vars
=============================================================================
