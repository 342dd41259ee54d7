------------------------------ MODULE MCHeaps ------------------------------
(***************************************************************************)
(* The two heaps, side by side: VmHeap, of the interpreter, and ArmHeap,   *)
(* of the ARM back ends.  A behaviour is one of the one or of the other;   *)
(* the heap that is not looked at stays as it was at the start.            *)
(*                                                                         *)
(* VmHeap has a few words: small enough to reach every order of the lists, *)
(* large enough for splits, exact fits that are not first in the list,     *)
(* reallocations and exhaustion.                                           *)
(*                                                                         *)
(* ArmHeap has twelve granules and four slots.  Requests of 40 bytes take  *)
(* two granules, with six bytes to append to; those of 144 and 170 take    *)
(* five and six, both from the last slot, whose first block may be too     *)
(* small for the second.                                                   *)
(***************************************************************************)
EXTENDS VmHeap

VARIABLES looked,                       \* the heap of this behaviour
          slots, headers, held, aflag   \* the variables of ArmHeap

armvars == <<slots, headers, held, aflag>>

Arm == INSTANCE ArmHeap WITH
    HeapSize <- 12, MaxSlot <- 3, Word <- 64, Sizes <- {40, 144, 170}, Growths <- {6},
    Values <- {0, 1}, MaxRefs <- 2, MaxHeld <- 3,
    mem <- headers, eflag <- aflag

ASSUME ArmConstants == Arm!Sizeable

HeapsInit == looked \in {"vm", "arm"} /\ Init /\ Arm!Init

VmStep == looked = "vm" /\ Next /\ UNCHANGED <<looked, armvars>>

ArmStep == looked = "arm" /\ Arm!Next /\ UNCHANGED <<looked, vars>>

HeapsNext == VmStep \/ ArmStep

HeapsSpec == HeapsInit /\ [][HeapsNext]_<<looked, vars, armvars>>

(***************************************************************************)
(* The heap of the ARM back ends: its blocks lie one behind the other from *)
(* the start of the heap to its end, the lists of the slots have exactly   *)
(* the free ones, each in the slot of its size, and the bytes in use of a  *)
(* block are inside it.                                                    *)
(***************************************************************************)
SlotsSound == Arm!HeapSound

(***************************************************************************)
(* HEAPFREE of the ARM back ends adds up to the whole heap exactly when    *)
(* the program holds no block: cutting what is left of a block into powers *)
(* of two loses nothing.                                                   *)
(***************************************************************************)
SlotsLeakCheckExact == Arm!LeakCheckExact

(***************************************************************************)
(* The search of the slots refuses a request only when no free block is    *)
(* large enough for it.                                                    *)
(***************************************************************************)
RefusedOnlyWhenFull == Arm!RefusedOnlyWhenFull

(***************************************************************************)
(* The slots implement the reference counted objects of RefObjects, like   *)
(* the lists of the interpreter: a program cannot tell the two apart.      *)
(***************************************************************************)
SlotsImplementObjects == Arm!ImplementsObjects
=============================================================================
