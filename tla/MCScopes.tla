------------------------------ MODULE MCScopes ------------------------------
(***************************************************************************)
(* Scopes with a few blocks, slots and frames.  Blocks are never ordered   *)
(* or told apart, so a permutation of them is a symmetry of the safety     *)
(* properties.                                                             *)
(***************************************************************************)
EXTENDS Scopes

BlocksAreAlike == Permutations(Blocks)

\* A sound program, and one that uses every statement that is compiled wrongly.
SoundOrFaulty == {{}, FaultyStatements}
Sound == {{}}
SelfAssigning == {{"SelfAssign"}}

(***************************************************************************)
(* Bounds: one procedure with three levels and two slots or two levels and *)
(* three slots, or two procedures with a level, which a handler opens      *)
(* another in, one of them with two slots and the other with one.  A       *)
(* faulty program is one such procedure.                                   *)
(***************************************************************************)
Shallow ==
    \A i \in DOMAIN frames :
        /\ Level(frames[i]) <= IF Innermost(frames[i]).kind = "handler" THEN 2 ELSE 1
        /\ frames[i].next <= 3 /\ frames[i].counter <= 2
        /\ \A s \in Slots : s > 2 => frames[i].slots[s] = Empty
        /\ i = 2 => frames[1].next + frames[2].next <= 5

InBounds ==
    /\ uses # {} => Len(frames) = 1
    /\ IF uses # {} \/ Len(frames) > 1 THEN Shallow
       ELSE Level(frames[1]) <= 2 \/ \A s \in Slots : s > 2 => frames[1].slots[s] = Empty

ScopesNext == Next /\ InBounds'

ScopesSpec == Init /\ [][ScopesNext]_vars

\* The machine goes on while it can.
FairScopes == ScopesSpec /\ WF_vars(Machine /\ UNCHANGED uses)
=============================================================================
