---------------------------- MODULE Environment ----------------------------
(***************************************************************************)
(* What a symbol table promises to the parser: a stack of scopes.  A name  *)
(* means what the scope that declared it says, until that scope is closed; *)
(* a variable has a place in the frame of the procedure that no other      *)
(* visible variable shares.  Local variables do not shadow local           *)
(* variables: a name that is visible is not declared again                 *)
(* (docs/Subtilis.md).  Module SymbolTable implements this with a hash     *)
(* table, a list of symbols per level and a count of allocated bytes.      *)
(***************************************************************************)
EXTENDS Integers, Sequences

CONSTANTS
    Name,   \* names of the program and of temporaries
    Place   \* what a declaration says: [loc, size, inReg]

VARIABLE scopes \* outermost first, each a set of [name, place]

vars == <<scopes>>

Visible == UNION {scopes[i] : i \in DOMAIN scopes}

\* Two variables that live in the frame share none of its bytes.
Clash(p, q) ==
    /\ ~p.inReg /\ ~q.inReg
    /\ p.loc < q.loc + q.size
    /\ q.loc < p.loc + p.size

Init == scopes = <<{}>>

Open == scopes' = Append(scopes, {})

Close ==
    /\ Len(scopes) > 1
    /\ scopes' = SubSeq(scopes, 1, Len(scopes) - 1)

\* Declare a new name, in the innermost scope or (a buffer) in the outermost.
Declare ==
    \E i \in {1, Len(scopes)} :
        /\ scopes' = [scopes EXCEPT ![i] = scopes'[i]]
        /\ scopes[i] \subseteq scopes'[i]
        /\ \E e \in scopes'[i] :
              /\ scopes'[i] = scopes[i] \cup {e}
              /\ e.name \in Name /\ e.place \in Place
              /\ \A v \in Visible : v.name # e.name /\ ~Clash(v.place, e.place)

\* A temporary gets the name of a variable and stays what it is.
Rename ==
    \E i \in DOMAIN scopes : \E t \in scopes[i] :
        \E e \in scopes'[i] :
            /\ e.name \in Name /\ e.place = t.place
            /\ \A v \in Visible : v.name # e.name
            /\ scopes' = [scopes EXCEPT ![i] = (@ \ {t}) \cup {e}]

Next == Open \/ Close \/ Declare \/ Rename

Spec == Init /\ [][Next]_vars
=============================================================================
