--------------------------- MODULE MCSymbolTable ---------------------------
(***************************************************************************)
(* A symbol table of a few names and bytes.  Bytes and words are the two   *)
(* kinds of variables that make holes in a frame; with two buckets names   *)
(* and temporaries share chains.                                           *)
(***************************************************************************)
EXTENDS SymbolTable

ByteAndWord == {[size |-> 1, align |-> 1], [size |-> 2, align |-> 2]}
=============================================================================
