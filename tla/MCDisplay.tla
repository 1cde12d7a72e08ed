------------------------------ MODULE MCDisplay ------------------------------
(***************************************************************************)
(* Two feeds with one item each (MCParts has others), messages of one letter *)
(* on a row of one column.                                                  *)
(***************************************************************************)
EXTENDS DisplaySystem

MCItemsOf == [f \in 0 .. 1 |-> 1]
=============================================================================
