------------------------------ MODULE MCDispatch ------------------------------
(* Two nodes: x calls from node a; y serves at node b, and calls from there.*)
EXTENDS Dispatch

CONSTANTS a, b, x, y, x1, x2, y1, r1, r2

HomeOf == [c \in Clients |-> IF c = x THEN a ELSE b]
OwnerOf == [k \in Conns |-> IF k \in {x1, x2} THEN x ELSE y]
SourceOf == [r \in Calls |-> IF r = r1 THEN x ELSE y]
=============================================================================
