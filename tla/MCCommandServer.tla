-------------------------- MODULE MCCommandServer --------------------------
(***************************************************************************)
(* Values of the constants of CommandServer for TLC.                       *)
(***************************************************************************)
EXTENDS CommandServer

CONSTANTS c1, c2

TwoConn == {c1, c2}

\* One client wants photos, the other one anything (bad JSON gets the answer of a check).
PhotoAndAll == [c \in TwoConn |-> IF c = c1 THEN {"photo"} ELSE Request \ {"badjson"}]

LastImage == {2}
=============================================================================
