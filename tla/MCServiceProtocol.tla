------------------------- MODULE MCServiceProtocol -------------------------
(***************************************************************************)
(* Values of the constants of ServiceProtocol for TLC.                     *)
(***************************************************************************)
EXTENDS ServiceProtocol

CONSTANTS c1, c2

TwoCalls == {c1, c2}
OneCall == {c1}

\* What the callers of a run send.
Everything == Request
Client == {"rs256", "stop"}
=============================================================================
