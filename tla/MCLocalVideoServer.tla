------------------------- MODULE MCLocalVideoServer -------------------------
(***************************************************************************)
(* Values of the constants of LocalVideoServer for TLC.                    *)
(***************************************************************************)
EXTENDS LocalVideoServer

CONSTANTS v1, v2, app, other

TwoViewers == {v1, v2}
TwoStoppers == {app, other}
\* The second of the images is of a mode that JPEG does not know.
SecondImage == {2}
=============================================================================
