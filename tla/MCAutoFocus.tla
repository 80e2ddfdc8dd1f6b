----------------------------- MODULE MCAutoFocus -----------------------------
(* A focuser with nine lens positions, two coarse steps apart from end to end. *)
EXTENDS AutoFocus

MCConfidences == {1, 2, 4, 5}   \* of 4: lost, doubted, on the edge, sure
MCPhases == {-3, 0, 3}
MCContrasts == {2, 4}
MCModes == {"Manual", "Auto", "Continuous"}
MCValues == {Setting(1), Setting(6)}
=============================================================================
