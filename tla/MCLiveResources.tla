--------------------------- MODULE MCLiveResources ---------------------------
(* Small instances of LiveResources for TLC.                               *)
EXTENDS LiveResources
=============================================================================
