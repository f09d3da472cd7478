--------------------------- MODULE MCStillCapture ---------------------------
(* Small instances of StillCapture for TLC.                                *)
EXTENDS StillCapture
=============================================================================
