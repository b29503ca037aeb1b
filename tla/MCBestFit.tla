----------------------------- MODULE MCBestFit -----------------------------
(* Small instances of BestFit for TLC; the constants are in the cfg files. *)
EXTENDS BestFit
=============================================================================
