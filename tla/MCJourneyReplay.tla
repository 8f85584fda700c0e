--------------------------- MODULE MCJourneyReplay ---------------------------
(***************************************************************************)
(* TLC instance of JourneyReplay, on every journey the code defines.       *)
(***************************************************************************)
EXTENDS JourneyReplay
=============================================================================
