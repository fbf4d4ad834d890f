--------------------------- MODULE MCStreamManager ---------------------------
(***************************************************************************)
(* The module of TLC's run of StreamManager; its constants are numbers.    *)
(***************************************************************************)
EXTENDS StreamManager
=============================================================================
