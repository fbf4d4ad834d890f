----------------------------- MODULE MCLiveStatus -----------------------------
(***************************************************************************)
(* Constants for TLC's run of LiveStatus: a service of one node, of all    *)
(* nodes, and of an active/passive pair.  A worker has one task that may   *)
(* start FFmpeg at a time and up to two monitors, so that a monitor that   *)
(* is late meets its successor.                                            *)
(***************************************************************************)
EXTENDS LiveStatus

CONSTANTS primary, backup

Config(t, f, ap) == [target |-> t, failover |-> f, active_passive |-> ap]

OneOfEach == {Config(primary, None, FALSE), Config(All, None, FALSE),
              Config(primary, backup, TRUE)}
=============================================================================
