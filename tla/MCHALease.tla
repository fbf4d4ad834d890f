------------------------------ MODULE MCHALease ------------------------------
(***************************************************************************)
(* Constants for TLC's runs of HALease.                                    *)
(***************************************************************************)
EXTENDS HALease

NoWorker == {}
PrimaryOnly == {Primary}
=============================================================================
