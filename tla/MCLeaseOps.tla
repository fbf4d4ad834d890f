----------------------------- MODULE MCLeaseOps ------------------------------
(***************************************************************************)
(* Constants for TLC's run of LeaseOps.                                    *)
(***************************************************************************)
EXTENDS LeaseOps

PrimaryOnly == {Primary}
=============================================================================
