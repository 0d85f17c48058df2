------------------------------ MODULE MCRsRing ------------------------------
(***************************************************************************)
(* RsRing on a ring of three slots: thresholds below, at and above the     *)
(* capacity, two window lengths, and callers that stall with a timestamp.  *)
(***************************************************************************)
EXTENDS RsRing

MCThresholds == {0, 2, 3, 4}
MCWindows    == {0, 1, 2}
=============================================================================
