------------------------------ MODULE MCRunDir ------------------------------
(***************************************************************************)
(* An instance of RunDir for TLC, with three names per second instead of   *)
(* one hundred.                                                            *)
(***************************************************************************)
EXTENDS RunDir

Processes == {"a", "b", "c"}
Seconds   == {"12:00:00", "12:00:01"}
=============================================================================
