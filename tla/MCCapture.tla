----------------------------- MODULE MCCapture ------------------------------
(***************************************************************************)
(* Instances of Capture for TLC: a device that prints a boot banner, which *)
(* is required, and a crash dump, which is forbidden.                     *)
(***************************************************************************)
EXTENDS Capture, TLC

CONSTANTS ready, panic, bootLine, crashLine

MCWithin == ready :> 1
MCShown  == bootLine :> {ready} @@ crashLine :> {panic}
=============================================================================
