------------------------------ MODULE MCSystem ------------------------------
(***************************************************************************)
(* Instances of System for TLC: one board whose port comes and goes, which *)
(* prints a line that is required and a line that is forbidden.            *)
(***************************************************************************)
EXTENDS System, TLC

CONSTANTS ready, panic, bootLine, crashLine

MCWithin == ready :> 1
MCShown  == bootLine :> {ready} @@ crashLine :> {panic}

TwoMonitors == {<<"upload", "monitor">>, <<"monitor", "monitor">>}
=============================================================================
