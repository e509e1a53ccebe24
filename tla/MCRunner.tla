------------------------------ MODULE MCRunner ------------------------------
(***************************************************************************)
(* Instances of Runner for TLC, with the ports of two boards and others    *)
(* that no board has.                                                      *)
(***************************************************************************)
EXTENDS Runner, TLC

\* every list of at most three steps, and of at most two
ListsUpTo(n) == UNION {[1..k -> StepType] : k \in 1..n}
ListsUpTo3 == ListsUpTo(3)
ListsUpTo2 == ListsUpTo(2)

\* what `architon init` writes
Starter == {<<"build", "upload", "monitor">>}

\* the ports of two boards are interchangeable
PortSymmetry == Permutations(Marked)
=============================================================================
