--------------------------- MODULE SerialVerdicts ---------------------------
(***************************************************************************)
(* What the assertion evaluator promises (docs/architecture.md,            *)
(* "Determinism"): every verdict is decided by the WHOLE text heard since  *)
(* the monitor started, never by how that text was cut into reads or by    *)
(* how much of it the evaluator still remembers.                           *)
(*                                                                         *)
(* Module Evaluator (bytes, bounded buffer) is shown to implement this     *)
(* module; module Capture uses it as its evaluator.  What "the text shows  *)
(* the value of assertion a" means is a parameter, Shows(a, text): a       *)
(* substring test over bytes in Evaluator, a membership test over reads in *)
(* Capture.                                                                *)
(***************************************************************************)
EXTENDS Naturals, Sequences

CONSTANTS
  Required,     \* the serial_contains assertions
  Forbidden,    \* the serial_not_contains assertions
  Within,       \* the deadline of each required assertion
  Piece,        \* the pieces of text one observation may add
  Time,         \* the instants an observation may be stamped with
  Shows(_, _)   \* Shows(a, text): text contains the value of assertion a

VARIABLES
  heard,        \* everything observed so far
  results       \* the verdicts given so far

vars == <<heard, results>>

Verdict(a, passed, at) == [assertion |-> a, passed |-> passed, at |-> at]

Undecided(a) == \A r \in results : r.assertion # a

Init ==
  /\ heard = <<>>
  /\ results = {}

(* Verdicts that a text decides by what it shows at instant `at`: a        *)
(* required value in time is a pass, a forbidden value is a failure.       *)
ShownVerdicts(text, at) ==
  {Verdict(a, TRUE, at) :
     a \in {b \in Required : Undecided(b) /\ at <= Within[b] /\ Shows(b, text)}}
  \cup
  {Verdict(a, FALSE, at) :
     a \in {b \in Forbidden : Undecided(b) /\ Shows(b, text)}}

(* Verdicts that the end of the monitor window decides by absence. *)
AbsentVerdicts(at) ==
  {Verdict(a, FALSE, Within[a]) : a \in {b \in Required : Undecided(b)}}
  \cup
  {Verdict(a, TRUE, at) : a \in {b \in Forbidden : Undecided(b)}}

Observe(piece, at) ==
  /\ heard' = heard \o piece
  /\ results' = results \cup ShownVerdicts(heard \o piece, at)

Finish(at) ==
  /\ results' = results \cup AbsentVerdicts(at)
  /\ heard' = heard

Next ==
  \/ \E piece \in Piece, at \in Time : Observe(piece, at)
  \/ \E at \in Time : Finish(at)

Spec == Init /\ [][Next]_vars
=============================================================================
