----------------------------- MODULE BoardReset ------------------------------
(***************************************************************************)
(* What a monitor step with reset_after_upload does before it captures:    *)
(* the port is opened (OpenRetry), and then livePort.Reset pulses the      *)
(* board's reset: the modem lines of the port are set one after the other, *)
(* with a pause while the board is held and another until it has come up.  *)
(* Any of the calls may fail, and a signal cuts either pause short.  RTS   *)
(* holds the board in reset, and DTR then says how it starts when it is    *)
(* let go.                                                                 *)
(***************************************************************************)
EXTENDS OpenRetry, Sequences

CONSTANTS
  Hold,         \* 100 ms
  MaxResetTime  \* bound: last instant of the reset, unless a timer runs

ASSUME BoardResetAssumption == Hold \in Nat \ {0} /\ MaxResetTime \in Nat

VARIABLES
  lines,    \* DTR and RTS as they are
  now,      \* time since the call of Reset
  at,       \* the statement that is next, an index of Calls
  timer,    \* when the timer of sleep fires, 0 while there is none
  answer,   \* what Reset returned: "none", "nil", "canceled" or "error"
  heldAt,   \* history: when RTS was set
  freedAt   \* history: when it was cleared

resetVars == <<lines, now, at, timer, answer, heldAt, freedAt>>
readyVars == <<vars, resetVars>>

Set(line, value) == [line |-> line, value |-> value]
Sleep == [line |-> "none", value |-> FALSE]

(* Seeded fault: DTR is set while the board is still held. *)
Calls_DTRFirst ==
  <<Set("DTR", FALSE), Set("RTS", TRUE), Sleep, Set("DTR", TRUE), Set("RTS", FALSE), Sleep>>

\* the statements of Reset
Calls ==
  <<Set("DTR", FALSE), Set("RTS", TRUE), Sleep, Set("RTS", FALSE), Set("DTR", TRUE), Sleep>>

ResetTypeOK ==
  /\ lines \in [{"DTR", "RTS"} -> BOOLEAN]
  /\ now \in Nat
  /\ at \in 1..Len(Calls)
  /\ timer \in 0..(now + Hold)
  /\ answer \in {"none", "nil", "canceled", "error"}
  /\ heldAt \in 0..now /\ freedAt \in 0..now

ReadyInit ==
  /\ Init
  /\ lines \in [{"DTR", "RTS"} -> BOOLEAN]
  /\ now = 0
  /\ at = 1
  /\ timer = 0
  /\ answer = "none"
  /\ heldAt = 0 /\ freedAt = 0

-----------------------------------------------------------------------------
\* Reset has been called on the port that was opened and has not returned
Running == opened = "stream" /\ answer = "none"

\* the clock, now that the port is open
ResetTick ==
  /\ Running
  /\ now < MaxResetTime \/ now < timer
  /\ now' = now + 1
  /\ UNCHANGED <<vars, lines, at, timer, answer, heldAt, freedAt>>

\* SetDTR or SetRTS; the context is not looked at
SetLine ==
  /\ Running /\ Calls[at] # Sleep
  /\ LET call == Calls[at] IN
     \/ /\ lines' = [lines EXCEPT ![call.line] = call.value]
        /\ at' = at + 1
        /\ heldAt'  = IF call = Set("RTS", TRUE) THEN now ELSE heldAt
        /\ freedAt' = IF call = Set("RTS", FALSE) THEN now ELSE freedAt
        /\ UNCHANGED answer
     \/ /\ answer' = "error"
        /\ UNCHANGED <<lines, at, heldAt, freedAt>>
  /\ UNCHANGED <<vars, now, timer>>

\* time.NewTimer
BeginHold ==
  /\ Running /\ Calls[at] = Sleep /\ timer = 0
  /\ timer' = now + Hold
  /\ UNCHANGED <<vars, lines, now, at, answer, heldAt, freedAt>>

\* sleep has returned nil, and with the last one Reset does
Awake ==
  /\ timer' = 0
  /\ IF at = Len(Calls) THEN answer' = "nil" /\ UNCHANGED at ELSE at' = at + 1 /\ UNCHANGED answer
  /\ UNCHANGED <<vars, lines, now, heldAt, freedAt>>

(* Seeded fault: the timer of the last pause is never read. *)
EndHold_FirstOnly ==
  /\ Running /\ timer > 0 /\ now >= timer
  /\ at < Len(Calls)
  /\ Awake

\* case <-timer.C, which may be late
EndHold ==
  /\ Running /\ timer > 0 /\ now >= timer
  /\ Awake

(* Seeded fault: the error of sleep is ignored. *)
HoldCanceled_Ignored ==
  /\ Running /\ timer > 0 /\ canceled
  /\ Awake

\* case <-ctx.Done(); either case when both are ready
HoldCanceled ==
  /\ Running /\ timer > 0 /\ canceled
  /\ answer' = "canceled"
  /\ UNCHANGED <<vars, lines, now, at, timer, heldAt, freedAt>>

Reset == SetLine \/ BeginHold \/ EndHold \/ HoldCanceled

\* there is no stream, or Reset has returned
Done == retryPc = "returned" /\ ~Running /\ UNCHANGED readyVars

ReadyNext ==
  \/ (Tick \/ Signal \/ PortChanges \/ Retry) /\ UNCHANGED resetVars
  \/ ResetTick \/ Reset
  \/ Done

ReadySpec == ReadyInit /\ [][ReadyNext]_readyVars

\* time passes and the goroutine runs; nothing makes the port come back
FairReadySpec ==
  /\ ReadySpec
  /\ WF_readyVars(Tick /\ UNCHANGED resetVars) /\ WF_readyVars(Retry /\ UNCHANGED resetVars)
  /\ WF_readyVars(ResetTick) /\ WF_readyVars(Reset)

-----------------------------------------------------------------------------
(* Properties *)

(* A reset that counts as done was one: the board was held for the whole   *)
(* first pause, is free, and has had the second to come up, whatever       *)
(* signals arrived and calls failed (the error returns of Reset).          *)
DoneMeansReset ==
  answer = "nil" =>
    /\ ~lines["RTS"] /\ lines["DTR"]
    /\ freedAt >= heldAt + Hold
    /\ now >= freedAt + Hold

(* The board is let go only while DTR is off, so that it starts the        *)
(* firmware and not its boot loader (the order of the calls).              *)
StartsFirmware ==
  [][lines["RTS"] /\ ~lines'["RTS"] => ~lines["DTR"]]_readyVars

(* The monitor is not kept from its capture for ever: with a port or       *)
(* without, with a signal or without, opening and reset come to an end.    *)
ReadyEnds == <>(retryPc = "returned" /\ ~Running)
=============================================================================
