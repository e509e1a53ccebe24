----------------------------- MODULE OpenRetry ------------------------------
(***************************************************************************)
(* openSerialWithRetry: after an upload the board restarts and its port    *)
(* goes away for a while, so the port is tried every `Interval` until the  *)
(* boot timeout.  Time may pass, the port may come or go and a signal may  *)
(* arrive between any two steps, also between a look at the context and    *)
(* what is then done: Hardware.Open looks before it opens the port, the    *)
(* loop looks before it checks the deadline and pauses, and the pause is a *)
(* select between a timer and the context (RealClock.Sleep).               *)
(***************************************************************************)
EXTENDS Integers

CONSTANTS
  Interval,    \* 250 ms
  BootTimeout, \* cfg.Execution.BootTimeout
  MaxTime      \* bound: last instant, unless a timer runs

ASSUME OpenRetryAssumption ==
  /\ Interval \in Nat \ {0}
  /\ BootTimeout \in Nat \ {0}
  /\ MaxTime \in Nat
  /\ BootTimeout <= MaxTime

VARIABLES
  clock,      \* Clock.Now() since the call
  canceled,   \* ctx is done: a signal has arrived
  openable,   \* the port can be opened
  retryPc,    \* the step that is next
  wake,       \* when the timer of Sleep fires
  opened,     \* the result: "none", "stream", "canceled" or "error"
  tries,      \* history: how often the port was tried
  lastTry,    \* history: when it was tried last
  late        \* history: how many tries and pauses were begun after the signal

worldVars == <<clock, canceled, openable>>
retryVars == <<retryPc, wake, opened, tries, lastTry, late>>
vars == <<worldVars, retryVars>>

TypeOK ==
  /\ clock \in Nat
  /\ canceled \in BOOLEAN
  /\ openable \in BOOLEAN
  /\ retryPc \in {"look", "open", "check", "deadline", "pause", "sleep", "returned"}
  /\ wake \in Nat
  /\ opened \in {"none", "stream", "canceled", "error"}
  /\ tries \in Nat
  /\ lastTry \in 0..clock
  /\ late \in Nat

Init ==
  /\ clock = 0
  /\ canceled \in BOOLEAN
  /\ openable \in BOOLEAN
  /\ retryPc = "look"
  /\ wake = 0
  /\ opened = "none"
  /\ tries = 0
  /\ lastTry = 0
  /\ late = 0

-----------------------------------------------------------------------------
(* The environment *)

Tick ==
  /\ retryPc # "returned"
  /\ clock < MaxTime \/ (retryPc = "sleep" /\ clock < wake)
  /\ clock' = clock + 1
  /\ UNCHANGED <<canceled, openable, retryVars>>

Signal ==
  /\ ~canceled
  /\ canceled' = TRUE
  /\ UNCHANGED <<clock, openable, retryVars>>

\* only the moment of a try can tell
PortChanges ==
  /\ retryPc = "open"
  /\ openable' = ~openable
  /\ UNCHANGED <<clock, canceled, retryVars>>

-----------------------------------------------------------------------------
(* openSerialWithRetry *)

Return(o) == retryPc' = "returned" /\ opened' = o

Goto(step) == retryPc' = step /\ UNCHANGED opened

\* a try or a pause is begun, and the signal may have been there before
CountLate == late' = IF canceled THEN late + 1 ELSE late

(* Seeded fault: the context is not looked at before the port. *)
Look_IgnoresContext ==
  /\ retryPc = "look"
  /\ Goto("open")
  /\ UNCHANGED <<worldVars, wake, tries, lastTry, late>>

\* Hardware.Open: case <-ctx.Done()
Look ==
  /\ retryPc = "look"
  /\ Goto(IF canceled THEN "check" ELSE "open")
  /\ UNCHANGED <<worldVars, wake, tries, lastTry, late>>

\* seriallib.Open, which knows no context
Try ==
  /\ retryPc = "open"
  /\ tries' = tries + 1 /\ lastTry' = clock
  /\ CountLate
  /\ IF openable THEN Return("stream") ELSE Goto("check")
  /\ UNCHANGED <<worldVars, wake>>

(* Seeded fault: a failed try is taken for the port's fault. *)
Check_IgnoresContext ==
  /\ retryPc = "check"
  /\ Goto("deadline")
  /\ UNCHANGED <<worldVars, wake, tries, lastTry, late>>

\* Open has failed, by the port or by the context: ctx.Err()
Check ==
  /\ retryPc = "check"
  /\ IF canceled THEN Return("canceled") ELSE Goto("deadline")
  /\ UNCHANGED <<worldVars, wake, tries, lastTry, late>>

(* Seeded faults: the deadline counts from the last try; the loop gives up *)
(* when the next try would be late.                                        *)
Deadline_Moves ==
  /\ retryPc = "deadline"
  /\ IF clock >= lastTry + BootTimeout THEN Return("error") ELSE Goto("pause")
  /\ UNCHANGED <<worldVars, wake, tries, lastTry, late>>

Deadline_TooEarly ==
  /\ retryPc = "deadline"
  /\ IF clock + Interval > BootTimeout THEN Return("error") ELSE Goto("pause")
  /\ UNCHANGED <<worldVars, wake, tries, lastTry, late>>

\* Clock.Now().Before(deadline)
Deadline ==
  /\ retryPc = "deadline"
  /\ IF clock >= BootTimeout THEN Return("error") ELSE Goto("pause")
  /\ UNCHANGED <<worldVars, wake, tries, lastTry, late>>

\* Clock.Sleep is called and makes its timer
Pause ==
  /\ retryPc = "pause"
  /\ wake' = clock + Interval
  /\ CountLate
  /\ Goto("sleep")
  /\ UNCHANGED <<worldVars, tries, lastTry>>

\* case <-timer.C, which may be late
Wake ==
  /\ retryPc = "sleep"
  /\ clock >= wake
  /\ Goto("look")
  /\ UNCHANGED <<worldVars, wake, tries, lastTry, late>>

\* case <-ctx.Done(); either case when both are ready
SleepCanceled ==
  /\ retryPc = "sleep"
  /\ canceled
  /\ Return("canceled")
  /\ UNCHANGED <<worldVars, wake, tries, lastTry, late>>

Retry == Look \/ Try \/ Check \/ Deadline \/ Pause \/ Wake \/ SleepCanceled

Returned == retryPc = "returned" /\ UNCHANGED vars

Next == Tick \/ Signal \/ PortChanges \/ Retry \/ Returned

Spec == Init /\ [][Next]_vars

-----------------------------------------------------------------------------
(* Properties *)

(* The board has its whole boot timeout: the run gives up on the port only *)
(* when the time is up, and at least one try has failed by then            *)
(* (deadline in openSerialWithRetry; docs/test-format.md:79).              *)
GivesUpOnlyLate == opened = "error" => clock >= BootTimeout /\ tries > 0

(* However late timers fire, the port is tried a bounded number of times:  *)
(* all tries but the last start before the deadline, `Interval` apart.     *)
TriesBounded == (tries - 2) * Interval < BootTimeout

(* The port is never hammered: a try starts at least `Interval` after the  *)
(* one before (Clock.Sleep in the loop).                                   *)
TriesPaced == [][tries' # tries /\ tries > 0 => clock >= lastTry + Interval]_vars

(* A signal may come after any look at the context, and be seen only by    *)
(* the next one; but by then the loop has begun at most one thing more, a  *)
(* try of the port or a pause, and neither can follow the other (the looks *)
(* of Hardware.Open, of the loop and of RealClock.Sleep taken together).   *)
SignalAllowsOneMore == late <= 1
=============================================================================
