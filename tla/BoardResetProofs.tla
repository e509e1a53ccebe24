-------------------------- MODULE BoardResetProofs ---------------------------
(***************************************************************************)
(* Proofs about the opening of the port and the reset after it, for        *)
(* pauses and timeouts of any length.                                      *)
(*                                                                         *)
(* OpenRetry: the invariant `Pace` relates the number of tries to the      *)
(* instant of the last one, and says where in the loop the next may start: *)
(* a pause is begun only when the last try was before the deadline and     *)
(* ends an `Interval` after it.  `LateIsLast` says where the loop may be   *)
(* when something was begun after the signal: past every look at the       *)
(* context that has another try or pause behind it.                        *)
(*                                                                         *)
(* BoardReset: the invariant says of each statement what the lines are and *)
(* how long they have been so when it is next; opening the port does not   *)
(* touch it, and the reset does not touch what OpenRetry is about.         *)
(***************************************************************************)
EXTENDS BoardReset, TLAPS

-----------------------------------------------------------------------------
(* The retry loop *)

Pace ==
  /\ tries > 0 => (tries - 1) * Interval <= lastTry
  /\ retryPc \in {"deadline", "pause", "sleep"} => tries > 0
  /\ retryPc \in {"look", "open", "pause", "sleep"} /\ tries > 0 => lastTry < BootTimeout
  /\ retryPc = "sleep" => wake >= lastTry + Interval
  /\ retryPc \in {"look", "open"} /\ tries > 0 => clock >= lastTry + Interval
  /\ retryPc = "check" /\ ~canceled => tries > 0

LateIsLast ==
  /\ SignalAllowsOneMore
  /\ late > 0 => canceled
  /\ retryPc \in {"open", "deadline", "pause"} => late = 0

RetryInv == TypeOK /\ Pace /\ TriesBounded /\ GivesUpOnlyLate /\ LateIsLast

LEMMA InitRetryInv == Init => RetryInv
  BY OpenRetryAssumption
     DEF Init, RetryInv, TypeOK, Pace, TriesBounded, GivesUpOnlyLate, LateIsLast, SignalAllowsOneMore

LEMMA TypeKept == TypeOK /\ [Next]_vars => TypeOK'
  <1> SUFFICES ASSUME TypeOK, [Next]_vars PROVE TypeOK'
    OBVIOUS
  <1> USE OpenRetryAssumption DEF TypeOK, worldVars, retryVars
  <1>1. CASE Tick
    BY <1>1 DEF Tick
  <1>2. CASE Signal \/ PortChanges \/ Returned \/ UNCHANGED vars
    BY <1>2 DEF Signal, PortChanges, Returned, vars
  <1>3. CASE Look \/ Check \/ Deadline
    BY <1>3 DEF Look, Check, Deadline, Return, Goto
  <1>4. CASE Try
    BY <1>4 DEF Try, CountLate, Return, Goto
  <1>5. CASE Pause
    BY <1>5 DEF Pause, CountLate, Goto
  <1>6. CASE Wake \/ SleepCanceled
    BY <1>6 DEF Wake, SleepCanceled, Return, Goto
  <1> QED
    BY <1>1, <1>2, <1>3, <1>4, <1>5, <1>6 DEF Next, Retry

LEMMA TryKeepsPace ==
  ASSUME RetryInv, Try
  PROVE  Pace' /\ TriesBounded'
  <1>1. /\ tries' = tries + 1 /\ lastTry' = clock
        /\ retryPc' \in {"check", "returned"}
        /\ tries \in Nat /\ clock \in Nat /\ lastTry \in Nat
    BY DEF Try, Return, Goto, RetryInv, TypeOK
  <1>2. (tries' - 1) * Interval <= lastTry'
    <2>1. CASE tries = 0
      BY <1>1, <2>1, OpenRetryAssumption
    <2>2. CASE tries > 0
      <3>1. (tries - 1) * Interval <= lastTry /\ clock >= lastTry + Interval
        BY <2>2 DEF RetryInv, Pace, Try
      <3>2. (tries' - 1) * Interval = (tries - 1) * Interval + Interval
        BY <1>1, OpenRetryAssumption
      <3>3. (tries - 1) * Interval \in Int
        BY <1>1, OpenRetryAssumption
      <3> HIDE DEF RetryInv
      <3> QED
        BY <1>1, <3>1, <3>2, <3>3, OpenRetryAssumption
    <2> QED
      BY <1>1, <2>1, <2>2
  <1>3. (tries' - 2) * Interval < BootTimeout
    <2>1. CASE tries = 0
      BY <1>1, <2>1, OpenRetryAssumption
    <2>2. CASE tries > 0
      <3>1. (tries - 1) * Interval <= lastTry /\ lastTry < BootTimeout
        BY <2>2 DEF RetryInv, Pace, Try
      <3>2. tries' - 2 = tries - 1
        BY <1>1
      <3>3. (tries - 1) * Interval \in Int
        BY <1>1, OpenRetryAssumption
      <3> QED
        BY <1>1, <3>1, <3>2, <3>3, OpenRetryAssumption
    <2> QED
      BY <1>1, <2>1, <2>2
  <1> QED
    BY <1>1, <1>2, <1>3 DEF Pace, TriesBounded

\* The loop begins nothing after the signal but what the last look allowed.
LEMMA LateKept ==
  ASSUME TypeOK, LateIsLast, [Next]_vars
  PROVE  LateIsLast'
  <1> USE DEF LateIsLast, SignalAllowsOneMore, TypeOK, worldVars, retryVars
  <1>1. CASE Tick \/ Signal \/ PortChanges \/ Returned \/ UNCHANGED vars
    BY <1>1 DEF Tick, Signal, PortChanges, Returned, vars
  <1>2. CASE Look \/ Check
    BY <1>2 DEF Look, Check, Return, Goto
  <1>3. CASE Deadline
    BY <1>3 DEF Deadline, Return, Goto
  <1>4. CASE Try
    BY <1>4 DEF Try, CountLate, Return, Goto
  <1>5. CASE Pause
    BY <1>5 DEF Pause, CountLate, Goto
  <1>6. CASE Wake \/ SleepCanceled
    BY <1>6 DEF Wake, SleepCanceled, Return, Goto
  <1> QED
    BY <1>1, <1>2, <1>3, <1>4, <1>5, <1>6 DEF Next, Retry

LEMMA RetryInvKept == RetryInv /\ [Next]_vars => RetryInv'
  <1> SUFFICES ASSUME RetryInv, [Next]_vars PROVE RetryInv'
    OBVIOUS
  <1>1. TypeOK' /\ LateIsLast'
    BY TypeKept, LateKept DEF RetryInv
  <1>2. CASE Try
    <2>1. Pace' /\ TriesBounded'
      BY <1>2, TryKeepsPace
    <2>2. tries' > 0
      BY <1>2 DEF Try, RetryInv, TypeOK
    <2>3. opened' = "error" => opened = "error"
      BY <1>2 DEF Try, Return, Goto
    <2>4. GivesUpOnlyLate'
      BY <1>2, <2>2, <2>3 DEF Try, worldVars, RetryInv, GivesUpOnlyLate
    <2> QED
      BY <1>1, <2>1, <2>4 DEF RetryInv
  <1>3. CASE ~Try
    <2>1. UNCHANGED <<tries, lastTry>>
      BY <1>3 DEF Next, Retry, Tick, Signal, PortChanges, Look, Check, Deadline, Pause, Wake,
                  SleepCanceled, Returned, worldVars, retryVars, vars
    <2>2. TriesBounded'
      BY <2>1 DEF RetryInv, TriesBounded
    <2>3. (tries > 0 => (tries - 1) * Interval <= lastTry)'
      BY <2>1 DEF RetryInv, Pace
    <2> USE OpenRetryAssumption DEF RetryInv, TypeOK, worldVars, retryVars
    <2>4. CASE Look \/ Check
      BY <1>1, <2>1, <2>2, <2>3, <2>4 DEF Look, Check, Return, Goto, Pace, GivesUpOnlyLate
    <2>5. CASE Deadline
      BY <1>1, <2>1, <2>2, <2>3, <2>5 DEF Deadline, Return, Goto, Pace, GivesUpOnlyLate
    <2>6. CASE Pause
      BY <1>1, <2>1, <2>2, <2>3, <2>6 DEF Pause, Goto, Pace, GivesUpOnlyLate
    <2>7. CASE Wake \/ SleepCanceled
      BY <1>1, <2>1, <2>2, <2>3, <2>7 DEF Wake, SleepCanceled, Return, Goto, Pace, GivesUpOnlyLate
    <2>8. CASE Tick
      BY <1>1, <2>1, <2>2, <2>3, <2>8 DEF Tick, Pace, GivesUpOnlyLate
    <2>9. CASE Signal \/ PortChanges \/ Returned \/ UNCHANGED vars
      BY <1>1, <2>1, <2>2, <2>3, <2>9
         DEF Signal, PortChanges, Returned, vars, Pace, GivesUpOnlyLate
    <2> QED
      BY <1>3, <2>4, <2>5, <2>6, <2>7, <2>8, <2>9 DEF Next, Retry
  <1> QED
    BY <1>2, <1>3

LEMMA RetryInvariant == Spec => []RetryInv
  BY InitRetryInv, RetryInvKept, PTL DEF Spec

(* The state of the retry loop stays in its domains.                       *)
THEOREM RetryTypeCorrect == Spec => []TypeOK
  <1>1. RetryInv => TypeOK
    BY DEF RetryInv
  <1> QED
    BY <1>1, RetryInvariant, PTL

(* The board has its whole boot timeout, for every timeout and pause.      *)
THEOREM GivesUpLate == Spec => []GivesUpOnlyLate
  <1>1. RetryInv => GivesUpOnlyLate
    BY DEF RetryInv
  <1> QED
    BY <1>1, RetryInvariant, PTL

(* The number of tries is bounded by timeout and pause, however late the   *)
(* timers are.                                                             *)
THEOREM TriesAreBounded == Spec => []TriesBounded
  <1>1. RetryInv => TriesBounded
    BY DEF RetryInv
  <1> QED
    BY <1>1, RetryInvariant, PTL

(* Two tries are always at least a pause apart.                            *)
THEOREM TriesArePaced == Spec => TriesPaced
  <1>1. RetryInv /\ [Next]_vars =>
          [tries' # tries /\ tries > 0 => clock >= lastTry + Interval]_vars
    BY DEF RetryInv, Pace, Next, Retry, Tick, Signal, PortChanges, Look, Try, Check, Deadline, Pause,
           Wake, SleepCanceled, Returned, worldVars, retryVars, vars
  <1> QED
    BY <1>1, RetryInvariant, PTL DEF Spec, TriesPaced

(* However a signal falls between a look at the context and what follows,  *)
(* the loop begins at most one try or pause after it (SignalAllowsOneMore),*)
(* for every timeout, pause and number of tries.                           *)
THEOREM SignalEndsRetry == Spec => []SignalAllowsOneMore
  <1>1. RetryInv => SignalAllowsOneMore
    BY DEF RetryInv, LateIsLast
  <1> QED
    BY <1>1, RetryInvariant, PTL

-----------------------------------------------------------------------------
(* The reset *)

LinesInv ==
  /\ at \in 2..5 => ~lines["DTR"]
  /\ at \in {5, 6} => ~lines["RTS"]
  /\ at = 6 => lines["DTR"]

TimeInv ==
  /\ timer > 0 => at \in {3, 6}
  /\ at = 3 /\ timer > 0 => timer >= heldAt + Hold
  /\ at = 4 => now >= heldAt + Hold
  /\ at \in {5, 6} => freedAt >= heldAt + Hold
  /\ at = 6 /\ timer > 0 => timer >= freedAt + Hold
  /\ answer = "nil" => at = 6 /\ now >= freedAt + Hold

ResetInv == ResetTypeOK /\ LinesInv /\ TimeInv

\* Reset has six statements, before a step and after it.
LEMMA CallsAre == Len(Calls) = 6 /\ Len(Calls)' = 6
  BY DEF Calls, Set, Sleep

\* Which call sets which line, and which of them set RTS.
LEMMA SetsAre ==
  /\ Calls[1].line = "DTR" /\ Calls[1].value = FALSE
  /\ Calls[2].line = "RTS" /\ Calls[2].value = TRUE
  /\ Calls[4].line = "RTS" /\ Calls[4].value = FALSE
  /\ Calls[5].line = "DTR" /\ Calls[5].value = TRUE
  /\ Calls[3] = Sleep /\ Calls[6] = Sleep
  /\ \A i \in {1, 2, 4, 5} :
       /\ Calls[i] # Sleep
       /\ Calls[i] = Set("RTS", TRUE) <=> i = 2
       /\ Calls[i] = Set("RTS", FALSE) <=> i = 4
  BY DEF Calls, Set, Sleep

LEMMA InitReset == ReadyInit => ResetInv
  BY CallsAre, BoardResetAssumption DEF ReadyInit, ResetInv, ResetTypeOK, LinesInv, TimeInv

\* The invariant and the order of the lines are kept by every step.
LEMMA NextReset ==
  ResetInv /\ [ReadyNext]_readyVars => ResetInv' /\ (lines["RTS"] /\ ~lines'["RTS"] => ~lines["DTR"])
<1> SUFFICES ASSUME ResetInv, [ReadyNext]_readyVars
             PROVE  ResetInv' /\ (lines["RTS"] /\ ~lines'["RTS"] => ~lines["DTR"])
  OBVIOUS
<1> USE BoardResetAssumption DEF ResetInv, ResetTypeOK, LinesInv, TimeInv
<1>1. CASE ResetTick
  BY <1>1, CallsAre DEF ResetTick
<1>2. CASE UNCHANGED resetVars
  BY <1>2, CallsAre DEF resetVars
<1>3. CASE SetLine
  <2>1. at \in {1, 2, 4, 5}
    BY <1>3, CallsAre, SetsAre DEF SetLine
  <2>2. CASE answer' = "error"
    BY <1>3, <2>1, <2>2, CallsAre DEF SetLine, Running
  <2>3. CASE answer' # "error"
    <3>1. /\ at' = at + 1 /\ answer' = answer /\ answer = "none"
          /\ now' = now /\ timer' = timer
      BY <1>3, <2>3 DEF SetLine, Running
    <3>2. /\ lines' = [lines EXCEPT ![Calls[at].line] = Calls[at].value]
          /\ heldAt'  = IF Calls[at] = Set("RTS", TRUE) THEN now ELSE heldAt
          /\ freedAt' = IF Calls[at] = Set("RTS", FALSE) THEN now ELSE freedAt
      BY <1>3, <2>3 DEF SetLine, Running
    <3>3. /\ now \in Nat /\ timer \in Nat /\ heldAt \in Nat /\ freedAt \in Nat /\ Hold \in Nat
          /\ heldAt <= now /\ freedAt <= now /\ timer = 0
          /\ at = 4 => now >= heldAt + Hold
          /\ at = 5 => freedAt >= heldAt + Hold
      BY <2>1
    <3>4. CASE at = 1
      <4>1. /\ lines' = [lines EXCEPT !["DTR"] = FALSE]
            /\ heldAt' = heldAt /\ freedAt' = freedAt
        BY <3>2, <3>4, SetsAre
      <4>2. /\ lines' \in [{"DTR", "RTS"} -> BOOLEAN]
            /\ lines'["DTR"] = FALSE /\ lines'["RTS"] = lines["RTS"]
        BY <4>1
      <4>3. ResetTypeOK'
        BY <3>1, <3>4, <3>3, <4>1, <4>2, CallsAre
      <4>4. LinesInv' /\ (lines["RTS"] /\ ~lines'["RTS"] => ~lines["DTR"])
        BY <3>1, <3>4, <4>2
      <4>5. TimeInv'
        BY <3>1, <3>4, <3>3, <4>1 DEF TimeInv
      <4> QED BY <4>3, <4>4, <4>5
    <3>5. CASE at = 2
      <4>1. /\ lines' = [lines EXCEPT !["RTS"] = TRUE]
            /\ heldAt' = now /\ freedAt' = freedAt
        BY <3>2, <3>5, SetsAre
      <4>2. /\ lines' \in [{"DTR", "RTS"} -> BOOLEAN]
            /\ lines'["RTS"] = TRUE /\ lines'["DTR"] = lines["DTR"]
        BY <4>1
      <4>3. ResetTypeOK'
        BY <3>1, <3>5, <3>3, <4>1, <4>2, CallsAre
      <4>4. LinesInv' /\ (lines["RTS"] /\ ~lines'["RTS"] => ~lines["DTR"])
        BY <3>1, <3>5, <4>2
      <4>5. TimeInv'
        BY <3>1, <3>5, <3>3, <4>1 DEF TimeInv
      <4> QED BY <4>3, <4>4, <4>5
    <3>6. CASE at = 4
      <4>1. /\ lines' = [lines EXCEPT !["RTS"] = FALSE]
            /\ heldAt' = heldAt /\ freedAt' = now
        BY <3>2, <3>6, SetsAre
      <4>2. /\ lines' \in [{"DTR", "RTS"} -> BOOLEAN]
            /\ lines'["RTS"] = FALSE /\ lines'["DTR"] = lines["DTR"]
        BY <4>1
      <4>3. ResetTypeOK'
        BY <3>1, <3>6, <3>3, <4>1, <4>2, CallsAre
      <4>4. LinesInv' /\ (lines["RTS"] /\ ~lines'["RTS"] => ~lines["DTR"])
        BY <3>1, <3>6, <4>2
      <4>5. TimeInv'
        BY <3>1, <3>6, <3>3, <4>1 DEF TimeInv
      <4> QED BY <4>3, <4>4, <4>5
    <3>7. CASE at = 5
      <4>1. /\ lines' = [lines EXCEPT !["DTR"] = TRUE]
            /\ heldAt' = heldAt /\ freedAt' = freedAt
        BY <3>2, <3>7, SetsAre
      <4>2. /\ lines' \in [{"DTR", "RTS"} -> BOOLEAN]
            /\ lines'["DTR"] = TRUE /\ lines'["RTS"] = lines["RTS"]
        BY <4>1
      <4>3. ResetTypeOK'
        BY <3>1, <3>7, <3>3, <4>1, <4>2, CallsAre
      <4>4. LinesInv' /\ (lines["RTS"] /\ ~lines'["RTS"] => ~lines["DTR"])
        BY <3>1, <3>7, <4>2
      <4>5. TimeInv'
        BY <3>1, <3>7, <3>3, <4>1 DEF TimeInv
      <4> QED BY <4>3, <4>4, <4>5
    <3> QED BY <2>1, <3>4, <3>5, <3>6, <3>7
  <2> QED BY <2>2, <2>3
<1>4. CASE BeginHold
  BY <1>4, CallsAre, SetsAre DEF BeginHold, Running
<1>5. CASE EndHold
  BY <1>5, CallsAre, SetsAre DEF EndHold, Awake, Running
<1>6. CASE HoldCanceled
  BY <1>6, CallsAre DEF HoldCanceled, Running
<1> QED BY <1>1, <1>2, <1>3, <1>4, <1>5, <1>6 DEF ReadyNext, Reset, Done, readyVars

\* The invariant holds in every reachable state.
LEMMA ResetInvariant == ReadySpec => []ResetInv
  BY InitReset, NextReset, PTL DEF ReadySpec

\* Every reachable state is well typed, and a timer never runs longer than a pause.
THEOREM ResetTypeCorrect == ReadySpec => []ResetTypeOK
<1>1. ResetInv => ResetTypeOK
  BY DEF ResetInv
<1> QED BY <1>1, ResetInvariant, PTL

(* A Reset that returns nil has held the board for the whole pause, let it *)
(* go and given it a pause to come up (DoneMeansReset), however long a     *)
(* pause is and whenever calls fail and signals arrive.                    *)
THEOREM ResetIsTrue == ReadySpec => []DoneMeansReset
<1>1. ResetInv => DoneMeansReset
  BY BoardResetAssumption, CallsAre DEF ResetInv, ResetTypeOK, LinesInv, TimeInv, DoneMeansReset
<1> QED BY <1>1, ResetInvariant, PTL

(* The board is let go only while DTR is off (StartsFirmware).             *)
THEOREM BoardStartsFirmware == ReadySpec => StartsFirmware
<1>1. ResetInv /\ [ReadyNext]_readyVars => [lines["RTS"] /\ ~lines'["RTS"] => ~lines["DTR"]]_readyVars
  BY NextReset
<1> QED BY <1>1, ResetInvariant, PTL DEF ReadySpec, StartsFirmware

(* The port is opened as OpenRetry says, so what is shown above of the     *)
(* tries, the deadline and the signal holds before a reset, too.       *)
THEOREM ReadyImplementsRetry == ReadySpec => Spec
<1>1. ReadyInit => Init
  BY DEF ReadyInit
<1>2. [ReadyNext]_readyVars => [Next]_vars
  <2> SUFFICES ASSUME [ReadyNext]_readyVars
               PROVE  [Next]_vars
    OBVIOUS
  <2>1. ResetTick \/ Reset \/ Done \/ UNCHANGED readyVars => UNCHANGED vars
    BY DEF ResetTick, Reset, SetLine, BeginHold, EndHold, Awake, HoldCanceled, Done, readyVars
  <2> QED BY <2>1 DEF ReadyNext, Next
<1> QED BY <1>1, <1>2, PTL DEF ReadySpec, Spec
=============================================================================
