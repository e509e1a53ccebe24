-------------------------- MODULE PlatformIOProofs --------------------------
(***************************************************************************)
(* Proofs about PlatformIO, for any number of places, processes, commands  *)
(* and any timeout.                                                        *)
(*                                                                         *)
(* CommandInv is the inductive invariant: what is known of pio and of the  *)
(* pipes at each point of OSRunner.Run, that the context which ended has   *)
(* the reason it names, and that an answer was true of the process when it *)
(* was given; after that nothing changes any more, because a process that  *)
(* nobody is left to start cannot come back.                               *)
(***************************************************************************)
EXTENDS PlatformIO, TLAPS

\* the binary that Verify found
BinaryInv ==
  /\ runPc = "verify" => used = {} /\ leader = "none" /\ heirs = 0 /\ answer = NoAnswer
  /\ runPc # "verify" => binary # 0
  /\ used \subseteq {binary}

\* the context of the command
ContextInv ==
  /\ now \in Nat
  /\ runCtx \in {"open", "deadline", "canceled"}
  /\ runCtx = "deadline" => now >= Timeout
  /\ runCtx = "canceled" => canceled

\* the process and its pipes
ProcessInv ==
  /\ runPc # "wait" => leader # "running"
  /\ leader = "killed" => runCtx # "open"
  /\ runPc \in {"idle", "classify"} => heirs = 0 \/ broken = Pipes

\* what Run returned last
AnswerInv ==
  runPc = "idle" =>
    /\ Status(answer) = "passed" => leader = "succeeded" /\ broken = {}
    /\ leader = "killed" => answer.err \in {"deadline", "canceled"}
    /\ answer.err = "deadline" => now >= Timeout
    /\ answer.err = "canceled" => canceled

CommandInv == BinaryInv /\ ContextInv /\ ProcessInv /\ AnswerInv

LEMMA InitCommandInv == Init => CommandInv
  BY PlatformIOAssumption DEF Init, CommandInv, BinaryInv, ContextInv, ProcessInv, AnswerInv, NoAnswer

\* RunReturns says the truth
LEMMA ClassifyIsTrue ==
  ASSUME ContextInv, ProcessInv, runPc = "classify"
  PROVE  /\ Status(Classify) = "passed" => leader = "succeeded" /\ broken = {}
         /\ leader = "killed" => Classify.err \in {"deadline", "canceled"}
         /\ Classify.err = "deadline" => now >= Timeout
         /\ Classify.err = "canceled" => canceled
  <1>1. CASE runCtx # "open"
    BY <1>1 DEF Classify, Status, ContextInv
  <1>2. CASE runCtx = "open" /\ leader = "succeeded" /\ broken = {}
    BY <1>2 DEF Classify
  <1>3. CASE runCtx = "open" /\ leader \in {"failed", "killed"}
    BY <1>3 DEF Classify, Status, ProcessInv
  <1>4. CASE /\ runCtx = "open" /\ ~(leader = "succeeded" /\ broken = {})
             /\ leader \notin {"failed", "killed"}
    BY <1>4 DEF Classify, Status
  <1> QED
    BY <1>1, <1>2, <1>3, <1>4

LEMMA NextCommandInv == CommandInv /\ [Next]_vars => CommandInv'
  <1> SUFFICES ASSUME CommandInv, [Next]_vars PROVE CommandInv'
    OBVIOUS
  <1> USE DEF CommandInv
  <1>1. CASE InstallationChanges
    BY <1>1 DEF InstallationChanges, ctxVars, processVars, BinaryInv, ContextInv, ProcessInv, AnswerInv
  <1>2. CASE Tick
    BY <1>2, PlatformIOAssumption
    DEF Tick, Busy, serviceVars, processVars, BinaryInv, ContextInv, ProcessInv, AnswerInv
  <1>3. CASE Signal
    BY <1>3 DEF Signal, serviceVars, processVars, BinaryInv, ContextInv, ProcessInv, AnswerInv
  <1>4. CASE Expire
    BY <1>4 DEF Expire, Busy, serviceVars, processVars, BinaryInv, ContextInv, ProcessInv, AnswerInv
  <1>5. CASE Fork
    BY <1>5 DEF Fork, serviceVars, ctxVars, BinaryInv, ContextInv, ProcessInv, AnswerInv
  <1>6. CASE HeirExits
    BY <1>6 DEF HeirExits, serviceVars, ctxVars, BinaryInv, ContextInv, ProcessInv, AnswerInv
  <1>7. CASE LeaderExits
    BY <1>7 DEF LeaderExits, serviceVars, ctxVars, BinaryInv, ContextInv, ProcessInv, AnswerInv
  <1>8. CASE CopyFails
    BY <1>8 DEF CopyFails, Busy, serviceVars, ctxVars, BinaryInv, ContextInv, ProcessInv, AnswerInv
  <1>9. CASE Verify
    BY <1>9
    DEF Verify, ctxVars, processVars, BinaryInv, ContextInv, ProcessInv, AnswerInv, NoAnswer, Status
  <1>10. CASE Start
    BY <1>10 DEF Start, commandName, BinaryInv, ContextInv, ProcessInv, AnswerInv
  <1>11. CASE Kill
    BY <1>11 DEF Kill, serviceVars, ctxVars, BinaryInv, ContextInv, ProcessInv, AnswerInv
  <1>12. CASE Reap
    BY <1>12 DEF Reap, serviceVars, ctxVars, processVars, BinaryInv, ContextInv, ProcessInv, AnswerInv
  <1>13. CASE AwaitCopying
    BY <1>13
    DEF AwaitCopying, serviceVars, ctxVars, processVars, BinaryInv, ContextInv, ProcessInv, AnswerInv
  <1>14. CASE RunReturns
    <2>1. answer' = Classify /\ runPc = "classify" /\ runPc' = "idle"
      BY <1>14 DEF RunReturns
    <2>2. UNCHANGED <<binary, used, ctxVars, processVars>>
      BY <1>14 DEF RunReturns
    <2>3. BinaryInv' /\ ContextInv' /\ ProcessInv'
      BY <2>1, <2>2 DEF ctxVars, processVars, BinaryInv, ContextInv, ProcessInv
    <2>4. AnswerInv'
      BY <2>1, <2>2, ClassifyIsTrue DEF ctxVars, processVars, AnswerInv, Status
    <2> QED
      BY <2>3, <2>4
  <1>15. CASE UNCHANGED vars
    BY <1>15
    DEF vars, serviceVars, ctxVars, processVars, BinaryInv, ContextInv, ProcessInv, AnswerInv
  <1> QED
    BY <1>1, <1>2, <1>3, <1>4, <1>5, <1>6, <1>7, <1>8, <1>9, <1>10, <1>11, <1>12, <1>13, <1>14,
       <1>15 DEF Next, Processes, Run, Idle

LEMMA Invariance == Spec => []CommandInv
  <1> QED
    BY InitCommandInv, NextCommandInv, PTL DEF Spec

-----------------------------------------------------------------------------
(* Theorems *)

(* A command that counts as passed exited with success and all of its      *)
(* output is in the logs, whatever timeout, signal, failed start or failed *)
(* copy there was.                                                         *)
THEOREM PassedIsTrue == Spec => []PassedMeansSucceeded
  <1>1. CommandInv => PassedMeansSucceeded
    BY DEF CommandInv, AnswerInv, PassedMeansSucceeded, Returned
  <1> QED
    BY <1>1, Invariance, PTL

(* A process that was killed is never reported as a failed build, and the  *)
(* reason that is reported is the true one.                                *)
THEOREM CauseIsTrueAlways == Spec => []CauseIsTrue
  <1>1. CommandInv => CauseIsTrue
    BY DEF CommandInv, AnswerInv, CauseIsTrue, Returned
  <1> QED
    BY <1>1, Invariance, PTL

(* When a step is over nothing it started holds its output any more,       *)
(* however many processes pio left, unless both logs are broken.           *)
THEOREM NobodyIsLeft == Spec => []NobodyLeftBehind
  <1>1. CommandInv => NobodyLeftBehind
    BY DEF CommandInv, ProcessInv, NobodyLeftBehind, Returned
  <1> QED
    BY <1>1, Invariance, PTL

(* All commands of a run use the pio that Verify found.                    *)
THEOREM OneBinary == Spec => []OneBinaryPerRun
  <1>1. CommandInv => OneBinaryPerRun
    BY DEF CommandInv, BinaryInv, OneBinaryPerRun
  <1> QED
    BY <1>1, Invariance, PTL
=============================================================================
