---------------------------- MODULE RunnerProofs -----------------------------
(***************************************************************************)
(* Proofs about Runner, for every list of steps and every set of ports.    *)
(*                                                                         *)
(* RunInv is the inductive invariant.  As long as no step has ended the    *)
(* run, stepResults is exactly the list of the steps done, all passed      *)
(* (Progress); what is used is the selected port, and no other board has   *)
(* been plugged in all the time when `auto` chose it (PortInv); once the   *)
(* run is at its end, the code that Run, and then the process, ends with   *)
(* has the explanation that ExitNamesTheCause and ExitZeroMeansAllPassed   *)
(* ask for (EndInv).                                                       *)
(***************************************************************************)
EXTENDS Runner, TLAPS

Alive == pc \notin {"finish", "return", "exited"}

Passed(i) == [name |-> steps[i], status |-> "passed"]

Progress ==
  Alive => /\ stepResults = [i \in 1..(next - 1) |-> Passed(i)]
           /\ failures = FALSE
           /\ exit = -1

PortInv ==
  /\ pc = "port" => next <= Len(steps) /\ CurrentStep # "build" /\ selectedPort = AutoPort
  /\ pc \in {"command", "running"} =>
       next <= Len(steps) /\ CurrentStep # "monitor" /\ (CurrentStep # "build" => selectedPort # AutoPort)
  /\ pc \in {"open", "reset", "log", "capture"} =>
       next <= Len(steps) /\ CurrentStep = "monitor" /\ selectedPort # AutoPort
  /\ \A i \in DOMAIN uses : uses[i].port = selectedPort
  /\ device = AutoPort /\ selectedPort # AutoPort =>
       \A p \in steady : plausible(p) => p = selectedPort
  /\ steady \subseteq plugged
  /\ selectedPort = AutoPort => uses = <<>>

Last == stepResults[Len(stepResults)]

\* the run's end with this code is explained by what has happened
Explained(code) ==
  /\ code = OK => stepResults = [i \in 1..Len(steps) |-> Passed(i)] /\ failures = FALSE
  /\ code = AssertionFailed => failures
  /\ code = ExecutionFailure => Last.name \in {"build", "upload"} /\ Last.status = "failed"
  /\ code = SerialFailure => Last.name \in {"serial port", "monitor"} /\ Last.status = "failed"
  /\ code = Interrupted => canceled

PassedJson == json = [status |-> "passed", code |-> OK]

EndInv ==
  /\ pc \in {"finish", "return"} =>
       /\ Explained(result.code)
       /\ result.status \in Status
       /\ result.err = "canceled" => canceled
       /\ result.code = OK => result.status = "passed" /\ result.err = "nil"
       /\ exit = -1
  /\ pc = "return" /\ result.code = OK => PassedJson
  /\ pc = "exited" => Explained(exit) /\ (exit = OK => PassedJson)

RunInv == TypeOK /\ Progress /\ PortInv /\ EndInv

USE DEF OK, AssertionFailed, InvalidConfig, EnvironmentFailure, ExecutionFailure, SerialFailure,
        Interrupted

StepRecord == [name: StepType \cup {"platformio", "serial port"}, status: Status]
Result == [status: Status \cup {"none"}, code: Codes, err: {"nil", "canceled", "error"}]

LEMMA AppendFacts ==
  ASSUME NEW S, NEW s \in Seq(S), NEW e \in S
  PROVE  /\ Append(s, e) \in Seq(S)
         /\ Len(Append(s, e)) = Len(s) + 1
         /\ Append(s, e)[Len(s) + 1] = e
         /\ \A i \in DOMAIN Append(s, e) : Append(s, e)[i] = IF i = Len(s) + 1 THEN e ELSE s[i]
         /\ DOMAIN Append(s, e) = 1..(Len(s) + 1)
         /\ DOMAIN s = 1..Len(s)
  OBVIOUS

LEMMA EmptyHasNoIndex == \A s : s = <<>> => \A i \in DOMAIN s : FALSE
  OBVIOUS

LEMMA AppendLast ==
  ASSUME NEW S, NEW s \in Seq(S), NEW e \in S, NEW t, t = Append(s, e)
  PROVE  t \in Seq(S) /\ t[Len(t)] = e
  <1>1. Append(s, e) \in Seq(S) /\ Len(Append(s, e)) = Len(s) + 1
    OBVIOUS
  <1>2. Append(s, e)[Len(s) + 1] = e
    OBVIOUS
  <1> QED
    BY <1>1, <1>2

LEMMA AppendedIsLast ==
  ASSUME stepResults \in Seq(StepRecord), NEW r \in StepRecord,
         stepResults' = Append(stepResults, r)
  PROVE  stepResults' \in Seq(StepRecord) /\ Last' = r
  BY AppendLast DEF Last

LEMMA RecordIsLast ==
  ASSUME stepResults \in Seq(StepRecord),
         NEW name \in StepType \cup {"platformio", "serial port"}, NEW status \in Status,
         Record(name, status)
  PROVE  /\ stepResults' \in Seq(StepRecord)
         /\ Last' = [name |-> name, status |-> status]
  <1>1. [name |-> name, status |-> status] \in StepRecord
    BY DEF StepRecord
  <1>2. stepResults' = Append(stepResults, [name |-> name, status |-> status])
    BY DEF Record
  <1> QED
    BY <1>1, <1>2, AppendedIsLast

LEMMA StepsAreSteps ==
  ASSUME TypeOK
  PROVE  /\ steps \in Seq(StepType) /\ steps # <<>> /\ Len(steps) \in Nat /\ Len(steps) > 0
         /\ next \in 1..(Len(steps) + 1)
         /\ next <= Len(steps) => CurrentStep \in StepType
  <1>1. steps \in Seq(StepType) /\ steps # <<>>
    BY RunnerAssumption DEF TypeOK
  <1>2. Len(steps) \in Nat /\ Len(steps) > 0
    BY <1>1
  <1>3. next \in 1..(Len(steps) + 1)
    BY DEF TypeOK
  <1>4. ASSUME next <= Len(steps) PROVE CurrentStep \in StepType
    <2>1. next \in 1..Len(steps)
      BY <1>2, <1>3, <1>4
    <2> QED
      BY <1>1, <2>1 DEF CurrentStep
  <1> QED
    BY <1>1, <1>2, <1>3, <1>4

LEMMA InitRunInv == Init => RunInv
  <1> SUFFICES ASSUME Init PROVE RunInv
    OBVIOUS
  <1>1. steps \in Seq(StepType) /\ steps # <<>>
    BY RunnerAssumption DEF Init
  <1>2. Len(steps) \in Nat /\ next \in 1..(Len(steps) + 1)
    BY <1>1 DEF Init
  <1>3. TypeOK
    <2>1. \A S : <<>> \in Seq(S)
      OBVIOUS
    <2>2. uses \in Seq([step: {"upload", "monitor"}, port: Ports]) /\ stepResults \in Seq(StepRecord)
      BY <2>1 DEF Init
    <2>3. result \in Result /\ json \in [status: Status \cup {"absent"}, code: Codes]
      BY DEF Init, Result, Codes
    <2>4. /\ pc \in Pc /\ exit \in Codes \cup {-1} /\ serialLog \subseteq Nat
          /\ artifacts \subseteq [step: {"config", "build", "upload"}, file: {"yaml", "stdout", "stderr"}]
      BY DEF Init, Pc
    <2> QED
      BY <1>2, <2>2, <2>3, <2>4 DEF Init, TypeOK, StepRecord, Result
  <1>4. Progress
    BY DEF Init, Progress, Alive
  <1>5. uses = <<>> /\ DOMAIN uses = {}
    BY DEF Init
  <1>6. PortInv
    <2>1. pc = "create" /\ selectedPort = AutoPort
      BY DEF Init
    <2> QED
      BY <1>5, <2>1 DEF PortInv, Init
  <1>7. EndInv
    BY DEF Init, EndInv
  <1> QED
    BY <1>3, <1>4, <1>6, <1>7 DEF RunInv

-----------------------------------------------------------------------------
(* The two ways in which a step of the loop ends *)

\* a step with this name and status is a reason to end with this code and error
Justifies(name, status, code, err) ==
  /\ err = "canceled" => canceled
  /\ code = AssertionFailed => failures'
  /\ code = ExecutionFailure => name \in {"build", "upload"} /\ status = "failed"
  /\ code = SerialFailure => name \in {"serial port", "monitor"} /\ status = "failed"
  /\ code = Interrupted => canceled

\* the run ends with a record of the step that ended it
LEMMA EndOfRun ==
  ASSUME RunInv, Alive,
         NEW name \in StepType \cup {"platformio", "serial port"}, NEW status \in Status,
         NEW code \in Codes \ {OK}, NEW err \in {"nil", "canceled", "error"},
         NEW runStatus \in Status,
         Record(name, status), Finish(runStatus, code, err),
         UNCHANGED <<configVars, canceled>>,
         Justifies(name, status, code, err)
  PROVE  /\ stepResults' \in Seq(StepRecord) /\ result' \in Result /\ pc' = "finish"
         /\ json' = json /\ exit' = exit
         /\ Progress' /\ EndInv'
  <1> DEFINE r == [name |-> name, status |-> status]
  <1>1. stepResults \in Seq(StepRecord)
    BY DEF RunInv, TypeOK, StepRecord
  <1>3. stepResults' \in Seq(StepRecord) /\ Last' = r
    BY <1>1, RecordIsLast
  <1>4. /\ result' = [status |-> runStatus, code |-> code, err |-> err]
        /\ pc' = "finish" /\ exit' = exit /\ json' = json
    BY DEF Finish
  <1>6. Explained(code)'
    BY <1>3 DEF Explained, configVars, Justifies
  <1>7. exit' = -1 /\ canceled' = canceled
    BY <1>4 DEF RunInv, Progress
  <1>8. Progress' /\ EndInv'
    <2>1. result'.code = code /\ result'.err = err /\ code # OK /\ result'.status \in Status
      BY <1>4
    <2>2. Explained(result.code)'
      BY <1>6, <2>1
    <2>3. (result.err = "canceled" => canceled)'
      <3>1. CASE err = "canceled"
        <4>1. canceled
          BY <3>1 DEF Justifies
        <4> QED
          BY <1>7, <4>1
      <3>2. CASE err # "canceled"
        BY <2>1, <3>2
      <3> QED
        BY <3>1, <3>2
    <2>4. Progress'
      BY <1>4 DEF Progress, Alive
    <2>5. EndInv'
      BY <1>4, <1>7, <2>1, <2>2, <2>3 DEF EndInv
    <2> QED
      BY <2>4, <2>5
  <1> QED
    BY <1>3, <1>4, <1>8 DEF Result

\* the reasons that the failures of ports, processes and files are
LEMMA Reasons ==
  /\ SerialFailure \in Codes \ {OK} /\ ExecutionFailure \in Codes \ {OK}
  /\ EnvironmentFailure \in Codes \ {OK} /\ Interrupted \in Codes \ {OK}
  /\ AssertionFailed \in Codes \ {OK}
  /\ \A name \in {"serial port", "monitor"} : Justifies(name, "failed", SerialFailure, "error")
  /\ \A name \in {"build", "upload"} : Justifies(name, "failed", ExecutionFailure, "error")
  /\ \A name : Justifies(name, "failed", EnvironmentFailure, "error")
  /\ canceled => \A name, status : Justifies(name, status, Interrupted, "canceled")
  /\ canceled => Justifies("monitor", "failed", SerialFailure, "canceled")
  BY DEF Codes, Justifies

\* a failed step ends the run
LEMMA FailEnds ==
  ASSUME RunInv, Alive, NEW name \in StepType \cup {"platformio", "serial port"},
         NEW code \in Codes \ {OK}, NEW err \in {"nil", "canceled", "error"},
         Fail(name, code, err), UNCHANGED <<configVars, canceled>>,
         Justifies(name, "failed", code, err)
  PROVE  /\ stepResults' \in Seq(StepRecord) /\ result' \in Result /\ pc' = "finish"
         /\ json' = json /\ exit' = exit
         /\ Progress' /\ EndInv'
  <1>1. Record(name, "failed") /\ Finish(StatusForCode(code), code, err)
    BY DEF Fail
  <1>2. StatusForCode(code) \in Status /\ "failed" \in Status
    BY DEF StatusForCode, Status
  <1> QED
    BY <1>1, <1>2, EndOfRun

\* the run ends without a record
LEMMA EndBetweenSteps ==
  ASSUME RunInv, Alive,
         NEW code \in Codes, NEW err \in {"nil", "canceled", "error"}, NEW runStatus \in Status,
         Finish(runStatus, code, err), UNCHANGED <<configVars, stepResults, failures, canceled>>,
         Explained(code), err = "canceled" => canceled,
         code = OK => runStatus = "passed" /\ err = "nil"
  PROVE  /\ result' \in Result /\ pc' = "finish"
         /\ json' = json /\ exit' = exit
         /\ Progress' /\ EndInv'
  <1>1. /\ result' = [status |-> runStatus, code |-> code, err |-> err]
        /\ pc' = "finish" /\ exit' = exit /\ json' = json
    BY DEF Finish
  <1>2. exit' = -1
    BY <1>1 DEF RunInv, Progress
  <1>3. /\ result'.code = code /\ result'.err = err /\ result'.status = runStatus
        /\ result' \in Result
    BY <1>1 DEF Result
  <1>4. Explained(code)'
    BY DEF Explained, configVars, Last, Passed
  <1>5. Explained(result.code)'
    BY <1>3, <1>4
  <1>6. Progress'
    BY <1>1 DEF Progress, Alive
  <1>7. (result.err = "canceled" => canceled)'
    <2>1. CASE err = "canceled"
      BY <2>1
    <2>2. CASE err # "canceled"
      BY <1>3, <2>2
    <2> QED
      BY <2>1, <2>2
  <1>8. (result.code = OK => result.status = "passed" /\ result.err = "nil")'
    BY <1>3
  <1>9. EndInv'
    BY <1>1, <1>2, <1>5, <1>7, <1>8 DEF EndInv
  <1> QED
    BY <1>1, <1>3, <1>6, <1>9

\* a step that did not end the run leaves the list of the steps done, all passed
LEMMA StepDone ==
  ASSUME RunInv, Alive, next <= Len(steps), StepPassed(CurrentStep),
         UNCHANGED <<configVars, failures, exit, json>>
  PROVE  /\ stepResults' \in Seq(StepRecord) /\ next' \in 1..(Len(steps') + 1)
         /\ pc' = "loop" /\ Progress' /\ EndInv'
  <1>1. /\ CurrentStep \in StepType /\ next \in Nat /\ next >= 1 /\ Len(steps) \in Nat
    BY StepsAreSteps DEF RunInv
  <1>2. stepResults \in Seq(StepRecord)
    BY DEF RunInv, TypeOK, StepRecord
  <1>3. Passed(next) \in StepRecord
    BY <1>1 DEF Passed, CurrentStep, StepRecord, Status
  <1>4. stepResults' = Append(stepResults, Passed(next)) /\ next' = next + 1 /\ pc' = "loop"
    BY DEF StepPassed, Record, Passed, CurrentStep
  <1>5. stepResults' \in Seq(StepRecord)
    BY <1>2, <1>3, <1>4, AppendFacts
  <1>6. stepResults = [i \in 1..(next - 1) |-> Passed(i)] /\ failures = FALSE /\ exit = -1
    BY DEF RunInv, Progress
  <1>7. Len(stepResults) = next - 1
    BY <1>1, <1>6, <1>2
  <1>8. stepResults' = [i \in 1..next |-> Passed(i)]
    <2>1. DOMAIN stepResults' = 1..next
      BY <1>1, <1>2, <1>3, <1>4, <1>7, AppendFacts
    <2>2. ASSUME NEW i \in 1..next PROVE stepResults'[i] = Passed(i)
      <3>1. stepResults'[i] = IF i = next THEN Passed(next) ELSE stepResults[i]
        BY <1>1, <1>2, <1>3, <1>4, <1>7, <2>1, AppendFacts
      <3> QED
        BY <1>1, <1>6, <3>1
    <2>3. stepResults' = [i \in DOMAIN stepResults' |-> stepResults'[i]]
      BY <1>5
    <2> QED
      BY <2>1, <2>2, <2>3
  <1>9. Progress'
    <2>1. \A i : Passed(i)' = Passed(i)
      BY DEF Passed, configVars
    <2>2. next' - 1 = next
      BY <1>1, <1>4
    <2> QED
      BY <1>4, <1>6, <1>8, <2>1, <2>2 DEF Progress
  <1>10. EndInv'
    BY <1>4 DEF EndInv
  <1>11. next' \in 1..(Len(steps') + 1)
    BY <1>1, <1>4 DEF configVars
  <1> QED
    BY <1>4, <1>5, <1>9, <1>10, <1>11

\* the run goes on to another call of the same step, or to the next one of Run
LEMMA RunGoesOn ==
  ASSUME RunInv, Alive, UNCHANGED <<configVars, next, stepResults, failures, exit>>,
         pc' \notin {"finish", "return", "exited"}
  PROVE  Progress' /\ EndInv'
  BY DEF RunInv, Progress, EndInv, Alive, Passed, configVars

-----------------------------------------------------------------------------
(* Every action keeps the invariant *)

LEMMA SignalKeeps == ASSUME RunInv, Signal PROVE RunInv'
  <1> USE DEF Signal, configVars, runVars, reportVars
  <1>1. TypeOK'
    BY DEF RunInv, TypeOK
  <1>2. Progress'
    BY DEF RunInv, Progress, Alive, Passed
  <1>3. PortInv'
    BY DEF RunInv, PortInv, CurrentStep
  <1>4. EndInv'
    BY DEF RunInv, EndInv, Explained, Last, Passed, PassedJson
  <1> QED
    BY <1>1, <1>2, <1>3, <1>4 DEF RunInv

LEMMA PortsChangeKeeps == ASSUME RunInv, PortsChange PROVE RunInv'
  <1> USE DEF PortsChange, configVars, runVars, reportVars
  <1>1. TypeOK'
    BY DEF RunInv, TypeOK
  <1>2. Progress'
    BY DEF RunInv, Progress, Alive, Passed
  <1>3. PortInv'
    BY DEF RunInv, PortInv, CurrentStep
  <1>4. EndInv'
    BY DEF RunInv, EndInv, Explained, Last, Passed, PassedJson
  <1> QED
    BY <1>1, <1>2, <1>3, <1>4 DEF RunInv

LEMMA CreateRunDirKeeps == ASSUME RunInv, CreateRunDir PROVE RunInv'
  <1> USE DEF CreateRunDir, configVars, worldVars
  <1>1. pc = "create" /\ pc' \in {"config", "exited"} /\ Alive
    BY DEF Alive
  <1>2. TypeOK'
    <2>1. pc' \in Pc /\ exit' \in Codes \cup {-1}
      BY <1>1 DEF RunInv, TypeOK, Pc, Codes
    <2> QED
      BY <2>1 DEF RunInv, TypeOK
  <1>3. Progress'
    BY <1>1 DEF RunInv, Progress, Alive, Passed
  <1>4. PortInv'
    BY <1>1 DEF RunInv, PortInv
  <1>5. EndInv'
    <2>1. pc' = "exited" => exit' = EnvironmentFailure
      BY <1>1
    <2>2. exit' = EnvironmentFailure => Explained(exit)' /\ (exit = OK => PassedJson)'
      BY DEF Explained
    <2> QED
      BY <1>1, <2>1, <2>2 DEF EndInv
  <1> QED
    BY <1>2, <1>3, <1>4, <1>5 DEF RunInv

LEMMA EvaluatorPanicsKeeps == ASSUME RunInv, EvaluatorPanics PROVE RunInv'
  <1> USE DEF EvaluatorPanics, configVars, worldVars
  <1>1. pc = "capture" /\ pc' = "exited" /\ exit' = EnvironmentFailure
    OBVIOUS
  <1>2. TypeOK'
    <2>1. pc' \in Pc /\ exit' \in Codes \cup {-1}
      BY <1>1 DEF Pc, Codes
    <2>2. serialLog' \subseteq Nat
      <3>1. next \in Nat /\ serialLog \subseteq Nat
        <4>1. next \in Nat
          BY StepsAreSteps DEF RunInv
        <4> QED
          BY <4>1 DEF RunInv, TypeOK
      <3> QED
        BY <3>1
    <2> QED
      BY <2>1, <2>2 DEF RunInv, TypeOK
  <1>3. Progress'
    BY <1>1 DEF Progress, Alive
  <1>4. PortInv'
    BY <1>1 DEF RunInv, PortInv
  <1>5. EndInv'
    BY <1>1 DEF EndInv, Explained
  <1> QED
    BY <1>2, <1>3, <1>4, <1>5 DEF RunInv

LEMMA WriteConfigKeeps == ASSUME RunInv, WriteConfig PROVE RunInv'
  <1> USE DEF WriteConfig, configVars, worldVars
  <1>1. pc = "config" /\ Alive
    BY DEF Alive
  <1>2. artifacts' \subseteq [step: {"config", "build", "upload"}, file: {"yaml", "stdout", "stderr"}]
    <2>1. artifacts' \in {artifacts, {File("config", "yaml")}}
      BY Zenon
    <2>2. File("config", "yaml") \in [step: {"config", "build", "upload"}, file: {"yaml", "stdout", "stderr"}]
      BY DEF File
    <2>3. artifacts \subseteq [step: {"config", "build", "upload"}, file: {"yaml", "stdout", "stderr"}]
      BY DEF RunInv, TypeOK
    <2> QED
      BY <2>1, <2>2, <2>3
  <1>3. CASE Continue("verify")
    <2>1. pc' = "verify" /\ UNCHANGED <<stepResults, reportVars>>
      BY <1>3 DEF Continue
    <2>2. TypeOK'
      BY <1>2, <2>1 DEF RunInv, TypeOK, Pc, reportVars
    <2>3. Progress' /\ EndInv'
      BY <1>1, <2>1, RunGoesOn DEF reportVars
    <2>4. PortInv'
      BY <1>1, <2>1 DEF RunInv, PortInv
    <2> QED
      BY <2>2, <2>3, <2>4 DEF RunInv
  <1>4. ASSUME NEW code \in {InvalidConfig, EnvironmentFailure}, Finish("failed", code, "error"),
               UNCHANGED stepResults
        PROVE  RunInv'
    <2>1. code \in Codes /\ code # OK
      BY DEF Codes
    <2>a. Explained(code)
      <3>1. code \notin {OK, AssertionFailed, ExecutionFailure, SerialFailure, Interrupted}
        OBVIOUS
      <3> HIDE DEF OK, AssertionFailed, ExecutionFailure, SerialFailure, Interrupted
      <3> QED
        BY <3>1, Zenon DEF Explained
    <2>b. "failed" \in Status
      BY DEF Status
    <2>2. /\ result' \in Result /\ pc' = "finish" /\ json' = json /\ exit' = exit
          /\ Progress' /\ EndInv'
      BY <1>1, <1>4, <2>1, <2>a, <2>b, EndBetweenSteps
    <2>3. TypeOK'
      BY <1>2, <1>4, <2>2 DEF RunInv, TypeOK, Pc, Result
    <2>4. PortInv'
      BY <1>1, <2>2 DEF RunInv, PortInv
    <2> QED
      BY <2>2, <2>3, <2>4 DEF RunInv
  <1> QED
    BY <1>3, <1>4

LEMMA VerifyKeeps == ASSUME RunInv, Verify PROVE RunInv'
  <1> USE DEF Verify, configVars, worldVars
  <1>1. pc = "verify" /\ Alive
    BY DEF Alive
  <1>2. CASE Continue("loop")
    <2>1. pc' = "loop" /\ UNCHANGED <<stepResults, reportVars>>
      BY <1>2 DEF Continue
    <2>2. TypeOK'
      BY <2>1 DEF RunInv, TypeOK, Pc, reportVars
    <2>3. Progress' /\ EndInv'
      BY <1>1, <2>1, RunGoesOn DEF reportVars
    <2>4. PortInv'
      BY <1>1, <2>1 DEF RunInv, PortInv
    <2> QED
      BY <2>2, <2>3, <2>4 DEF RunInv
  <1>3. CASE Fail("platformio", EnvironmentFailure, "error")
    <2>1. /\ stepResults' \in Seq(StepRecord) /\ result' \in Result /\ pc' = "finish"
          /\ json' = json /\ exit' = exit /\ Progress' /\ EndInv'
      BY <1>1, <1>3, Reasons, FailEnds
    <2>2. TypeOK'
      BY <2>1 DEF RunInv, TypeOK, Pc, Result, StepRecord
    <2>3. PortInv'
      BY <1>1, <2>1 DEF RunInv, PortInv
    <2> QED
      BY <2>1, <2>2, <2>3 DEF RunInv
  <1> QED
    BY <1>2, <1>3

LEMMA BeginStepKeeps == ASSUME RunInv, BeginStep PROVE RunInv'
  <1> USE DEF BeginStep, configVars, worldVars
  <1>1. pc = "loop" /\ Alive /\ next <= Len(steps) /\ CurrentStep \in StepType
    BY StepsAreSteps DEF Alive, RunInv
  <1>2. CASE canceled
    <2>1. Finish("interrupted", Interrupted, "canceled") /\ UNCHANGED stepResults
      BY <1>2
    <2>2. Interrupted \in Codes /\ "interrupted" \in Status
      BY DEF Codes, Status
    <2>3. Explained(Interrupted)
      BY <1>2 DEF Explained
    <2>4. /\ result' \in Result /\ pc' = "finish" /\ json' = json /\ exit' = exit
          /\ Progress' /\ EndInv'
      BY <1>1, <1>2, <2>1, <2>2, <2>3, EndBetweenSteps
    <2>5. TypeOK'
      BY <2>1, <2>4 DEF RunInv, TypeOK, Pc, Result
    <2>6. PortInv'
      BY <1>1, <2>4 DEF RunInv, PortInv
    <2> QED
      BY <2>4, <2>5, <2>6 DEF RunInv
  <1>3. CASE ~canceled
    <2>1. /\ pc' = IF CurrentStep # "build" /\ selectedPort = AutoPort THEN "port" ELSE Entry
          /\ UNCHANGED <<stepResults, reportVars>>
      BY <1>3 DEF Continue
    <2>2. pc' \in {"port", "open", "command"}
      BY <2>1 DEF Entry
    <2>3. TypeOK'
      BY <2>1, <2>2 DEF RunInv, TypeOK, Pc, reportVars
    <2>4. Progress' /\ EndInv'
      BY <1>1, <2>1, <2>2, RunGoesOn DEF reportVars
    <2>5. PortInv'
      BY <1>1, <2>1 DEF RunInv, PortInv, CurrentStep, Entry, StepType
    <2> QED
      BY <2>3, <2>4, <2>5 DEF RunInv
  <1> QED
    BY <1>2, <1>3

LEMMA EndOfStepsKeeps == ASSUME RunInv, EndOfSteps PROVE RunInv'
  <1> USE DEF EndOfSteps, configVars, worldVars
  <1>1. pc = "loop" /\ Alive /\ next = Len(steps) + 1
    BY StepsAreSteps DEF Alive, RunInv
  <1>2. /\ stepResults = [i \in 1..(next - 1) |-> Passed(i)] /\ failures = FALSE
        /\ Len(steps) \in Nat
    BY <1>1, StepsAreSteps DEF RunInv, Progress
  <1>3. Finish("passed", OK, "nil") /\ OK \in Codes /\ "passed" \in Status
    BY <1>2 DEF Codes, Status
  <1>4. next - 1 = Len(steps)
    BY <1>1, <1>2
  <1>5. Explained(OK)
    BY <1>2, <1>4 DEF Explained
  <1>6. /\ result' \in Result /\ pc' = "finish" /\ json' = json /\ exit' = exit
        /\ Progress' /\ EndInv'
    BY <1>1, <1>3, <1>5, EndBetweenSteps
  <1>7. TypeOK'
    BY <1>6 DEF RunInv, TypeOK, Pc, Result
  <1>8. PortInv'
    BY <1>1, <1>6 DEF RunInv, PortInv
  <1> QED
    BY <1>6, <1>7, <1>8 DEF RunInv

LEMMA SelectPortKeeps == ASSUME RunInv, SelectPort PROVE RunInv'
  <1> USE DEF SelectPort, configVars, worldVars
  <1>1. pc = "port" /\ Alive /\ next <= Len(steps) /\ CurrentStep \in StepType
    BY StepsAreSteps DEF Alive, RunInv, PortInv
  <1>2. CurrentStep # "build" /\ selectedPort = AutoPort /\ uses = <<>>
    BY <1>1 DEF RunInv, PortInv
  <1>3. ASSUME selectedPort' \in Ports, Continue(Entry),
               device = AutoPort => \A p \in steady : plausible(p) => p = selectedPort'
        PROVE  RunInv'
    <2>1. /\ pc' = Entry /\ UNCHANGED <<stepResults, reportVars>> /\ Entry \in {"open", "command"}
      BY <1>3 DEF Continue, Entry
    <2>2. TypeOK'
      BY <1>3, <2>1 DEF RunInv, TypeOK, Pc, reportVars
    <2>3. Progress' /\ EndInv'
      BY <1>1, <2>1, RunGoesOn DEF reportVars
    <2>4. selectedPort' # AutoPort /\ CurrentStep' = CurrentStep
      BY <1>3, RunnerAssumption DEF CurrentStep
    <2>5. \A i \in DOMAIN uses' : uses'[i].port = selectedPort'
      <3>1. uses' = <<>>
        BY <1>2
      <3> QED
        BY <3>1, EmptyHasNoIndex, Zenon
    <2>6. PortInv'
      BY <1>1, <1>2, <1>3, <2>1, <2>4, <2>5 DEF RunInv, PortInv, Entry
    <2> QED
      BY <2>2, <2>3, <2>6 DEF RunInv
  <1>4. ASSUME Fail("serial port", SerialFailure, "error"), UNCHANGED selectedPort
        PROVE  RunInv'
    <2>3. /\ stepResults' \in Seq(StepRecord) /\ result' \in Result /\ pc' = "finish"
          /\ json' = json /\ exit' = exit /\ Progress' /\ EndInv'
      BY <1>1, <1>4, Reasons, FailEnds
    <2>4. TypeOK'
      BY <1>4, <2>3 DEF RunInv, TypeOK, Pc, Result, StepRecord
    <2>5. PortInv'
      BY <1>1, <1>4, <2>3 DEF RunInv, PortInv
    <2> QED
      BY <2>3, <2>4, <2>5 DEF RunInv
  <1>5. CASE device # AutoPort /\ selectedPort' = device /\ Continue(Entry)
    <2>1. device \in Ports
      BY <1>5 DEF RunInv, TypeOK
    <2> QED
      BY <1>3, <1>5, <2>1
  <1>6. CASE /\ device = AutoPort
             /\ \E p \in Ports : {q \in plugged : plausible(q)} = {p} /\ selectedPort' = p
             /\ Continue(Entry)
    <2>1. PICK p \in Ports : {q \in plugged : plausible(q)} = {p} /\ selectedPort' = p
      BY <1>6
    <2>2. \A q \in steady : plausible(q) => q = p
      BY <2>1 DEF RunInv, PortInv
    <2> QED
      BY <1>3, <1>6, <2>1, <2>2
  <1> QED
    BY <1>4, <1>5, <1>6

UseRecord == [step: {"upload", "monitor"}, port: Ports]

\* a use of the selected port is appended, or none
LEMMA UsesGrow ==
  ASSUME RunInv, UNCHANGED <<configVars, selectedPort>>, selectedPort # AutoPort,
         NEW step \in {"upload", "monitor"},
         uses' = Append(uses, [step |-> step, port |-> selectedPort])
  PROVE  /\ uses' \in Seq(UseRecord)
         /\ \A i \in DOMAIN uses' : uses'[i].port = selectedPort'
  <1> DEFINE u == [step |-> step, port |-> selectedPort]
  <1>1. uses \in Seq(UseRecord) /\ selectedPort \in Ports
    BY DEF RunInv, TypeOK, UseRecord
  <1>2. u \in UseRecord /\ u.port = selectedPort
    BY <1>1 DEF UseRecord
  <1>3. \A i \in DOMAIN uses : uses[i].port = selectedPort
    BY DEF RunInv, PortInv
  <1> HIDE DEF u
  <1>4. uses' = Append(uses, u)
    BY DEF u
  <1>5. uses' \in Seq(UseRecord)
    BY <1>1, <1>2, <1>4
  <1>6. ASSUME NEW i \in DOMAIN uses' PROVE uses'[i].port = selectedPort'
    <2>1. /\ uses'[i] = IF i = Len(uses) + 1 THEN u ELSE uses[i]
          /\ DOMAIN uses' = 1..(Len(uses) + 1) /\ DOMAIN uses = 1..Len(uses)
          /\ Len(uses) \in Nat
      BY <1>1, <1>2, <1>4, AppendFacts
    <2>2. CASE i = Len(uses) + 1
      BY <1>2, <2>1, <2>2
    <2>3. CASE i # Len(uses) + 1
      <3>1. i \in DOMAIN uses
        BY <2>1, <2>3
      <3> QED
        BY <1>3, <2>1, <2>3, <3>1
    <2> QED
      BY <2>2, <2>3
  <1> QED
    BY <1>5, <1>6

LEMMA StartCommandKeeps == ASSUME RunInv, StartCommand PROVE RunInv'
  <1>1. pc = "command" /\ Alive /\ next <= Len(steps) /\ CurrentStep \in {"build", "upload"}
    BY StepsAreSteps DEF StartCommand, Alive, RunInv, PortInv, StepType
  <1>2. UNCHANGED <<configVars, worldVars, next, selectedPort, failures, serialLog>>
    BY DEF StartCommand
  <1>3. CurrentStep = "upload" => selectedPort # AutoPort
    BY <1>1 DEF RunInv, PortInv
  <1>4. artifacts' \subseteq [step: {"config", "build", "upload"}, file: {"yaml", "stdout", "stderr"}]
    <2>1. artifacts' \subseteq artifacts \cup {File(CurrentStep, "stdout"), File(CurrentStep, "stderr")}
      BY Zenon DEF StartCommand
    <2>2. artifacts \subseteq [step: {"config", "build", "upload"}, file: {"yaml", "stdout", "stderr"}]
      BY DEF RunInv, TypeOK
    <2>3. \A f \in {"stdout", "stderr"} : File(CurrentStep, f) \in
            [step: {"config", "build", "upload"}, file: {"yaml", "stdout", "stderr"}]
      BY <1>1 DEF File
    <2> QED
      BY <2>1, <2>2, <2>3
  <1>5. CASE Fail(CurrentStep, EnvironmentFailure, "error") /\ UNCHANGED <<launched, uses>>
    <2>1. /\ stepResults' \in Seq(StepRecord) /\ result' \in Result /\ pc' = "finish"
          /\ json' = json /\ exit' = exit /\ Progress' /\ EndInv'
      BY <1>1, <1>2, <1>5, Reasons, FailEnds DEF worldVars, StepType
    <2>2. TypeOK'
      BY <1>2, <1>4, <1>5, <2>1 DEF RunInv, TypeOK, Pc, Result, StepRecord, configVars, worldVars
    <2>3. PortInv'
      BY <1>1, <1>2, <1>5, <2>1 DEF RunInv, PortInv, configVars, worldVars
    <2> QED
      BY <2>1, <2>2, <2>3 DEF RunInv
  <1>6. CASE /\ canceled /\ Record(CurrentStep, "interrupted")
             /\ Finish("interrupted", Interrupted, "canceled") /\ UNCHANGED <<launched, uses>>
    <2>1. /\ stepResults' \in Seq(StepRecord) /\ result' \in Result /\ pc' = "finish"
          /\ json' = json /\ exit' = exit /\ Progress' /\ EndInv'
      BY <1>1, <1>2, <1>6, Reasons, EndOfRun DEF worldVars, StepType, Status
    <2>2. TypeOK'
      BY <1>2, <1>4, <1>6, <2>1 DEF RunInv, TypeOK, Pc, Result, StepRecord, configVars, worldVars
    <2>3. PortInv'
      BY <1>1, <1>2, <1>6, <2>1 DEF RunInv, PortInv, configVars, worldVars
    <2> QED
      BY <2>1, <2>2, <2>3 DEF RunInv
  <1>7. CASE /\ ~canceled /\ Continue("running") /\ launched' = launched + 1
             /\ uses' = IF CurrentStep = "upload"
                        THEN Append(uses, [step |-> "upload", port |-> selectedPort])
                        ELSE uses
    <2>1. pc' = "running" /\ UNCHANGED <<stepResults, reportVars>>
      BY <1>7 DEF Continue
    <2>2. uses' \in Seq(UseRecord) /\ \A i \in DOMAIN uses' : uses'[i].port = selectedPort'
      <3>1. CASE CurrentStep = "upload"
        BY <1>2, <1>3, <1>7, <3>1, UsesGrow
      <3>2. CASE CurrentStep # "upload"
        BY <1>2, <1>7, <3>2 DEF RunInv, TypeOK, PortInv, UseRecord
      <3> QED
        BY <3>1, <3>2
    <2>3. launched' \in Nat
      <3>1. launched \in Nat
        BY DEF RunInv, TypeOK
      <3> QED
        BY <1>7, <3>1
    <2>4. TypeOK'
      BY <1>2, <1>4, <2>1, <2>2, <2>3
      DEF RunInv, TypeOK, Pc, UseRecord, configVars, worldVars, reportVars
    <2>5. Progress' /\ EndInv'
      BY <1>1, <1>2, <2>1, RunGoesOn DEF reportVars
    <2>6. selectedPort' = AutoPort => uses' = <<>>
      BY <1>2, <1>3, <1>7 DEF RunInv, PortInv
    <2>7. CurrentStep' = CurrentStep
      BY <1>2 DEF CurrentStep, configVars
    <2>8. PortInv'
      BY <1>1, <1>2, <1>3, <2>1, <2>2, <2>6, <2>7 DEF RunInv, PortInv, configVars, worldVars
    <2> QED
      BY <2>4, <2>5, <2>8 DEF RunInv
  <1> QED
    BY <1>5, <1>6, <1>7 DEF StartCommand

LEMMA CommandEndsKeeps == ASSUME RunInv, CommandEnds PROVE RunInv'
  <1>1. pc = "running" /\ Alive /\ next <= Len(steps) /\ CurrentStep \in {"build", "upload"}
    BY StepsAreSteps DEF CommandEnds, Alive, RunInv, PortInv, StepType
  <1>2. /\ UNCHANGED <<configVars, worldVars, selectedPort, uses, launched, failures, serialLog,
                        artifacts>>
    BY DEF CommandEnds
  <1>3. CASE StepPassed(CurrentStep)
    <2>1. UNCHANGED reportVars
      BY <1>3 DEF StepPassed
    <2>2. /\ stepResults' \in Seq(StepRecord) /\ next' \in 1..(Len(steps') + 1)
          /\ pc' = "loop" /\ Progress' /\ EndInv'
      BY <1>1, <1>2, <1>3, <2>1, StepDone DEF reportVars
    <2>3. TypeOK'
      BY <1>2, <2>1, <2>2
      DEF RunInv, TypeOK, Pc, StepRecord, configVars, worldVars, reportVars
    <2>4. PortInv'
      BY <1>1, <1>2, <2>2 DEF RunInv, PortInv, configVars, worldVars
    <2> QED
      BY <2>2, <2>3, <2>4 DEF RunInv
  <1>4. CASE Fail(CurrentStep, ExecutionFailure, "error") /\ UNCHANGED next
    <2>1. /\ stepResults' \in Seq(StepRecord) /\ result' \in Result /\ pc' = "finish"
          /\ json' = json /\ exit' = exit /\ Progress' /\ EndInv'
      BY <1>1, <1>2, <1>4, Reasons, FailEnds DEF worldVars, StepType
    <2>2. TypeOK'
      BY <1>2, <1>4, <2>1 DEF RunInv, TypeOK, Pc, Result, StepRecord, configVars, worldVars
    <2>3. PortInv'
      BY <1>1, <1>2, <2>1 DEF RunInv, PortInv, configVars, worldVars
    <2> QED
      BY <2>1, <2>2, <2>3 DEF RunInv
  <1>5. CASE /\ canceled /\ Record(CurrentStep, "interrupted")
             /\ Finish("interrupted", Interrupted, "canceled") /\ UNCHANGED next
    <2>1. /\ stepResults' \in Seq(StepRecord) /\ result' \in Result /\ pc' = "finish"
          /\ json' = json /\ exit' = exit /\ Progress' /\ EndInv'
      BY <1>1, <1>2, <1>5, Reasons, EndOfRun DEF worldVars, StepType, Status
    <2>2. TypeOK'
      BY <1>2, <1>5, <2>1 DEF RunInv, TypeOK, Pc, Result, StepRecord, configVars, worldVars
    <2>3. PortInv'
      BY <1>1, <1>2, <2>1 DEF RunInv, PortInv, configVars, worldVars
    <2> QED
      BY <2>1, <2>2, <2>3 DEF RunInv
  <1> QED
    BY <1>3, <1>4, <1>5 DEF CommandEnds

LEMMA OpenSerialKeeps == ASSUME RunInv, OpenSerial PROVE RunInv'
  <1>1. /\ pc = "open" /\ Alive /\ next <= Len(steps) /\ CurrentStep = "monitor"
        /\ selectedPort # AutoPort
    BY DEF OpenSerial, Alive, RunInv, PortInv
  <1>2. UNCHANGED <<configVars, worldVars, next, selectedPort, launched, failures, serialLog,
                    artifacts>>
    BY DEF OpenSerial
  <1>3. CASE /\ uses' = Append(uses, [step |-> "monitor", port |-> selectedPort])
             /\ Continue(IF reset THEN "reset" ELSE "log")
    <2>1. pc' \in {"reset", "log"} /\ UNCHANGED <<stepResults, reportVars>>
      BY <1>3 DEF Continue
    <2>2. uses' \in Seq(UseRecord) /\ \A i \in DOMAIN uses' : uses'[i].port = selectedPort'
      BY <1>1, <1>2, <1>3, UsesGrow
    <2>3. TypeOK'
      BY <1>2, <2>1, <2>2 DEF RunInv, TypeOK, Pc, UseRecord, configVars, worldVars, reportVars
    <2>4. Progress' /\ EndInv'
      BY <1>1, <1>2, <2>1, RunGoesOn DEF reportVars
    <2>5. CurrentStep' = CurrentStep
      BY <1>2 DEF CurrentStep, configVars
    <2>6. PortInv'
      BY <1>1, <1>2, <2>1, <2>2, <2>5 DEF RunInv, PortInv, configVars, worldVars
    <2> QED
      BY <2>3, <2>4, <2>6 DEF RunInv
  <1>4. CASE /\ \/ Fail("monitor", SerialFailure, "error")
                \/ canceled /\ Fail("monitor", SerialFailure, "canceled")
             /\ UNCHANGED uses
    <2>1. /\ stepResults' \in Seq(StepRecord) /\ result' \in Result /\ pc' = "finish"
          /\ json' = json /\ exit' = exit /\ Progress' /\ EndInv'
      BY <1>1, <1>2, <1>4, Reasons, FailEnds DEF worldVars, StepType
    <2>2. TypeOK'
      BY <1>2, <1>4, <2>1 DEF RunInv, TypeOK, Pc, Result, StepRecord, configVars, worldVars
    <2>3. PortInv'
      BY <1>1, <1>2, <1>4, <2>1 DEF RunInv, PortInv, configVars, worldVars
    <2> QED
      BY <2>1, <2>2, <2>3 DEF RunInv
  <1> QED
    BY <1>3, <1>4 DEF OpenSerial

LEMMA ResetBoardKeeps == ASSUME RunInv, ResetBoard PROVE RunInv'
  <1>1. /\ pc = "reset" /\ Alive /\ next <= Len(steps) /\ CurrentStep = "monitor"
        /\ selectedPort # AutoPort
    BY DEF ResetBoard, Alive, RunInv, PortInv
  <1>2. UNCHANGED <<configVars, worldVars, next, selectedPort, uses, launched, failures,
                    serialLog, artifacts>>
    BY DEF ResetBoard
  <1>3. CASE Continue("log")
    <2>1. pc' = "log" /\ UNCHANGED <<stepResults, reportVars>>
      BY <1>3 DEF Continue
    <2>2. TypeOK'
      BY <1>2, <2>1 DEF RunInv, TypeOK, Pc, configVars, worldVars, reportVars
    <2>3. Progress' /\ EndInv'
      BY <1>1, <1>2, <2>1, RunGoesOn DEF reportVars
    <2>4. PortInv'
      BY <1>1, <1>2, <2>1 DEF RunInv, PortInv, CurrentStep, configVars, worldVars
    <2> QED
      BY <2>2, <2>3, <2>4 DEF RunInv
  <1>4. CASE \/ Fail("monitor", SerialFailure, "error")
             \/ canceled /\ Fail("monitor", SerialFailure, "canceled")
    <2>1. /\ stepResults' \in Seq(StepRecord) /\ result' \in Result /\ pc' = "finish"
          /\ json' = json /\ exit' = exit /\ Progress' /\ EndInv'
      BY <1>1, <1>2, <1>4, Reasons, FailEnds DEF worldVars, StepType
    <2>2. TypeOK'
      BY <1>2, <2>1 DEF RunInv, TypeOK, Pc, Result, StepRecord, configVars, worldVars
    <2>3. PortInv'
      BY <1>1, <1>2, <2>1 DEF RunInv, PortInv, configVars, worldVars
    <2> QED
      BY <2>1, <2>2, <2>3 DEF RunInv
  <1> QED
    BY <1>3, <1>4 DEF ResetBoard

LEMMA OpenSerialLogKeeps == ASSUME RunInv, OpenSerialLog PROVE RunInv'
  <1>1. /\ pc = "log" /\ Alive /\ next <= Len(steps) /\ CurrentStep = "monitor"
        /\ selectedPort # AutoPort
    BY DEF OpenSerialLog, Alive, RunInv, PortInv
  <1>2. UNCHANGED <<configVars, worldVars, next, selectedPort, uses, launched, failures, artifacts>>
    BY DEF OpenSerialLog
  <1>3. CASE Continue("capture") /\ serialLog' = {}
    <2>1. pc' = "capture" /\ UNCHANGED <<stepResults, reportVars>>
      BY <1>3 DEF Continue
    <2>2. TypeOK'
      BY <1>2, <1>3, <2>1 DEF RunInv, TypeOK, Pc, configVars, worldVars, reportVars
    <2>3. Progress' /\ EndInv'
      BY <1>1, <1>2, <2>1, RunGoesOn DEF reportVars
    <2>4. PortInv'
      BY <1>1, <1>2, <2>1 DEF RunInv, PortInv, CurrentStep, configVars, worldVars
    <2> QED
      BY <2>2, <2>3, <2>4 DEF RunInv
  <1>4. CASE Fail("monitor", EnvironmentFailure, "error") /\ UNCHANGED serialLog
    <2>1. /\ stepResults' \in Seq(StepRecord) /\ result' \in Result /\ pc' = "finish"
          /\ json' = json /\ exit' = exit /\ Progress' /\ EndInv'
      BY <1>1, <1>2, <1>4, Reasons, FailEnds DEF worldVars, StepType
    <2>2. TypeOK'
      BY <1>2, <1>4, <2>1 DEF RunInv, TypeOK, Pc, Result, StepRecord, configVars, worldVars
    <2>3. PortInv'
      BY <1>1, <1>2, <2>1 DEF RunInv, PortInv, configVars, worldVars
    <2> QED
      BY <2>1, <2>2, <2>3 DEF RunInv
  <1> QED
    BY <1>3, <1>4 DEF OpenSerialLog

LEMMA CaptureSerialKeeps == ASSUME RunInv, CaptureSerial PROVE RunInv'
  <1>1. /\ pc = "capture" /\ Alive /\ next <= Len(steps) /\ CurrentStep = "monitor"
        /\ selectedPort # AutoPort
    BY DEF CaptureSerial, Alive, RunInv, PortInv
  <1>2. UNCHANGED <<configVars, worldVars, selectedPort, uses, launched, artifacts>>
    BY DEF CaptureSerial
  <1>3. serialLog' \subseteq Nat
    <2>1. serialLog' = serialLog \cup {next}
      BY DEF CaptureSerial
    <2>2. next \in Nat
      BY StepsAreSteps DEF RunInv
    <2>3. serialLog \subseteq Nat
      BY DEF RunInv, TypeOK
    <2> QED
      BY <2>1, <2>2, <2>3
  <1>4. CASE StepPassed("monitor") /\ UNCHANGED failures
    <2>1. UNCHANGED reportVars
      BY <1>4 DEF StepPassed
    <2>2. /\ stepResults' \in Seq(StepRecord) /\ next' \in 1..(Len(steps') + 1)
          /\ pc' = "loop" /\ Progress' /\ EndInv'
      BY <1>1, <1>2, <1>4, <2>1, StepDone DEF reportVars
    <2>3. TypeOK'
      BY <1>2, <1>3, <1>4, <2>1, <2>2
      DEF RunInv, TypeOK, Pc, StepRecord, configVars, worldVars, reportVars
    <2>4. PortInv'
      BY <1>1, <1>2, <2>2 DEF RunInv, PortInv, configVars, worldVars
    <2> QED
      BY <2>2, <2>3, <2>4 DEF RunInv
  <1>5. ASSUME /\ stepResults' \in Seq(StepRecord) /\ result' \in Result /\ pc' = "finish"
               /\ json' = json /\ exit' = exit /\ Progress' /\ EndInv',
               failures' \in BOOLEAN, UNCHANGED next
        PROVE  RunInv'
    <2>1. TypeOK'
      BY <1>2, <1>3, <1>5 DEF RunInv, TypeOK, Pc, Result, StepRecord, configVars, worldVars
    <2>2. PortInv'
      BY <1>1, <1>2, <1>5 DEF RunInv, PortInv, configVars, worldVars
    <2> QED
      BY <1>5, <2>1, <2>2 DEF RunInv
  <1>6. CASE /\ Record("monitor", "passed") /\ failures' = TRUE
             /\ Finish("failed", AssertionFailed, "nil") /\ UNCHANGED next
    <2>1. Justifies("monitor", "passed", AssertionFailed, "nil")
      BY <1>6 DEF Justifies
    <2>2. /\ stepResults' \in Seq(StepRecord) /\ result' \in Result /\ pc' = "finish"
          /\ json' = json /\ exit' = exit /\ Progress' /\ EndInv'
      BY <1>1, <1>2, <1>6, <2>1, Reasons, EndOfRun DEF worldVars, StepType, Status
    <2> QED
      BY <1>5, <1>6, <2>2
  <1>7. CASE /\ canceled /\ Record("monitor", "interrupted") /\ failures' \in {failures, TRUE}
             /\ Finish("interrupted", Interrupted, "canceled") /\ UNCHANGED next
    <2>1. /\ stepResults' \in Seq(StepRecord) /\ result' \in Result /\ pc' = "finish"
          /\ json' = json /\ exit' = exit /\ Progress' /\ EndInv'
      BY <1>1, <1>2, <1>7, Reasons, EndOfRun DEF worldVars, StepType, Status
    <2>2. failures' \in BOOLEAN
      BY <1>1, <1>7 DEF RunInv, Progress
    <2> QED
      BY <1>5, <1>7, <2>1, <2>2
  <1>8. CASE /\ Fail("monitor", SerialFailure, "error") /\ failures' \in {failures, TRUE}
             /\ UNCHANGED next
    <2>1. /\ stepResults' \in Seq(StepRecord) /\ result' \in Result /\ pc' = "finish"
          /\ json' = json /\ exit' = exit /\ Progress' /\ EndInv'
      BY <1>1, <1>2, <1>8, Reasons, FailEnds DEF worldVars, StepType
    <2>2. failures' \in BOOLEAN
      BY <1>1, <1>8 DEF RunInv, Progress
    <2> QED
      BY <1>5, <1>8, <2>1, <2>2
  <1> QED
    BY <1>4, <1>6, <1>7, <1>8 DEF CaptureSerial

LEMMA WriteResultKeeps == ASSUME RunInv, WriteResult PROVE RunInv'
  <1> DEFINE lost == [status |-> "failed", code |-> EnvironmentFailure, err |-> "error"]
  <1>1. pc = "finish" /\ pc' = "return" /\ exit' = exit
    BY DEF WriteResult
  <1>2. UNCHANGED <<configVars, worldVars, next, selectedPort, uses, launched, stepResults,
                    failures, serialLog, artifacts>>
    BY DEF WriteResult
  <1>3. /\ Explained(result.code) /\ (result.err = "canceled" => canceled) /\ exit = -1
        /\ result.status \in Status
        /\ result.code = OK => result.status = "passed" /\ result.err = "nil"
    BY <1>1 DEF RunInv, EndInv
  <1>4. \/ json' = [status |-> result.status, code |-> result.code] /\ result' = result
        \/ /\ result' = (IF result.err = "nil" THEN lost ELSE result)
           /\ json' = json
    BY Zenon DEF WriteResult
  <1>5. \A code : Explained(code) => Explained(code)'
    BY <1>2 DEF Explained, Last, Passed, configVars, worldVars
  <1>6. Progress' /\ PortInv'
    BY <1>1, <1>2 DEF RunInv, Progress, Alive, PortInv, configVars, worldVars
  <1>7. CASE json' = [status |-> result.status, code |-> result.code] /\ result' = result
    <2>1. json' \in [status: Status \cup {"absent"}, code: Codes]
      <3>1. result.code \in Codes
        BY DEF RunInv, TypeOK
      <3> QED
        BY <1>3, <1>7, <3>1
    <2>2. TypeOK'
      BY <1>1, <1>2, <1>7, <2>1 DEF RunInv, TypeOK, Pc, configVars, worldVars
    <2>3. EndInv'
      BY <1>1, <1>2, <1>3, <1>5, <1>7 DEF EndInv, PassedJson, worldVars
    <2> QED
      BY <1>6, <2>2, <2>3 DEF RunInv
  <1>8. CASE result.err = "nil" /\ result' = lost /\ json' = json
    <2>1. /\ lost \in Result /\ lost.code = EnvironmentFailure /\ lost.err = "error"
          /\ lost.status \in Status
      BY DEF Result, Status, Codes
    <2>2. Explained(EnvironmentFailure)'
      BY DEF Explained
    <2> HIDE DEF lost
    <2>3. TypeOK'
      BY <1>1, <1>2, <1>8, <2>1 DEF RunInv, TypeOK, Result, Pc, configVars, worldVars
    <2>4. EndInv'
      BY <1>1, <1>3, <1>8, <2>1, <2>2 DEF EndInv
    <2> QED
      BY <1>6, <2>3, <2>4 DEF RunInv
  <1>9. CASE result.err # "nil" /\ result' = result /\ json' = json
    <2>1. TypeOK'
      BY <1>1, <1>2, <1>9 DEF RunInv, TypeOK, Pc, configVars, worldVars
    <2>2. EndInv'
      BY <1>1, <1>2, <1>3, <1>5, <1>9 DEF EndInv, worldVars
    <2> QED
      BY <1>6, <2>1, <2>2 DEF RunInv
  <1> QED
    BY <1>4, <1>7, <1>8, <1>9

LEMMA ExitKeeps == ASSUME RunInv, Exit PROVE RunInv'
  <1>1. /\ pc = "return" /\ pc' = "exited" /\ UNCHANGED <<result, json>>
        /\ exit' = IF result.err = "canceled" THEN Interrupted ELSE result.code
    BY DEF Exit
  <1>2. UNCHANGED <<configVars, worldVars, next, selectedPort, uses, launched, stepResults,
                    failures, serialLog, artifacts>>
    BY DEF Exit
  <1>3. /\ Explained(result.code) /\ (result.err = "canceled" => canceled)
        /\ result.code = OK => PassedJson
    BY <1>1 DEF RunInv, EndInv
  <1>4. \A code : Explained(code) => Explained(code)'
    BY <1>2 DEF Explained, Last, Passed, configVars, worldVars
  <1>5. Progress' /\ PortInv'
    BY <1>1, <1>2 DEF RunInv, Progress, Alive, PortInv, configVars, worldVars
  <1>6. exit' \in Codes
    BY <1>1 DEF RunInv, TypeOK, Codes
  <1>7. TypeOK'
    BY <1>1, <1>2, <1>6 DEF RunInv, TypeOK, Pc, configVars, worldVars
  <1>8. Explained(exit')
    <2>1. CASE result.err = "canceled"
      <3>1. canceled /\ exit' = Interrupted
        BY <1>1, <1>3, <2>1
      <3> QED
        BY <3>1 DEF Explained
    <2>2. CASE result.err # "canceled"
      BY <1>1, <1>3, <2>2
    <2> QED
      BY <2>1, <2>2
  <1> QED
    BY <1>1, <1>3, <1>4, <1>5, <1>7, <1>8 DEF RunInv, EndInv, PassedJson

LEMMA NextRunInv == RunInv /\ [Next]_vars => RunInv'
  <1> SUFFICES ASSUME RunInv, [Next]_vars PROVE RunInv'
    OBVIOUS
  <1>1. CASE Run
    BY <1>1, CreateRunDirKeeps, WriteConfigKeeps, VerifyKeeps, BeginStepKeeps, EndOfStepsKeeps,
       SelectPortKeeps, StartCommandKeeps, CommandEndsKeeps, OpenSerialKeeps, ResetBoardKeeps,
       OpenSerialLogKeeps, CaptureSerialKeeps, EvaluatorPanicsKeeps, WriteResultKeeps, ExitKeeps,
       Zenon DEF Run
  <1>2. CASE UNCHANGED vars
    <2> USE <1>2 DEF vars, configVars, worldVars, runVars, reportVars
    <2>1. TypeOK'
      BY DEF RunInv, TypeOK
    <2>2. Progress' /\ PortInv'
      BY DEF RunInv, Progress, Alive, Passed, PortInv, CurrentStep
    <2>3. EndInv'
      BY DEF RunInv, EndInv, Explained, Last, Passed, PassedJson
    <2> QED
      BY <2>1, <2>2, <2>3 DEF RunInv
  <1> QED
    BY <1>1, <1>2, SignalKeeps, PortsChangeKeeps DEF Next, Exited

LEMMA Invariance == Spec => []RunInv
  <1> QED
    BY InitRunInv, NextRunInv, PTL DEF Spec

-----------------------------------------------------------------------------
(* Theorems *)

(* Every reachable state of a run is well typed, for every list of steps   *)
(* and every set of ports; in particular the process exits with one of the *)
(* documented codes.                                                       *)
THEOREM RunnerTypeCorrect == Spec => []TypeOK
  <1>1. RunInv => TypeOK
    BY DEF RunInv
  <1> QED
    BY <1>1, Invariance, PTL

(* Exit code 0 is never wrong, however long the list of steps: every step  *)
(* ran in order and passed, no assertion failed, result.json says so.      *)
THEOREM ExitZeroIsTrue == Spec => []ExitZeroMeansAllPassed
  <1>1. RunInv => ExitZeroMeansAllPassed
    <2> SUFFICES ASSUME RunInv, exit = OK PROVE ExitZeroMeansAllPassed
      BY DEF ExitZeroMeansAllPassed
    <2>1. pc = "exited"
      BY DEF RunInv, Progress, EndInv, Alive
    <2>2. Explained(OK) /\ PassedJson
      BY <2>1 DEF RunInv, EndInv
    <2>3. stepResults = [i \in 1..Len(steps) |-> Passed(i)] /\ failures = FALSE
      BY <2>2 DEF Explained
    <2> QED
      BY <2>2, <2>3 DEF ExitZeroMeansAllPassed, PassedJson, Passed
  <1> QED
    BY <1>1, Invariance, PTL

(* The exit code names what ended the run, for every list of steps.        *)
THEOREM ExitIsExplained == Spec => []ExitNamesTheCause
  <1>1. RunInv => ExitNamesTheCause
    <2> SUFFICES ASSUME RunInv PROVE ExitNamesTheCause
      OBVIOUS
    <2>1. CASE pc = "exited"
      <3>1. Explained(exit)
        BY <2>1 DEF RunInv, EndInv
      <3> QED
        BY <3>1 DEF Explained, Last, ExitNamesTheCause
    <2>2. CASE pc # "exited"
      <3>1. exit = -1
        BY <2>2 DEF RunInv, Progress, EndInv, Alive
      <3> QED
        BY <3>1 DEF ExitNamesTheCause
    <2> QED
      BY <2>1, <2>2
  <1> QED
    BY <1>1, Invariance, PTL

(* All uploads and monitors of a run use one port, whatever ports come and *)
(* go while it runs.                                                       *)
THEOREM OnePort == Spec => []OnePortPerRun
  <1>1. RunInv => OnePortPerRun
    BY DEF RunInv, PortInv, OnePortPerRun
  <1> QED
    BY <1>1, Invariance, PTL

(* With `auto` a board that is plugged in all the time is the only one     *)
(* that is used, for every set of ports and however the others come and    *)
(* go: it was among the candidates when the port was selected, so it was   *)
(* the only one, and the port is never selected again.                     *)
THEOREM AutoIsSafe == Spec => []AutoNeverGuesses
  <1>1. RunInv => AutoNeverGuesses
    <2> SUFFICES ASSUME RunInv, device = AutoPort,
                        NEW p \in steady, plausible(p), NEW i \in DOMAIN uses
                 PROVE  uses[i].port = p
      BY DEF AutoNeverGuesses
    <2>1. uses[i].port = selectedPort
      BY DEF RunInv, PortInv
    <2>2. selectedPort # AutoPort
      BY EmptyHasNoIndex DEF RunInv, PortInv
    <2> QED
      BY <2>1, <2>2 DEF RunInv, PortInv
  <1> QED
    BY <1>1, Invariance, PTL

(* Only StartCommand starts a process, and it runs only while the context  *)
(* is not done and every step so far has passed.                           *)
THEOREM NothingStarts == Spec => NothingStartsAfterTheEnd
  <1> DEFINE A == launched' # launched =>
                    /\ ~canceled
                    /\ \A i \in DOMAIN stepResults : stepResults[i].status = "passed"
  <1>1. RunInv /\ [Next]_vars => [A]_vars
    <2> SUFFICES ASSUME RunInv, [Next]_vars, launched' # launched
                 PROVE  /\ ~canceled
                        /\ \A i \in DOMAIN stepResults : stepResults[i].status = "passed"
      OBVIOUS
    <2>1. StartCommand
      BY Zenon DEF Next, Run, Signal, PortsChange, CreateRunDir, WriteConfig, Verify, BeginStep,
         EndOfSteps, SelectPort, CommandEnds, OpenSerial, ResetBoard, OpenSerialLog, CaptureSerial,
         EvaluatorPanics, WriteResult, Exit, Exited, vars, configVars, worldVars, runVars
    <2>2. ~canceled /\ pc = "command"
      BY <2>1, Zenon DEF StartCommand
    <2>3. stepResults = [i \in 1..(next - 1) |-> Passed(i)]
      BY <2>2 DEF RunInv, Progress, Alive
    <2> QED
      BY <2>2, <2>3 DEF Passed
  <1> QED
    BY <1>1, Invariance, PTL DEF Spec, NothingStartsAfterTheEnd
=============================================================================
