------------------------------- MODULE Runner -------------------------------
(***************************************************************************)
(* internal/runner, Run and what it calls, and the exit code that          *)
(* cmd/architon makes of it: one test run, from the creation of its        *)
(* directory to the exit of the process.  One action per call that can     *)
(* fail; each may have every outcome the code distinguishes.  SIGINT and   *)
(* SIGTERM may cancel the context between any two actions, and boards may  *)
(* come and go whenever the code is about to look for one.                 *)
(*                                                                         *)
(* The capture of serial output is one action here, with the outcomes that *)
(* module Capture shows it to have.                                        *)
(***************************************************************************)
EXTENDS Integers, Sequences, FiniteSets

CONSTANTS
  StepLists,   \* the `steps` of the configurations considered
  Ports,       \* the serial ports that may exist
  Bluetooth, Marked, HasIDs,
               \* the ports whose description names Bluetooth, or a USB serial
               \* chip or board, and those with a vendor or product number
  AutoPort     \* device.port: auto

StepType == {"build", "upload", "monitor"}

ASSUME RunnerAssumption ==
  /\ StepLists \subseteq Seq(StepType) \ {<<>>}
  /\ Bluetooth \subseteq Ports /\ Marked \subseteq Ports /\ HasIDs \subseteq Ports
  /\ AutoPort \notin Ports

\* internal/exitcode
OK                 == 0
AssertionFailed    == 2
InvalidConfig      == 3
EnvironmentFailure == 4
ExecutionFailure   == 5
SerialFailure      == 6
Interrupted        == 130

Codes == {OK, AssertionFailed, InvalidConfig, EnvironmentFailure, ExecutionFailure,
          SerialFailure, Interrupted}

StatusForCode(code) ==
  IF code = OK THEN "passed"
  ELSE IF code = Interrupted THEN "interrupted" ELSE "failed"

VARIABLES
  steps, reset, device,   \* the configuration: steps, reset_after_upload, device.port
  pc,             \* the call Run is about to make
  next,           \* index of the step that is running or is next
  canceled,       \* ctx.Err() # nil
  plugged,        \* the ports that exist
  steady,         \* history: those that have existed all the time
  selectedPort,   \* AutoPort until a port is selected
  uses,           \* history: uploads and opened monitors, with their port
  launched,       \* history: how many processes were started
  stepResults,    \* result.Steps
  failures,       \* some result.Assertions has failed
  serialLog,      \* the monitor steps whose output serial.log holds
  artifacts,      \* the other files of the run directory
  result,         \* final status, exit code and error that Run returns
  json,           \* result.json
  exit            \* exit code of the process, -1 while it runs

configVars == <<steps, reset, device>>
worldVars  == <<canceled, plugged, steady>>
reportVars == <<result, json, exit>>
runVars    == <<pc, next, selectedPort, uses, launched, stepResults, failures, serialLog,
                artifacts>>
vars == <<configVars, worldVars, runVars, reportVars>>

Pc == {"create", "config", "verify", "loop", "port", "command", "running", "open", "reset",
       "log", "capture", "finish", "return", "exited"}

Status == {"passed", "failed", "interrupted"}

TypeOK ==
  /\ steps \in StepLists
  /\ reset \in BOOLEAN
  /\ device \in Ports \cup {AutoPort}
  /\ pc \in Pc
  /\ next \in 1..(Len(steps) + 1)
  /\ canceled \in BOOLEAN
  /\ plugged \subseteq Ports /\ steady \subseteq Ports
  /\ selectedPort \in Ports \cup {AutoPort}
  /\ uses \in Seq([step: {"upload", "monitor"}, port: Ports])
  /\ launched \in Nat
  /\ stepResults \in Seq([name: StepType \cup {"platformio", "serial port"}, status: Status])
  /\ failures \in BOOLEAN
  /\ serialLog \subseteq Nat
  /\ artifacts \subseteq [step: {"config", "build", "upload"}, file: {"yaml", "stdout", "stderr"}]
  /\ result \in [status: Status \cup {"none"}, code: Codes, err: {"nil", "canceled", "error"}]
  /\ json \in [status: Status \cup {"absent"}, code: Codes]
  /\ exit \in Codes \cup {-1}

Init ==
  /\ steps \in StepLists
  /\ reset \in BOOLEAN
  /\ device \in Ports \cup {AutoPort}
  /\ pc = "create"
  /\ next = 1
  /\ canceled = FALSE
  /\ plugged \in SUBSET Ports
  /\ steady = plugged
  /\ selectedPort = AutoPort
  /\ uses = <<>>
  /\ launched = 0
  /\ stepResults = <<>>
  /\ failures = FALSE
  /\ serialLog = {}
  /\ artifacts = {}
  /\ result = [status |-> "none", code |-> OK, err |-> "nil"]
  /\ json = [status |-> "absent", code |-> OK]
  /\ exit = -1

-----------------------------------------------------------------------------
(* The environment *)

\* SIGINT or SIGTERM (signal.NotifyContext)
Signal ==
  /\ pc # "exited"
  /\ ~canceled
  /\ canceled' = TRUE
  /\ UNCHANGED <<configVars, plugged, steady, runVars, reportVars>>

\* a board is plugged in, unplugged, or comes back on another port
PortsChange ==
  /\ pc \in {"port", "open"}
  /\ plugged' \in SUBSET Ports \ {plugged}
  /\ steady' = steady \cap plugged'
  /\ UNCHANGED <<configVars, canceled, runVars, reportVars>>

-----------------------------------------------------------------------------
(* Helpers of the steps of Run *)

\* result.Steps = append(result.Steps, ...)
Record(name, status) == stepResults' = Append(stepResults, [name |-> name, status |-> status])

\* the arguments with which Run calls finish
Finish(status, code, err) ==
  /\ result' = [status |-> status, code |-> code, err |-> err]
  /\ pc' = "finish"
  /\ UNCHANGED <<json, exit>>

\* a step failed: it is recorded and the run ends
Fail(name, code, err) ==
  /\ Record(name, "failed")
  /\ Finish(StatusForCode(code), code, err)

\* the step is over and has not ended the run
StepPassed(name) ==
  /\ Record(name, "passed")
  /\ next' = next + 1
  /\ pc' = "loop"
  /\ UNCHANGED reportVars

Continue(to) == pc' = to /\ UNCHANGED <<stepResults, reportVars>>

CurrentStep == steps[next]

File(step, file) == [step |-> step, file |-> file]

-----------------------------------------------------------------------------
(* Before the steps *)

\* createRunDir; without a directory nothing is reported
CreateRunDir ==
  /\ pc = "create"
  /\ \/ pc' = "config" /\ UNCHANGED exit
     \/ pc' = "exited" /\ exit' = EnvironmentFailure
  /\ UNCHANGED <<configVars, worldVars, next, selectedPort, uses, launched, stepResults,
                 failures, serialLog, artifacts, result, json>>

\* config.ResolvedYAML and the write of config.resolved.yaml
WriteConfig ==
  /\ pc = "config"
  /\ \/ Continue("verify") /\ artifacts' = {File("config", "yaml")}
     \/ /\ Finish("failed", InvalidConfig, "error") \/ Finish("failed", EnvironmentFailure, "error")
        /\ UNCHANGED <<stepResults, artifacts>>
  /\ UNCHANGED <<configVars, worldVars, next, selectedPort, uses, launched, failures, serialLog>>

\* PlatformIO.Verify
Verify ==
  /\ pc = "verify"
  /\ Continue("loop") \/ Fail("platformio", EnvironmentFailure, "error")
  /\ UNCHANGED <<configVars, worldVars, next, selectedPort, uses, launched, failures,
                 serialLog, artifacts>>

-----------------------------------------------------------------------------
(* The loop over the steps *)

(* Seeded fault: the port is looked for again at every step. *)
BeginStep_SelectAgain ==
  /\ pc = "loop" /\ next <= Len(steps)
  /\ IF canceled
     THEN Finish("interrupted", Interrupted, "canceled") /\ UNCHANGED stepResults
     ELSE Continue(IF CurrentStep = "build" THEN "command" ELSE "port")
  /\ UNCHANGED <<configVars, worldVars, next, selectedPort, uses, launched, failures,
                 serialLog, artifacts>>

\* where a step starts, once a port is selected if it needs one
Entry == IF CurrentStep = "monitor" THEN "open" ELSE "command"

BeginStep ==
  /\ pc = "loop" /\ next <= Len(steps)
  /\ IF canceled
     THEN Finish("interrupted", Interrupted, "canceled") /\ UNCHANGED stepResults
     ELSE Continue(IF CurrentStep # "build" /\ selectedPort = AutoPort THEN "port" ELSE Entry)
  /\ UNCHANGED <<configVars, worldVars, next, selectedPort, uses, launched, failures,
                 serialLog, artifacts>>

\* no step is left; a signal is not looked at any more
EndOfSteps ==
  /\ pc = "loop" /\ next > Len(steps)
  /\ IF failures THEN Finish("failed", AssertionFailed, "nil") ELSE Finish("passed", OK, "nil")
  /\ UNCHANGED <<configVars, worldVars, next, selectedPort, uses, launched, stepResults,
                 failures, serialLog, artifacts>>

plausible(p) == p \notin Bluetooth /\ (p \in Marked \/ p \in HasIDs)

(* Seeded fault: of several candidates the first is taken. *)
SelectPort_First ==
  /\ pc = "port"
  /\ \/ /\ device # AutoPort
        /\ selectedPort' = device
        /\ Continue(Entry)
     \/ /\ device = AutoPort
        /\ selectedPort' \in {q \in plugged : plausible(q)}
        /\ Continue(Entry)
     \/ /\ device = AutoPort
        /\ Fail("serial port", SerialFailure, "error")
        /\ UNCHANGED selectedPort
  /\ UNCHANGED <<configVars, worldVars, next, uses, launched, failures, serialLog, artifacts>>

(* serial.SelectPort: the configured port as it stands, or the only        *)
(* plausible one; none, several (AmbiguousPortError) and a failed ListPorts*)
(* end the run.                                                            *)
SelectPort ==
  /\ pc = "port"
  /\ \/ /\ device # AutoPort
        /\ selectedPort' = device
        /\ Continue(Entry)
     \/ /\ device = AutoPort
        /\ \E p \in Ports : {q \in plugged : plausible(q)} = {p} /\ selectedPort' = p
        /\ Continue(Entry)
     \/ /\ device = AutoPort
        /\ Fail("serial port", SerialFailure, "error")
        /\ UNCHANGED selectedPort
  /\ UNCHANGED <<configVars, worldVars, next, uses, launched, failures, serialLog, artifacts>>

-----------------------------------------------------------------------------
(* build and upload *)

(* Seeded fault: the process is started whatever the context says. *)
StartCommand_IgnoresContext ==
  /\ pc = "command"
  /\ Continue("running")
  /\ launched' = launched + 1
  /\ artifacts' = artifacts \cup {File(CurrentStep, "stdout"), File(CurrentStep, "stderr")}
  /\ uses' = IF CurrentStep = "upload"
             THEN Append(uses, [step |-> "upload", port |-> selectedPort]) ELSE uses
  /\ UNCHANGED <<configVars, worldVars, next, selectedPort, failures, serialLog>>

(* openCommandLogs truncates or creates both logs, then the process is     *)
(* started unless the context is done (exec.Cmd.Start).                    *)
StartCommand ==
  /\ pc = "command"
  /\ \/ /\ Fail(CurrentStep, EnvironmentFailure, "error")
        /\ artifacts' \in {artifacts, artifacts \cup {File(CurrentStep, "stdout")}}
        /\ UNCHANGED <<launched, uses>>
     \/ /\ IF canceled
           THEN /\ Record(CurrentStep, "interrupted")
                /\ Finish("interrupted", Interrupted, "canceled")
                /\ UNCHANGED <<launched, uses>>
           ELSE /\ Continue("running")
                /\ launched' = launched + 1
                /\ uses' = IF CurrentStep = "upload"
                           THEN Append(uses, [step |-> "upload", port |-> selectedPort])
                           ELSE uses
        /\ artifacts' = artifacts \cup {File(CurrentStep, "stdout"), File(CurrentStep, "stderr")}
  /\ UNCHANGED <<configVars, worldVars, next, selectedPort, failures, serialLog>>

(* Seeded faults: the run goes on after a failed process; a failed process *)
(* ends the run with the code of a failed port.                            *)
CommandEnds_GoesOn ==
  /\ pc = "running"
  /\ \E status \in {"passed", "failed"} : Record(CurrentStep, status)
  /\ next' = next + 1
  /\ pc' = "loop"
  /\ UNCHANGED <<configVars, worldVars, selectedPort, uses, launched, failures, serialLog,
                 artifacts, reportVars>>

CommandEnds_WrongCode ==
  /\ pc = "running"
  /\ Fail(CurrentStep, SerialFailure, "error")
  /\ UNCHANGED <<configVars, worldVars, next, selectedPort, uses, launched, failures,
                 serialLog, artifacts>>

(* The process exits with status zero or another, cannot be run or runs    *)
(* into its timeout; once the context is done the exit status is not       *)
(* looked at, but a timeout may have come first.                           *)
CommandEnds ==
  /\ pc = "running"
  /\ \/ ~canceled /\ StepPassed(CurrentStep)
     \/ Fail(CurrentStep, ExecutionFailure, "error") /\ UNCHANGED next
     \/ /\ canceled
        /\ Record(CurrentStep, "interrupted")
        /\ Finish("interrupted", Interrupted, "canceled")
        /\ UNCHANGED next
  /\ UNCHANGED <<configVars, worldVars, selectedPort, uses, launched, failures, serialLog,
                 artifacts>>

-----------------------------------------------------------------------------
(* monitor *)

(* openSerialWithRetry gives a stream, or fails at the boot timeout or     *)
(* when the context is done; either way the code is SerialFailure.  A      *)
(* signal that arrives after its last look at the context changes nothing. *)
OpenSerial ==
  /\ pc = "open"
  /\ \/ /\ selectedPort \in plugged
        /\ uses' = Append(uses, [step |-> "monitor", port |-> selectedPort])
        /\ Continue(IF reset THEN "reset" ELSE "log")
     \/ /\ \/ Fail("monitor", SerialFailure, "error")
           \/ canceled /\ Fail("monitor", SerialFailure, "canceled")
        /\ UNCHANGED uses
  /\ UNCHANGED <<configVars, worldVars, next, selectedPort, launched, failures, serialLog,
                 artifacts>>

\* DTR and RTS are toggled, with pauses that a signal cuts short
ResetBoard ==
  /\ pc = "reset"
  /\ \/ Continue("log")
     \/ Fail("monitor", SerialFailure, "error")
     \/ canceled /\ Fail("monitor", SerialFailure, "canceled")
  /\ UNCHANGED <<configVars, worldVars, next, selectedPort, uses, launched, failures,
                 serialLog, artifacts>>

\* serial.log is opened with O_TRUNC
OpenSerialLog ==
  /\ pc = "log"
  /\ \/ Continue("capture") /\ serialLog' = {}
     \/ Fail("monitor", EnvironmentFailure, "error") /\ UNCHANGED serialLog
  /\ UNCHANGED <<configVars, worldVars, next, selectedPort, uses, launched, failures, artifacts>>

(* captureSerial finishes its window with or without a failed assertion,   *)
(* is interrupted or loses the port; some assertions may have failed       *)
(* before.  The step itself passes even when an assertion fails.           *)
CaptureSerial ==
  /\ pc = "capture"
  /\ \/ StepPassed("monitor") /\ UNCHANGED failures
     \/ /\ Record("monitor", "passed")
        /\ failures' = TRUE
        /\ Finish("failed", AssertionFailed, "nil")
        /\ UNCHANGED next
     \/ /\ canceled
        /\ Record("monitor", "interrupted")
        /\ failures' \in {failures, TRUE}
        /\ Finish("interrupted", Interrupted, "canceled")
        /\ UNCHANGED next
     \/ /\ Fail("monitor", SerialFailure, "error")
        /\ failures' \in {failures, TRUE}
        /\ UNCHANGED next
  /\ serialLog' = serialLog \cup {next}
  /\ UNCHANGED <<configVars, worldVars, selectedPort, uses, launched, artifacts>>

(* The evaluator may panic (module Evaluator, EvidencePanics); main        *)
(* recovers and exits without a report.                                    *)
EvaluatorPanics ==
  /\ pc = "capture"
  /\ pc' = "exited"
  /\ exit' = EnvironmentFailure
  /\ serialLog' = serialLog \cup {next}
  /\ UNCHANGED <<configVars, worldVars, next, selectedPort, uses, launched, stepResults,
                 failures, artifacts, result, json>>

-----------------------------------------------------------------------------
(* The end of the run *)

(* finish: result.json is written; if it cannot be, a run that had no      *)
(* error gets one.                                                         *)
WriteResult ==
  /\ pc = "finish"
  /\ \/ json' = [status |-> result.status, code |-> result.code] /\ UNCHANGED result
     \/ /\ result' = IF result.err = "nil"
                     THEN [status |-> "failed", code |-> EnvironmentFailure, err |-> "error"]
                     ELSE result
        /\ UNCHANGED json
  /\ pc' = "return"
  /\ UNCHANGED <<configVars, worldVars, next, selectedPort, uses, launched, stepResults,
                 failures, serialLog, artifacts, exit>>

(* Seeded fault: every error exits with 1. *)
Exit_One ==
  /\ pc = "return"
  /\ pc' = "exited"
  /\ exit' = IF result.code = OK THEN OK ELSE 1
  /\ UNCHANGED <<configVars, worldVars, next, selectedPort, uses, launched, stepResults,
                 failures, serialLog, artifacts, result, json>>

\* runTest: a canceled context exits with 130, whatever Run's code
Exit ==
  /\ pc = "return"
  /\ pc' = "exited"
  /\ exit' = IF result.err = "canceled" THEN Interrupted ELSE result.code
  /\ UNCHANGED <<configVars, worldVars, next, selectedPort, uses, launched, stepResults,
                 failures, serialLog, artifacts, result, json>>

Exited ==
  /\ pc = "exited"
  /\ UNCHANGED vars

Run ==
  \/ CreateRunDir \/ WriteConfig \/ Verify
  \/ BeginStep \/ EndOfSteps \/ SelectPort
  \/ StartCommand \/ CommandEnds
  \/ OpenSerial \/ ResetBoard \/ OpenSerialLog \/ CaptureSerial \/ EvaluatorPanics
  \/ WriteResult \/ Exit

Next == Signal \/ PortsChange \/ Run \/ Exited

Spec == Init /\ [][Next]_vars

-----------------------------------------------------------------------------
(* Properties *)

(* Exit code 0 is never wrong: every configured step ran, in order, and    *)
(* passed, no assertion failed, and result.json says so too, whatever was  *)
(* interrupted, unplugged or not writable on the way (Run, finish,         *)
(* runTest; README.md:184).                                                *)
ExitZeroMeansAllPassed ==
  exit = OK =>
    /\ stepResults = [i \in 1..Len(steps) |-> [name |-> steps[i], status |-> "passed"]]
    /\ ~failures
    /\ json = [status |-> "passed", code |-> OK]

(* The exit code names what ended the run (README.md:182-190): 2 a failed  *)
(* assertion, 5 a failed build or upload, 6 a failed port or monitor, 130  *)
(* a signal; and a failed assertion never ends in 0.                       *)
ExitNamesTheCause ==
  LET last == stepResults[Len(stepResults)] IN
  /\ exit = AssertionFailed => failures
  /\ exit = ExecutionFailure => last.name \in {"build", "upload"} /\ last.status = "failed"
  /\ exit = SerialFailure => last.name \in {"serial port", "monitor"} /\ last.status = "failed"
  /\ exit = Interrupted => canceled
  /\ failures => exit # OK

(* Firmware is never uploaded to one board and judged by the output of     *)
(* another: all uploads and monitors of a run use one port, although ports *)
(* come and go (the cached selectedPort of Run).                           *)
OnePortPerRun ==
  \A i, j \in DOMAIN uses : uses[i].port = uses[j].port

(* `auto` never guesses: when a board is plugged in during the whole run,  *)
(* no other port is uploaded to or read from, and with two such boards     *)
(* none is, whatever else comes and goes between the looks at the ports    *)
(* and the steps (SelectPort, the cached selectedPort of Run;              *)
(* README.md:150, docs/test-format.md:71).                                 *)
AutoNeverGuesses ==
  device = AutoPort =>
    \A p \in steady : plausible(p) => \A i \in DOMAIN uses : uses[i].port = p

(* Once a signal has arrived no further process is started, and none is    *)
(* started after a step has failed (ctx.Err() in the loop, the returns     *)
(* after each step).                                                       *)
NothingStartsAfterTheEnd ==
  [][launched' # launched =>
       /\ ~canceled
       /\ \A i \in DOMAIN stepResults : stepResults[i].status = "passed"]_vars

(* internal/runner/runner_test.go:185-189: a run that exits with code 130  *)
(* has the final status "interrupted".                                     *)
InterruptedRunSaysSo ==
  exit = Interrupted => result.status = "interrupted"

(* README.md:194: "Each valid test run creates" seven files - a run that   *)
(* exits 0 has left them all.                                              *)
AllArtifactsWritten ==
  exit = OK =>
    /\ artifacts = {File("config", "yaml")} \cup
                   {File(s, f) : s \in {"build", "upload"}, f \in {"stdout", "stderr"}}
    /\ serialLog # {}

(* docs/troubleshooting.md:94: "The full timestamped serial capture is     *)
(* stored in" serial.log - the output of every monitor step of a run that  *)
(* exits 0.                                                                *)
SerialLogIsFull ==
  exit = OK => serialLog = {i \in DOMAIN steps : steps[i] = "monitor"}
=============================================================================
