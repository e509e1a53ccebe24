------------------------------- MODULE System -------------------------------
(***************************************************************************)
(* A run put together from its parts: Runner, with the opening of the port *)
(* done step by step by OpenRetry and the monitor by Capture, under one    *)
(* context and with one set of ports.  Run calls one of them at a time.    *)
(*                                                                         *)
(* Where Runner lets openSerialWithRetry and captureSerial end in any of   *)
(* their ways, what they return decides here; that this is still a run as  *)
(* Runner describes it is the property Spec.                               *)
(***************************************************************************)
EXTENDS Runner

CONSTANTS
  Interval, BootTimeout, MaxOpenTime,
  Required, Forbidden, Within, Chunk, Shown, Duration, DiskMayFill, MaxSent, MaxTime

\* the assertions and the window of every monitor step are those of Capture
ASSUME SystemAssumption ==
  /\ Required \cap Forbidden = {}
  /\ Within \in [Required -> Nat]
  /\ Shown \in [Chunk -> SUBSET (Required \cup Forbidden)]
  /\ Duration \in Nat /\ MaxTime \in Nat /\ MaxSent \in Nat
  /\ Duration <= MaxTime
  /\ DiskMayFill \in BOOLEAN

VARIABLES
  clock, retryPc, wake, opened, tries, lastTry, late,
  now, captureDone, link, sent, taken, takenInWindow, streamClosed, readerPc, held, heldErr,
  events, mainPc, outcome, heard, log, results,
  portOpen     \* the process has the serial port open

retryVars   == <<clock, retryPc, wake, opened, tries, lastTry, late>>
captureVars == <<now, captureDone, link, sent, taken, takenInWindow, streamClosed, readerPc,
                 held, heldErr, events, mainPc, outcome, heard, log, results>>
partVars    == <<retryVars, captureVars, portOpen>>
sysVars     == <<vars, partVars>>

Open == INSTANCE OpenRetry WITH MaxTime <- MaxOpenTime, openable <- (selectedPort \in plugged)

Monitor == INSTANCE Capture WITH interrupted <- canceled

SysInit ==
  /\ Init
  /\ clock = 0 /\ retryPc = "look" /\ wake = 0 /\ opened = "none"
  /\ tries = 0 /\ lastTry = 0 /\ late = 0
  /\ now = 0 /\ captureDone = "open" /\ link = "up" /\ sent = <<>> /\ taken = 0
  /\ takenInWindow = 0 /\ streamClosed = FALSE /\ readerPc = "read" /\ held = <<>>
  /\ heldErr = "none" /\ events = <<>> /\ mainPc = "select" /\ outcome = "none"
  /\ heard = <<>> /\ log = <<>> /\ results = {}
  /\ portOpen = FALSE

-----------------------------------------------------------------------------
(* The environment *)

\* ctx is the parent of captureCtx
SysSignal ==
  /\ Signal
  /\ captureDone' = IF pc = "capture" /\ captureDone = "open" THEN "canceled" ELSE captureDone
  /\ UNCHANGED <<retryVars, now, link, sent, taken, takenInWindow, streamClosed, readerPc, held,
                 heldErr, events, mainPc, outcome, heard, log, results, portOpen>>

\* only the moment of a try can tell
SysPortsChange ==
  /\ PortsChange
  /\ pc = "open" => retryPc = "open"
  /\ UNCHANGED partVars

\* what needs no part of its own
Simple ==
  /\ \/ CreateRunDir \/ WriteConfig \/ Verify \/ BeginStep \/ EndOfSteps \/ SelectPort
     \/ StartCommand \/ CommandEnds \/ WriteResult \/ Exit \/ Exited
  /\ UNCHANGED partVars

-----------------------------------------------------------------------------
(* runMonitor *)

OpenTick ==
  /\ pc = "open"
  /\ UNCHANGED <<vars, captureVars, portOpen>>
  /\ Open!Tick

\* a step of openSerialWithRetry, and what runMonitor makes of its result
TryToOpen ==
  /\ pc = "open"
  /\ UNCHANGED <<configVars, worldVars, next, selectedPort, launched, failures, serialLog,
                 artifacts, captureVars>>
  /\ Open!Retry
  /\ \/ /\ opened' = "none"
        /\ UNCHANGED <<pc, uses, stepResults, reportVars, portOpen>>
     \/ /\ opened' = "stream"
        /\ uses' = Append(uses, [step |-> "monitor", port |-> selectedPort])
        /\ portOpen' = TRUE
        /\ Continue(IF reset THEN "reset" ELSE "log")
     \/ /\ opened' \in {"canceled", "error"}
        /\ Fail("monitor", SerialFailure, opened')
        /\ UNCHANGED <<uses, portOpen>>

(* Seeded fault: the port stays open after a failed reset. *)
SysResetBoard_LeavesPort ==
  /\ ResetBoard
  /\ UNCHANGED partVars

\* a failed reset returns from runMonitor, whose defer closes the stream
SysResetBoard ==
  /\ ResetBoard
  /\ portOpen' = (pc' = "log")
  /\ UNCHANGED <<retryVars, captureVars>>

(* captureSerial is called: a new context, channel, reader and evaluator;  *)
(* a context made from one that is done is done.  The opening of the port  *)
(* is over and may begin anew in a later step.                             *)
BeginCapture ==
  /\ clock' = 0 /\ retryPc' = "look" /\ wake' = 0 /\ opened' = "none"
  /\ tries' = 0 /\ lastTry' = 0 /\ late' = 0
  /\ now' = 0 /\ captureDone' = (IF canceled THEN "canceled" ELSE "open")
  /\ link' = "up" /\ sent' = <<>> /\ taken' = 0 /\ takenInWindow' = 0
  /\ streamClosed' = FALSE /\ readerPc' = "read" /\ held' = <<>> /\ heldErr' = "none"
  /\ events' = <<>> /\ mainPc' = "select" /\ outcome' = "none"
  /\ heard' = <<>> /\ log' = <<>> /\ results' = {}

SysOpenSerialLog ==
  /\ OpenSerialLog
  /\ portOpen' = (pc' = "capture")
  /\ IF pc' = "capture" THEN BeginCapture ELSE UNCHANGED <<retryVars, captureVars>>

\* the reader, the device, the timer and the clock during a monitor
CaptureRuns ==
  /\ pc = "capture"
  /\ UNCHANGED <<vars, retryVars, portOpen>>
  /\ Monitor!Reader \/ Monitor!Tick \/ Monitor!Expire \/ Monitor!DeviceSends \/ Monitor!DeviceEnds

(* Seeded fault: the results are looked at before Finish has added its own.*)
AssertionFails_BeforeFinish == \E r \in results : ~r.passed

\* hasAssertionFailure, of all that captureSerial returns
AssertionFails == \E r \in results' : ~r.passed

(* Seeded fault: the run goes on after a failed assertion. *)
MonitorEnds_GoesOn ==
  /\ portOpen' = FALSE
  /\ serialLog' = serialLog \cup {next}
  /\ failures' = IF AssertionFails THEN TRUE ELSE failures
  /\ IF outcome' = "failed"
     THEN Fail("monitor", SerialFailure, "error") /\ UNCHANGED next
     ELSE StepPassed("monitor")

(* captureSerial has returned: what runMonitor and Run make of its error   *)
(* and its results.                                                        *)
MonitorEnds ==
  /\ portOpen' = FALSE
  /\ serialLog' = serialLog \cup {next}
  /\ failures' = IF AssertionFails THEN TRUE ELSE failures
  /\ \/ /\ outcome' = "finished" /\ ~AssertionFails
        /\ StepPassed("monitor")
     \/ /\ outcome' = "finished" /\ AssertionFails
        /\ Record("monitor", "passed")
        /\ Finish("failed", AssertionFailed, "nil")
        /\ UNCHANGED next
     \/ /\ outcome' = "canceled"
        /\ Record("monitor", "interrupted")
        /\ Finish("interrupted", Interrupted, "canceled")
        /\ UNCHANGED next
     \/ /\ outcome' = "failed"
        /\ Fail("monitor", SerialFailure, "error")
        /\ UNCHANGED next

CaptureMain ==
  /\ pc = "capture"
  /\ UNCHANGED <<configVars, worldVars, selectedPort, uses, launched, artifacts, retryVars>>
  /\ Monitor!Main
  /\ IF outcome' = "none"
     THEN UNCHANGED <<pc, next, stepResults, failures, serialLog, reportVars, portOpen>>
     ELSE MonitorEnds

\* a panic runs the deferred Close, too; it comes with a chunk
SysEvaluatorPanics ==
  /\ EvaluatorPanics
  /\ mainPc = "select" /\ events # <<>>
  /\ portOpen' = FALSE
  /\ UNCHANGED <<retryVars, captureVars>>

RunStep ==
  \/ Simple
  \/ TryToOpen \/ SysResetBoard \/ SysOpenSerialLog
  \/ CaptureMain \/ SysEvaluatorPanics

SysNext == SysSignal \/ SysPortsChange \/ RunStep \/ OpenTick \/ CaptureRuns

SysSpec == SysInit /\ [][SysNext]_sysVars

(* The goroutines run, clocks go on and timers fire.  Build and upload are *)
(* taken to end, which PlatformIO shows only when no descendant of pio     *)
(* holds the pipes.                                                        *)
SysFairness ==
  /\ WF_sysVars(RunStep)
  /\ WF_sysVars(OpenTick)
  /\ WF_sysVars(CaptureRuns /\ Monitor!Reader)
  /\ WF_sysVars(CaptureRuns /\ Monitor!Tick)
  /\ WF_sysVars(CaptureRuns /\ Monitor!Expire)

FairSysSpec == SysSpec /\ SysFairness

-----------------------------------------------------------------------------
(* Properties *)

(* What a run promises of its last monitor: the device sent every required *)
(* value by its deadline, and nothing that was heard shows a forbidden one.*)
Earned ==
  /\ \A a \in Required :
       \E i \in DOMAIN sent : a \in Shown[sent[i].chunk] /\ sent[i].at <= Within[a]
  /\ \A a \in Forbidden : ~Monitor!ShowsIn(a, heard)

(* A monitor step after which the run goes on has earned it, and exit code *)
(* 0 of a run with a monitor says so, whatever has come between the device *)
(* and the exit code (captureSerial, hasAssertionFailure, Run, finish,     *)
(* runTest).                                                               *)
PassedIsEarned ==
  /\ outcome = "finished" /\ ~failures => Earned
  /\ exit = OK /\ (\E i \in DOMAIN steps : steps[i] = "monitor") => Earned

(* When a command runs or the process has ended, the port is not held by   *)
(* an earlier monitor, however that ended: an upload after a monitor finds *)
(* it free (defer stream.Close() of runMonitor).                           *)
PortIsReleased == pc \notin {"reset", "log", "capture"} => ~portOpen

(* A run comes to an end whatever the device, the ports and the user do,   *)
(* provided that its commands do (Run, openSerialWithRetry, captureSerial).*)
RunEnds == <>(pc = "exited")
=============================================================================
