---------------------------- MODULE SystemProofs -----------------------------
(***************************************************************************)
(* The composed system implements Runner, for all values of the constants: *)
(* each way in which openSerialWithRetry and captureSerial really end is   *)
(* one that Runner lets them end in.                                       *)
(*                                                                         *)
(* What CaptureProofs shows of one monitor holds of every monitor of a     *)
(* run, because a run takes the steps of Capture while captureSerial runs  *)
(* and leaves its state alone or starts it anew otherwise (CaptureKept).   *)
(***************************************************************************)
EXTENDS System, RunnerProofs, TLAPS

(* A result of the opening of the port is there only once the port is no   *)
(* longer being opened, one of the capture only once it is over.           *)
PartsInv ==
  /\ opened # "none" => pc \in {"reset", "log", "finish", "return", "exited"}
  /\ pc = "capture" => outcome = "none"

LEMMA InitParts == SysInit => Init /\ PartsInv
  BY DEF SysInit, Init, PartsInv

-----------------------------------------------------------------------------
(* The opening of the port *)

LEMMA TryIsRunner ==
  PartsInv /\ TryToOpen => (OpenSerial \/ UNCHANGED vars) /\ PartsInv'
  <1> SUFFICES ASSUME PartsInv, TryToOpen PROVE (OpenSerial \/ UNCHANGED vars) /\ PartsInv'
    OBVIOUS
  <1> USE DEF TryToOpen
  <1>1. pc = "open" /\ opened = "none"
    BY DEF PartsInv
  <1>2. CASE opened' = "none"
    <2>1. UNCHANGED vars
      BY <1>1, <1>2 DEF configVars, worldVars, runVars, reportVars, vars, Fail, Finish, Continue
    <2>2. PartsInv'
      BY <1>1, <1>2, <2>1 DEF PartsInv, vars, runVars
    <2> QED
      BY <2>1, <2>2
  <1>3. CASE opened' = "stream"
    <2>1. selectedPort \in plugged
      BY <1>1, <1>3 DEF Open!Retry, Open!Look, Open!Try, Open!Check, Open!Deadline, Open!Pause,
                        Open!Wake, Open!SleepCanceled, Open!Return, Open!Goto
    <2>2. OpenSerial
      BY <1>1, <1>3, <2>1 DEF OpenSerial
    <2>3. pc' \in {"reset", "log"}
      BY <1>3 DEF Continue
    <2>4. PartsInv'
      BY <2>3 DEF PartsInv
    <2> QED
      BY <2>2, <2>4
  <1>4. CASE opened' \in {"canceled", "error"}
    <2>1. opened' = "canceled" => canceled
      BY <1>1, <1>4 DEF Open!Retry, Open!Look, Open!Try, Open!Check, Open!Deadline, Open!Pause,
                        Open!Wake, Open!SleepCanceled, Open!Return, Open!Goto
    <2>2. OpenSerial
      BY <1>1, <1>4, <2>1 DEF OpenSerial
    <2>3. pc' = "finish"
      BY <1>4 DEF Fail, Finish
    <2>4. PartsInv'
      BY <2>3 DEF PartsInv
    <2> QED
      BY <2>2, <2>4
  <1> QED
    BY <1>2, <1>3, <1>4

-----------------------------------------------------------------------------
(* The monitor *)

LEMMA CaptureIsRunner ==
  PartsInv /\ CaptureMain => (CaptureSerial \/ UNCHANGED vars) /\ PartsInv'
  <1> SUFFICES ASSUME PartsInv, CaptureMain
               PROVE  (CaptureSerial \/ UNCHANGED vars) /\ PartsInv'
    OBVIOUS
  <1>1. pc = "capture" /\ outcome = "none" /\ opened = "none" /\ opened' = "none"
    BY DEF PartsInv, CaptureMain, retryVars
  <1>2. CASE outcome' = "none"
    <2>1. UNCHANGED vars
      BY <1>2 DEF CaptureMain, configVars, worldVars, runVars, reportVars, vars
    <2> QED
      BY <1>1, <1>2, <2>1 DEF PartsInv, vars, runVars
  <1>3. CASE outcome' # "none"
    <2>1. MonitorEnds
      BY <1>3 DEF CaptureMain
    <2>2. outcome' = "canceled" => canceled
      BY <1>1 DEF CaptureMain, Monitor!Main, Monitor!MainTakesDone, Monitor!MainDecides,
                  Monitor!MainTakesData, Monitor!MainTakesError, Monitor!Return
    <2>3. failures' = failures \/ failures' = TRUE
      BY <2>1 DEF MonitorEnds
    <2> DEFINE Rest == /\ serialLog' = serialLog \cup {next}
                       /\ UNCHANGED <<configVars, worldVars, selectedPort, uses, launched, artifacts>>
    <2>4. pc = "capture" /\ Rest
      BY <1>1, <2>1 DEF CaptureMain, MonitorEnds
    <2>5. CASE outcome' = "finished" /\ ~AssertionFails
      <3>1. StepPassed("monitor")
        BY <2>1, <2>5 DEF MonitorEnds
      <3>2. failures' = failures
        BY <2>1, <2>5 DEF MonitorEnds
      <3>3. CaptureSerial
        BY <2>4, <3>1, <3>2 DEF CaptureSerial
      <3> QED
        BY <1>1, <3>1, <3>3 DEF StepPassed, PartsInv
    <2>6. CASE outcome' = "finished" /\ AssertionFails
      <3>1. /\ Record("monitor", "passed")
            /\ Finish("failed", AssertionFailed, "nil")
            /\ UNCHANGED next
        BY <2>1, <2>6 DEF MonitorEnds
      <3>2. failures' = TRUE
        BY <2>1, <2>6 DEF MonitorEnds
      <3>3. CaptureSerial
        BY <2>4, <3>1, <3>2 DEF CaptureSerial
      <3> QED
        BY <1>1, <3>1, <3>3 DEF Finish, PartsInv
    <2>7. CASE outcome' = "canceled"
      <3>1. /\ Record("monitor", "interrupted")
            /\ Finish("interrupted", Interrupted, "canceled")
            /\ UNCHANGED next
        BY <2>1, <2>7 DEF MonitorEnds
      <3>2. CaptureSerial
        BY <2>2, <2>3, <2>4, <2>7, <3>1 DEF CaptureSerial
      <3> QED
        BY <1>1, <3>1, <3>2 DEF Finish, PartsInv
    <2>8. CASE outcome' = "failed"
      <3>1. Fail("monitor", SerialFailure, "error") /\ UNCHANGED next
        BY <2>1, <2>8 DEF MonitorEnds
      <3>2. CaptureSerial
        BY <2>3, <2>4, <3>1 DEF CaptureSerial
      <3> QED
        BY <1>1, <3>1, <3>2 DEF Fail, Finish, PartsInv
    <2> QED
      BY <2>1, <2>5, <2>6, <2>7, <2>8 DEF MonitorEnds
  <1> QED
    BY <1>2, <1>3

LEMMA LogIsRunner ==
  PartsInv /\ (SysOpenSerialLog \/ SysResetBoard) =>
    (OpenSerialLog \/ ResetBoard) /\ PartsInv'
  <1> SUFFICES ASSUME PartsInv, SysOpenSerialLog \/ SysResetBoard
               PROVE  (OpenSerialLog \/ ResetBoard) /\ PartsInv'
    OBVIOUS
  <1>1. CASE SysOpenSerialLog
    <2>1. OpenSerialLog
      BY <1>1 DEF SysOpenSerialLog
    <2>2. pc' \in {"capture", "finish"}
      BY <2>1 DEF OpenSerialLog, Continue, Fail, Finish
    <2>3. CASE pc' = "capture"
      BY <1>1, <2>1, <2>3 DEF SysOpenSerialLog, BeginCapture, PartsInv
    <2>4. CASE pc' = "finish"
      BY <2>1, <2>4 DEF PartsInv
    <2> QED
      BY <2>2, <2>3, <2>4
  <1>2. CASE SysResetBoard
    <2>1. ResetBoard /\ UNCHANGED opened
      BY <1>2 DEF SysResetBoard, retryVars
    <2>2. pc' \in {"log", "finish"}
      BY <2>1 DEF ResetBoard, Continue, Fail, Finish
    <2> QED
      BY <2>1, <2>2 DEF PartsInv
  <1> QED
    BY <1>1, <1>2

-----------------------------------------------------------------------------
(* The other steps *)

LEMMA SimpleIsRunner == PartsInv /\ Simple => Next /\ PartsInv'
  <1> SUFFICES ASSUME PartsInv, Simple PROVE Next /\ PartsInv'
    OBVIOUS
  <1>1. Next
    BY DEF Simple, Next, Run
  <1>2. UNCHANGED <<opened, outcome>>
    BY DEF Simple, partVars, retryVars, captureVars
  <1>3. pc \notin {"reset", "log", "capture"} /\ pc' # "capture"
    BY DEF Simple, CreateRunDir, WriteConfig, Verify, BeginStep, EndOfSteps, SelectPort, StartCommand,
           CommandEnds, WriteResult, Exit, Exited, vars, runVars, Continue, Fail, Finish, StepPassed, Entry
  <1>4. pc \in {"finish", "return", "exited"} => pc' \in {"return", "exited"}
    BY DEF Simple, CreateRunDir, WriteConfig, Verify, BeginStep, EndOfSteps, SelectPort, StartCommand,
           CommandEnds, WriteResult, Exit, Exited, vars, runVars
  <1> QED
    BY <1>1, <1>2, <1>3, <1>4 DEF PartsInv

LEMMA StepIsRunner == PartsInv /\ [SysNext]_sysVars => [Next]_vars /\ PartsInv'
  <1> SUFFICES ASSUME PartsInv, [SysNext]_sysVars PROVE [Next]_vars /\ PartsInv'
    OBVIOUS
  <1>1. CASE Simple
    BY <1>1, SimpleIsRunner
  <1>2. CASE TryToOpen
    BY <1>2, TryIsRunner DEF Next, Run
  <1>3. CASE CaptureMain
    BY <1>3, CaptureIsRunner DEF Next, Run
  <1>4. CASE SysOpenSerialLog \/ SysResetBoard
    BY <1>4, LogIsRunner DEF Next, Run
  <1>5. CASE SysEvaluatorPanics
    <2>1. EvaluatorPanics /\ pc' = "exited"
      BY <1>5 DEF SysEvaluatorPanics, EvaluatorPanics
    <2> QED
      BY <2>1 DEF Next, Run, PartsInv
  <1>6. CASE SysSignal
    <2>1. Signal /\ UNCHANGED <<pc, opened, outcome>>
      BY <1>6 DEF SysSignal, Signal, retryVars, runVars
    <2> QED
      BY <2>1 DEF Next, PartsInv
  <1>7. CASE SysPortsChange
    <2>1. PortsChange /\ UNCHANGED <<pc, opened, outcome>>
      BY <1>7 DEF SysPortsChange, PortsChange, partVars, retryVars, captureVars, runVars
    <2> QED
      BY <2>1 DEF Next, PartsInv
  <1>8. CASE OpenTick
    <2>1. UNCHANGED vars /\ UNCHANGED <<pc, opened, outcome>>
      BY <1>8 DEF OpenTick, Open!Tick, Open!retryVars, captureVars, vars, runVars
    <2> QED
      BY <2>1 DEF PartsInv
  <1>9. CASE CaptureRuns
    <2>1. UNCHANGED vars /\ UNCHANGED <<pc, opened>>
      BY <1>9 DEF CaptureRuns, retryVars, vars, runVars
    <2>2. UNCHANGED outcome
      BY <1>9 DEF CaptureRuns, Monitor!Reader, Monitor!ReaderTakes, Monitor!ReaderFails,
                  Monitor!ReaderSendsData, Monitor!ReaderSendsError, Monitor!ReaderGivesUp,
                  Monitor!Tick, Monitor!Expire, Monitor!DeviceSends, Monitor!DeviceEnds, Monitor!mainVars
    <2> QED
      BY <2>1, <2>2 DEF PartsInv
  <1>10. CASE UNCHANGED sysVars
    BY <1>10 DEF sysVars, vars, runVars, partVars, retryVars, captureVars, PartsInv
  <1> QED
    BY <1>1, <1>2, <1>3, <1>4, <1>5, <1>6, <1>7, <1>8, <1>9, <1>10 DEF SysNext, RunStep

(* The run put together from its parts is a run as Runner describes it, so *)
(* everything proved of Runner holds of it, whatever the ports, the        *)
(* chunks, the deadlines and the step lists.                               *)
THEOREM SystemImplementsRunner == SysSpec => Spec
  BY InitParts, StepIsRunner, PTL DEF SysSpec, Spec

-----------------------------------------------------------------------------
(* The port *)

PortClosedInv == portOpen => pc \in {"reset", "log", "capture"}

LEMMA PortKept == PortClosedInv /\ [SysNext]_sysVars => PortClosedInv'
  <1> SUFFICES ASSUME PortClosedInv, [SysNext]_sysVars PROVE PortClosedInv'
    OBVIOUS
  <1>1. CASE Simple
    <2>1. pc \notin {"reset", "log", "capture"} /\ UNCHANGED portOpen
      BY <1>1 DEF Simple, partVars, CreateRunDir, WriteConfig, Verify, BeginStep, EndOfSteps,
                  SelectPort, StartCommand, CommandEnds, WriteResult, Exit, Exited
    <2> QED
      BY <2>1 DEF PortClosedInv
  <1>2. CASE TryToOpen
    BY <1>2 DEF TryToOpen, Continue, PortClosedInv
  <1>3. CASE SysResetBoard
    BY <1>3 DEF SysResetBoard, PortClosedInv
  <1>4. CASE SysOpenSerialLog
    BY <1>4 DEF SysOpenSerialLog, PortClosedInv
  <1>5. CASE CaptureMain
    BY <1>5 DEF CaptureMain, MonitorEnds, PortClosedInv
  <1>6. CASE SysEvaluatorPanics
    BY <1>6 DEF SysEvaluatorPanics, PortClosedInv
  <1>7. CASE SysSignal \/ SysPortsChange
    BY <1>7 DEF SysSignal, Signal, SysPortsChange, PortsChange, partVars, runVars, PortClosedInv
  <1>8. CASE OpenTick \/ CaptureRuns
    BY <1>8 DEF OpenTick, CaptureRuns, vars, runVars, PortClosedInv
  <1>9. CASE UNCHANGED sysVars
    BY <1>9 DEF sysVars, vars, runVars, partVars, PortClosedInv
  <1> QED
    BY <1>1, <1>2, <1>3, <1>4, <1>5, <1>6, <1>7, <1>8, <1>9 DEF SysNext, RunStep

(* A monitor never leaves the port open behind it: no command is started,  *)
(* no other opening begun and no process ended with the port still held    *)
(* (the deferred Close of runMonitor).                                     *)
THEOREM PortIsFree == SysSpec => []PortIsReleased
  <1>1. SysInit => PortClosedInv
    BY DEF SysInit, PortClosedInv
  <1>2. PortClosedInv => PortIsReleased
    BY DEF PortClosedInv, PortIsReleased
  <1> QED
    BY <1>1, <1>2, PortKept, PTL DEF SysSpec

-----------------------------------------------------------------------------
(* The state of the monitor *)

Proved == INSTANCE CaptureProofs WITH interrupted <- canceled

CaptureInv == Proved!TypeOK /\ Proved!FlowInv /\ Proved!EndInv /\ Proved!JudgedInv

LEMMA CaptureStep == CaptureInv /\ [Proved!Next]_(Proved!vars) => CaptureInv'
  <1>1. Proved!TypeOK /\ [Proved!Next]_(Proved!vars) => Proved!TypeOK'
    BY SystemAssumption, Proved!TypeStep
  <1> QED
    BY <1>1, SystemAssumption, Proved!FlowStep, Proved!EndStep, Proved!JudgedStep DEF CaptureInv

(* The steps of a monitor within a run are those of Capture. *)
LEMMA ReaderIsCapture == Monitor!Reader => Proved!Reader
  BY DEF Monitor!Reader, Monitor!ReaderTakes, Monitor!ReaderFails, Monitor!ReaderSendsData,
         Monitor!ReaderSendsError, Monitor!ReaderGivesUp, Monitor!deviceVars, Monitor!mainVars,
         Monitor!ctxVars,
         Proved!Reader, Proved!ReaderTakes, Proved!ReaderFails, Proved!ReaderSendsData,
         Proved!ReaderSendsError, Proved!ReaderGivesUp, Proved!deviceVars, Proved!mainVars,
         Proved!ctxVars

LEMMA OutsideIsCapture ==
  Monitor!Tick \/ Monitor!Expire \/ Monitor!DeviceSends \/ Monitor!DeviceEnds => Proved!Next
  BY DEF Monitor!Tick, Monitor!Expire, Monitor!DeviceSends, Monitor!DeviceEnds,
         Monitor!deviceVars, Monitor!readerVars, Monitor!mainVars, Monitor!ctxVars,
         Proved!Tick, Proved!Expire, Proved!DeviceSends, Proved!DeviceEnds,
         Proved!deviceVars, Proved!readerVars, Proved!mainVars, Proved!ctxVars, Proved!Next

LEMMA MainIsCapture == Monitor!Main => Proved!Main
  <1> USE DEF Monitor!deviceVars, Monitor!readerVars, Monitor!ctxVars, Monitor!Return,
              Proved!deviceVars, Proved!readerVars, Proved!ctxVars, Proved!Return,
              Monitor!Verdicts!Undecided, Monitor!Verdicts!Verdict,
              Proved!Verdicts!Undecided, Proved!Verdicts!Verdict
  <1>1. Monitor!MainTakesDone => Proved!MainTakesDone
    BY DEF Monitor!MainTakesDone, Proved!MainTakesDone
  <1>2. \A at : Monitor!Verdicts!Finish(at) => Proved!Verdicts!Finish(at)
    BY DEF Monitor!Verdicts!Finish, Monitor!Verdicts!AbsentVerdicts,
           Proved!Verdicts!Finish, Proved!Verdicts!AbsentVerdicts
  <1>3. Monitor!MainDecides => Proved!MainDecides
    BY <1>2 DEF Monitor!MainDecides, Proved!MainDecides
  <1>4. Monitor!MainTakesData => Proved!MainTakesData
    BY DEF Monitor!MainTakesData, Proved!MainTakesData, Monitor!Verdicts!Observe,
           Proved!Verdicts!Observe, Monitor!Verdicts!ShownVerdicts,
           Proved!Verdicts!ShownVerdicts, Monitor!ShowsIn, Proved!ShowsIn
  <1>5. Monitor!MainTakesError => Proved!MainTakesError
    BY <1>2 DEF Monitor!MainTakesError, Proved!MainTakesError
  <1> QED
    BY <1>1, <1>3, <1>4, <1>5 DEF Monitor!Main, Proved!Main

(* A monitor that has just begun: nothing is sent, heard or judged yet,    *)
(* and its context may be done already.                                    *)
LEMMA FreshCapture ==
  ASSUME BeginCapture, canceled \in BOOLEAN, canceled' = canceled
  PROVE  CaptureInv'
  <1>1. /\ now' = 0 /\ link' = "up" /\ sent' = <<>> /\ taken' = 0 /\ takenInWindow' = 0
        /\ streamClosed' = FALSE /\ readerPc' = "read" /\ held' = <<>> /\ heldErr' = "none"
        /\ events' = <<>> /\ mainPc' = "select" /\ outcome' = "none"
        /\ heard' = <<>> /\ log' = <<>> /\ results' = {}
        /\ captureDone' \in {"open", "canceled"} /\ (captureDone' = "canceled" => canceled')
    BY DEF BeginCapture
  <1>2. Len(<<>>) = 0 /\ DOMAIN <<>> = {}
    OBVIOUS
  <1>3. Proved!TypeOK'
    <2>1. /\ \A S : <<>> \in Seq(S)
          /\ 0 \in 0..MaxTime /\ 0 \in 0..Len(<<>>) /\ 0 \in 0..0 /\ <<>> \in Proved!AtMostOne
      BY <1>2, SystemAssumption DEF Proved!AtMostOne
    <2>2. /\ now' \in 0..MaxTime /\ taken' \in 0..Len(sent') /\ takenInWindow' \in 0..taken'
          /\ sent' \in Seq(Proved!Message) /\ heard' \in Seq(Proved!Message)
          /\ log' \in Seq(Proved!Message) /\ events' \in Seq(Proved!Event) /\ Len(events') <= 1
          /\ held' \in Proved!AtMostOne
      BY <1>1, <1>2, <2>1
    <2>3. canceled' \in BOOLEAN /\ streamClosed' \in BOOLEAN
      BY <1>1
    <2> QED
      BY <1>1, <2>2, <2>3, Zenon DEF Proved!TypeOK
  <1>4. Proved!FlowInv'
    BY <1>1, <1>2 DEF Proved!FlowInv, Proved!InChannel, Proved!InHand, Proved!HeardInOrder
  <1>5. Proved!EndInv'
    BY <1>1 DEF Proved!EndInv, Proved!ByPresence
  <1>6. Proved!JudgedInv'
    BY <1>1, <1>2 DEF Proved!JudgedInv, Proved!Met, Proved!ShowsIn
  <1> QED
    BY <1>3, <1>4, <1>5, <1>6 DEF CaptureInv

(* A signal, whether or not a monitor runs. *)
LEMMA SignalKeepsCapture == CaptureInv /\ SysSignal => CaptureInv'
  <1> SUFFICES ASSUME CaptureInv, SysSignal PROVE CaptureInv'
    OBVIOUS
  <1>1. /\ ~canceled /\ canceled' = TRUE
        /\ UNCHANGED <<now, link, sent, taken, takenInWindow, streamClosed, readerPc, held,
                       heldErr, events, mainPc, outcome, heard, log, results>>
    BY DEF SysSignal, Signal
  <1>2. CASE pc = "capture"
    <2>1. Proved!Interrupt
      BY <1>1, <1>2 DEF SysSignal, Proved!Interrupt, Proved!deviceVars, Proved!readerVars, Proved!mainVars
    <2> QED
      BY <2>1, CaptureStep DEF Proved!Next
  <1>3. CASE pc # "capture"
    <2>1. UNCHANGED captureDone
      BY <1>3 DEF SysSignal
    <2>2. Proved!TypeOK'
      <3>1. canceled' \in BOOLEAN
        BY <1>1
      <3> QED
        BY <1>1, <2>1, <3>1, Zenon DEF CaptureInv, Proved!TypeOK
    <2>3. Proved!FlowInv'
      BY <1>1 DEF CaptureInv, Proved!FlowInv, Proved!InHand, Proved!InChannel, Proved!HeardInOrder
    <2>4. Proved!EndInv'
      BY <1>1, <2>1 DEF CaptureInv, Proved!EndInv, Proved!AtDeadline, Proved!AtEOF,
                        Proved!ByPresence, Proved!InHand, Proved!InChannel
    <2>5. Proved!JudgedInv'
      BY <1>1 DEF CaptureInv, Proved!JudgedInv, Proved!Met, Proved!InTime, Proved!Right,
                  Proved!ShowsIn, Proved!Verdicts!Undecided
    <2> QED
      BY <2>2, <2>3, <2>4, <2>5 DEF CaptureInv
  <1> QED
    BY <1>2, <1>3

LEMMA CaptureKept == CaptureInv /\ [SysNext]_sysVars => CaptureInv'
  <1> SUFFICES ASSUME CaptureInv, [SysNext]_sysVars PROVE CaptureInv'
    OBVIOUS
  <1>0. ASSUME UNCHANGED <<captureVars, canceled>> PROVE CaptureInv'
    <2>1. UNCHANGED Proved!vars
      BY <1>0 DEF captureVars, Proved!vars, Proved!deviceVars, Proved!readerVars, Proved!mainVars,
                  Proved!ctxVars
    <2> QED
      BY <2>1, CaptureStep
  <1>1. CASE Simple
    BY <1>0, <1>1 DEF Simple, partVars, CreateRunDir, WriteConfig, Verify, BeginStep, EndOfSteps,
                      SelectPort, StartCommand, CommandEnds, WriteResult, Exit, Exited, worldVars, vars
  <1>2. CASE TryToOpen
    BY <1>0, <1>2 DEF TryToOpen, worldVars
  <1>3. CASE SysResetBoard
    BY <1>0, <1>3 DEF SysResetBoard, ResetBoard, worldVars
  <1>4. CASE SysOpenSerialLog
    <2>1. canceled' = canceled
      BY <1>4 DEF SysOpenSerialLog, OpenSerialLog, worldVars
    <2>2. canceled \in BOOLEAN
      BY DEF CaptureInv, Proved!TypeOK
    <2> QED
      BY <1>0, <1>4, <2>1, <2>2, FreshCapture DEF SysOpenSerialLog
  <1>5. CASE CaptureMain
    <2>1. Proved!Next
      BY <1>5, MainIsCapture DEF CaptureMain, Proved!Next
    <2> QED
      BY <2>1, CaptureStep
  <1>6. CASE SysEvaluatorPanics
    BY <1>0, <1>6 DEF SysEvaluatorPanics, EvaluatorPanics, worldVars
  <1>7. CASE SysSignal
    BY <1>7, SignalKeepsCapture
  <1>8. CASE SysPortsChange
    BY <1>0, <1>8 DEF SysPortsChange, PortsChange, partVars
  <1>9. CASE OpenTick
    BY <1>0, <1>9 DEF OpenTick, vars, worldVars
  <1>10. CASE CaptureRuns
    <2>1. Proved!Next
      BY <1>10, ReaderIsCapture, OutsideIsCapture DEF CaptureRuns, Proved!Next
    <2> QED
      BY <2>1, CaptureStep
  <1>11. CASE UNCHANGED sysVars
    BY <1>0, <1>11 DEF sysVars, vars, worldVars, partVars
  <1> QED
    BY <1>1, <1>2, <1>3, <1>4, <1>5, <1>6, <1>7, <1>8, <1>9, <1>10, <1>11 DEF SysNext, RunStep

-----------------------------------------------------------------------------
(* What a run that goes on has earned *)

\* a monitor that ended with a failed assertion has made the run fail
EarnedInv == outcome = "finished" /\ ~failures => \A r \in results : r.passed

LEMMA EarnedKept == EarnedInv /\ PartsInv /\ [SysNext]_sysVars => EarnedInv'
  <1> SUFFICES ASSUME EarnedInv, PartsInv, [SysNext]_sysVars PROVE EarnedInv'
    OBVIOUS
  <1>0. ASSUME UNCHANGED <<outcome, results, failures>> PROVE EarnedInv'
    BY <1>0 DEF EarnedInv
  <1>1. CASE Simple
    BY <1>0, <1>1 DEF Simple, partVars, captureVars, CreateRunDir, WriteConfig, Verify, BeginStep,
                      EndOfSteps, SelectPort, StartCommand, CommandEnds, WriteResult, Exit, Exited,
                      vars, runVars
  <1>2. CASE TryToOpen
    BY <1>0, <1>2 DEF TryToOpen, captureVars
  <1>3. CASE SysResetBoard
    BY <1>0, <1>3 DEF SysResetBoard, ResetBoard, captureVars
  <1>4. CASE SysOpenSerialLog
    <2>1. failures' = failures
      BY <1>4 DEF SysOpenSerialLog, OpenSerialLog
    <2>2. outcome' = "none" \/ UNCHANGED <<outcome, results>>
      BY <1>4 DEF SysOpenSerialLog, BeginCapture, captureVars
    <2> QED
      BY <1>0, <2>1, <2>2 DEF EarnedInv
  <1>5. CASE CaptureMain
    <2>1. CASE outcome' = "none"
      BY <2>1 DEF EarnedInv
    <2>2. CASE outcome' # "none"
      BY <1>5, <2>2 DEF CaptureMain, MonitorEnds, AssertionFails, EarnedInv
    <2> QED
      BY <2>1, <2>2
  <1>6. CASE SysEvaluatorPanics
    BY <1>0, <1>6 DEF SysEvaluatorPanics, EvaluatorPanics, captureVars
  <1>7. CASE SysSignal \/ SysPortsChange
    BY <1>0, <1>7 DEF SysSignal, Signal, SysPortsChange, PortsChange, partVars, captureVars, runVars
  <1>8. CASE OpenTick
    BY <1>0, <1>8 DEF OpenTick, captureVars, vars, runVars
  <1>9. CASE CaptureRuns
    BY <1>0, <1>9 DEF CaptureRuns, Monitor!Reader, Monitor!ReaderTakes, Monitor!ReaderFails,
                      Monitor!ReaderSendsData, Monitor!ReaderSendsError, Monitor!ReaderGivesUp,
                      Monitor!Tick, Monitor!Expire, Monitor!DeviceSends, Monitor!DeviceEnds,
                      Monitor!mainVars, vars, runVars
  <1>10. CASE UNCHANGED sysVars
    BY <1>0, <1>10 DEF sysVars, vars, runVars, partVars, captureVars
  <1> QED
    BY <1>1, <1>2, <1>3, <1>4, <1>5, <1>6, <1>7, <1>8, <1>9, <1>10 DEF SysNext, RunStep

LEMMA EarnedHolds ==
  ASSUME CaptureInv, EarnedInv, outcome = "finished", ~failures
  PROVE  Earned
  <1>1. Proved!VerdictsMatchHeard /\ Proved!HeardInOrder /\ Proved!TypeOK
    BY SystemAssumption, Proved!JudgedVerdicts DEF CaptureInv, Proved!FlowInv
  <1>2. ASSUME NEW a \in Required \cup Forbidden
        PROVE  \E r \in results : r.assertion = a /\ r.passed
    BY <1>1 DEF Proved!VerdictsMatchHeard, Proved!Assertion, EarnedInv
  <1>3. ASSUME NEW a \in Required
        PROVE  \E i \in DOMAIN sent : a \in Shown[sent[i].chunk] /\ sent[i].at <= Within[a]
    <2>1. PICK i \in DOMAIN heard : a \in Shown[heard[i].chunk] /\ sent[i].at <= Within[a]
      BY <1>1, <1>2 DEF Proved!VerdictsMatchHeard
    <2>2. heard[i].chunk = sent[i].chunk
      BY <1>1 DEF Proved!HeardInOrder
    <2>3. i \in DOMAIN sent
      BY <1>1 DEF Proved!HeardInOrder, Proved!TypeOK
    <2> QED
      BY <2>1, <2>2, <2>3
  <1>4. ASSUME NEW a \in Forbidden PROVE ~Monitor!ShowsIn(a, heard)
    <2>1. a \notin Required
      BY SystemAssumption
    <2>2. ~Proved!ShowsIn(a, heard)
      BY <1>1, <1>2, <2>1 DEF Proved!VerdictsMatchHeard
    <2> QED
      BY <2>2 DEF Proved!ShowsIn, Monitor!ShowsIn
  <1> QED
    BY <1>3, <1>4 DEF Earned

LEMMA InitCapture == SysInit => CaptureInv /\ EarnedInv
  <1> SUFFICES ASSUME SysInit PROVE CaptureInv /\ EarnedInv
    OBVIOUS
  <1>1. Proved!Init
    BY DEF SysInit, Init, Proved!Init, Proved!Verdicts!Init
  <1>2. CaptureInv
    BY <1>1, SystemAssumption, Proved!TypeInit, Proved!FlowInit, Proved!EndInit, Proved!JudgedInit
       DEF CaptureInv
  <1> QED
    BY <1>2 DEF SysInit, EarnedInv

(* From the capture to the exit code *)

USE DEF OK, AssertionFailed, InvalidConfig, EnvironmentFailure, ExecutionFailure, SerialFailure,
        Interrupted

Over == pc = "finish" \/ pc = "return"

(* When a monitor is among the steps done, the last one has heard out its  *)
(* window, or another one is running, or the run is over and not with 0.   *)
LastHeard ==
  (\E i \in DOMAIN stepResults : stepResults[i].name = "monitor") =>
    \/ outcome = "finished" \/ pc = "capture"
    \/ Over /\ result.code # OK
    \/ pc = "exited" /\ exit # OK

(* Steps that record nothing, or not a monitor, and leave the capture and  *)
(* the end of the run alone.                                               *)
LEMMA HeardFrame ==
  ASSUME LastHeard, stepResults \in Seq(StepRecord), UNCHANGED outcome, pc \notin {"capture", "finish", "return", "exited"},
         \/ UNCHANGED stepResults
         \/ \E name, status : name # "monitor" /\ Record(name, status)
  PROVE  LastHeard'
  <1>1. CASE \E i \in DOMAIN stepResults : stepResults[i].name = "monitor"
    BY <1>1 DEF LastHeard, Over
  <1>2. CASE ~ \E i \in DOMAIN stepResults : stepResults[i].name = "monitor"
    <2>1. ~ \E i \in DOMAIN stepResults' : stepResults'[i].name = "monitor"
      <3>1. CASE UNCHANGED stepResults
        BY <1>2, <3>1
      <3>2. CASE \E name, status : name # "monitor" /\ Record(name, status)
        BY <1>2, <3>2 DEF Record
      <3> QED
        BY <3>1, <3>2
    <2> QED
      BY <2>1 DEF LastHeard
  <1> QED
    BY <1>1, <1>2

LEMMA HeardEnds ==
  ASSUME \/ pc' = "finish" /\ \E status, code, err : code # OK /\ Finish(status, code, err)
         \/ pc' = "exited" /\ exit' # OK
  PROVE  LastHeard'
  BY DEF LastHeard, Over, Finish

LEMMA FailNeverPasses ==
  ASSUME NEW name, NEW code, NEW err, code # OK, Fail(name, code, err)
  PROVE  LastHeard'
  <1>1. pc' = "finish"
    BY DEF Fail, Finish
  <1> QED
    BY <1>1, HeardEnds DEF Fail

LEMMA SimpleKeepsHeard ==
  ASSUME RunInv, LastHeard, Simple
  PROVE  LastHeard'
  <1>1. UNCHANGED outcome
    BY DEF Simple, partVars, captureVars
  <1>2. stepResults \in Seq(StepRecord)
    BY DEF RunInv, TypeOK, StepRecord
  <1>3. CASE CreateRunDir
    <2>1. CASE pc' = "config"
      BY <1>1, <1>2, <1>3, <2>1, HeardFrame DEF CreateRunDir
    <2>2. CASE pc' = "exited" /\ exit' = EnvironmentFailure
      BY <2>2, HeardEnds
    <2> QED
      BY <1>3, <2>1, <2>2 DEF CreateRunDir
  <1>4. CASE WriteConfig
    <2>1. CASE Continue("verify")
      BY <1>1, <1>2, <1>4, <2>1, HeardFrame DEF WriteConfig, Continue
    <2>2. CASE Finish("failed", InvalidConfig, "error") \/ Finish("failed", EnvironmentFailure, "error")
      <3>1. pc' = "finish" /\ InvalidConfig # OK /\ EnvironmentFailure # OK
        BY <2>2 DEF Finish
      <3> QED
        BY <2>2, <3>1, HeardEnds
    <2> QED
      BY <1>4, <2>1, <2>2 DEF WriteConfig
  <1>5. CASE Verify
    <2>1. CASE Continue("loop")
      BY <1>1, <1>2, <1>5, <2>1, HeardFrame DEF Verify, Continue
    <2>2. CASE Fail("platformio", EnvironmentFailure, "error")
      <3>1. EnvironmentFailure # OK
        OBVIOUS
      <3> QED
        BY <2>2, <3>1, FailNeverPasses
    <2> QED
      BY <1>5, <2>1, <2>2 DEF Verify
  <1>6. CASE BeginStep
    <2>1. CASE canceled
      <3>1. Finish("interrupted", Interrupted, "canceled") /\ pc' = "finish" /\ Interrupted # OK
        BY <1>6, <2>1 DEF BeginStep, Finish
      <3> QED
        BY <3>1, HeardEnds
    <2>2. CASE ~canceled
      BY <1>1, <1>2, <1>6, <2>2, HeardFrame DEF BeginStep, Continue
    <2> QED
      BY <2>1, <2>2
  <1>7. CASE EndOfSteps
    <2>1. CASE failures
      <3>1. Finish("failed", AssertionFailed, "nil") /\ pc' = "finish" /\ AssertionFailed # OK
        BY <1>7, <2>1 DEF EndOfSteps, Finish
      <3> QED
        BY <3>1, HeardEnds
    <2>2. CASE ~failures
      BY <1>1, <1>2, <1>7, <2>2, HeardFrame DEF EndOfSteps
    <2> QED
      BY <2>1, <2>2
  <1>8. CASE SelectPort
    <2>1. CASE Continue(Entry)
      BY <1>1, <1>2, <1>8, <2>1, HeardFrame DEF SelectPort, Continue
    <2>2. CASE Fail("serial port", SerialFailure, "error")
      <3>1. SerialFailure # OK
        OBVIOUS
      <3> QED
        BY <2>2, <3>1, FailNeverPasses
    <2> QED
      BY <1>8, <2>1, <2>2 DEF SelectPort
  <1>9. CASE StartCommand
    <2>1. CASE Fail(CurrentStep, EnvironmentFailure, "error")
      <3>1. EnvironmentFailure # OK
        OBVIOUS
      <3> QED
        BY <2>1, <3>1, FailNeverPasses
    <2>2. CASE Finish("interrupted", Interrupted, "canceled")
      <3>1. pc' = "finish" /\ Interrupted # OK
        BY <2>2 DEF Finish
      <3> QED
        BY <2>2, <3>1, HeardEnds
    <2>3. CASE Continue("running")
      BY <1>1, <1>2, <1>9, <2>3, HeardFrame DEF StartCommand, Continue
    <2> QED
      BY <1>9, <2>1, <2>2, <2>3 DEF StartCommand
  <1>10. CASE CommandEnds
    <2>1. pc = "running" /\ CurrentStep # "monitor"
      BY <1>10 DEF CommandEnds, RunInv, PortInv
    <2>2. CASE StepPassed(CurrentStep)
      <3>1. \E name, status : name # "monitor" /\ Record(name, status)
        BY <2>1, <2>2 DEF StepPassed
      <3> QED
        BY <1>1, <1>2, <2>1, <3>1, HeardFrame
    <2>3. CASE Fail(CurrentStep, ExecutionFailure, "error")
      <3>1. ExecutionFailure # OK
        OBVIOUS
      <3> QED
        BY <2>3, <3>1, FailNeverPasses
    <2>4. CASE Finish("interrupted", Interrupted, "canceled")
      <3>1. pc' = "finish" /\ Interrupted # OK
        BY <2>4 DEF Finish
      <3> QED
        BY <2>4, <3>1, HeardEnds
    <2> QED
      BY <1>10, <2>2, <2>3, <2>4 DEF CommandEnds
  <1>11. CASE WriteResult
    <2>1. UNCHANGED stepResults /\ pc = "finish" /\ pc' = "return" /\ EnvironmentFailure # OK
      BY <1>11 DEF WriteResult
    <2>2. result.code # OK => result'.code # OK
      BY <1>11, <2>1 DEF WriteResult
    <2> QED
      BY <1>1, <2>1, <2>2 DEF LastHeard, Over
  <1>12. CASE Exit
    <2>1. UNCHANGED stepResults /\ pc = "return" /\ pc' = "exited" /\ Interrupted # OK
      BY <1>12 DEF Exit
    <2>2. result.code # OK => exit' # OK
      BY <1>12, <2>1 DEF Exit
    <2> QED
      BY <1>1, <2>1, <2>2 DEF LastHeard, Over
  <1>13. CASE Exited
    BY <1>1, <1>13 DEF Exited, vars, runVars, reportVars, LastHeard, Over
  <1> QED
    BY <1>3, <1>4, <1>5, <1>6, <1>7, <1>8, <1>9, <1>10, <1>11, <1>12, <1>13 DEF Simple

LEMMA MonitorKeepsHeard ==
  ASSUME RunInv, LastHeard,
         TryToOpen \/ SysResetBoard \/ SysOpenSerialLog \/ CaptureMain \/ SysEvaluatorPanics
  PROVE  LastHeard'
  <1>0. ASSUME NEW code, NEW err, code # OK, Fail("monitor", code, err) PROVE LastHeard'
    BY <1>0, FailNeverPasses
  <1>1. stepResults \in Seq(StepRecord)
    BY DEF RunInv, TypeOK, StepRecord
  <1>2. CASE TryToOpen
    <2>1. pc = "open" /\ UNCHANGED outcome
      BY <1>2 DEF TryToOpen, captureVars
    <2>2. CASE Fail("monitor", SerialFailure, opened')
      BY <1>0, <2>2
    <2>3. CASE UNCHANGED stepResults
      BY <1>1, <2>1, <2>3, HeardFrame
    <2> QED
      BY <1>2, <2>2, <2>3 DEF TryToOpen, Continue
  <1>3. CASE SysResetBoard
    <2>1. pc = "reset" /\ UNCHANGED outcome
      BY <1>3 DEF SysResetBoard, ResetBoard, captureVars
    <2>2. CASE \E err : Fail("monitor", SerialFailure, err)
      BY <1>0, <2>2
    <2>3. CASE UNCHANGED stepResults
      BY <1>1, <2>1, <2>3, HeardFrame
    <2> QED
      BY <1>3, <2>2, <2>3 DEF SysResetBoard, ResetBoard, Continue
  <1>4. CASE SysOpenSerialLog
    <2>1. CASE pc' = "capture"
      BY <2>1 DEF LastHeard
    <2>2. CASE Fail("monitor", EnvironmentFailure, "error")
      BY <1>0, <2>2
    <2> QED
      BY <1>4, <2>1, <2>2 DEF SysOpenSerialLog, OpenSerialLog, Continue
  <1>5. CASE CaptureMain
    <2>1. CASE outcome' = "none"
      <3>1. pc' = "capture"
        BY <1>5, <2>1 DEF CaptureMain
      <3> QED
        BY <3>1 DEF LastHeard
    <2>2. CASE outcome' = "finished"
      BY <2>2 DEF LastHeard
    <2>3. CASE outcome' = "canceled"
      <3>1. Finish("interrupted", Interrupted, "canceled") /\ pc' = "finish"
        BY <1>5, <2>3 DEF CaptureMain, MonitorEnds, Finish
      <3> QED
        BY <3>1, HeardEnds
    <2>4. CASE outcome' = "failed"
      <3>1. Fail("monitor", SerialFailure, "error")
        BY <1>5, <2>4 DEF CaptureMain, MonitorEnds
      <3> QED
        BY <1>0, <3>1
    <2> QED
      BY <1>5, <2>1, <2>2, <2>3, <2>4 DEF CaptureMain, MonitorEnds
  <1>6. CASE SysEvaluatorPanics
    <2>1. pc' = "exited" /\ exit' # OK
      BY <1>6 DEF SysEvaluatorPanics, EvaluatorPanics
    <2> QED
      BY <2>1, HeardEnds
  <1> QED
    BY <1>2, <1>3, <1>4, <1>5, <1>6

LEMMA HeardKept == RunInv /\ LastHeard /\ [SysNext]_sysVars => LastHeard'
  <1> SUFFICES ASSUME RunInv, LastHeard, [SysNext]_sysVars PROVE LastHeard'
    OBVIOUS
  <1>0. ASSUME UNCHANGED <<outcome, pc, stepResults, result, exit>> PROVE LastHeard'
    BY <1>0 DEF LastHeard, Over
  <1>1. CASE RunStep
    BY <1>1, SimpleKeepsHeard, MonitorKeepsHeard DEF RunStep
  <1>2. CASE SysSignal \/ SysPortsChange
    BY <1>0, <1>2 DEF SysSignal, Signal, SysPortsChange, PortsChange, partVars, captureVars,
                      runVars, reportVars
  <1>3. CASE OpenTick
    BY <1>0, <1>3 DEF OpenTick, captureVars, vars, runVars, reportVars
  <1>4. CASE CaptureRuns
    <2>1. pc' = "capture"
      BY <1>4 DEF CaptureRuns, vars, runVars
    <2> QED
      BY <2>1 DEF LastHeard
  <1>5. CASE UNCHANGED sysVars
    BY <1>0, <1>5 DEF sysVars, vars, runVars, reportVars, partVars, captureVars
  <1> QED
    BY <1>1, <1>2, <1>3, <1>4, <1>5 DEF SysNext

(* Exit code 0 has the monitor step among its results, so its capture has  *)
(* finished; no assertion has failed.                                      *)
LEMMA ExitZeroHasHeard ==
  ASSUME RunInv, LastHeard, exit = OK, NEW i \in DOMAIN steps, steps[i] = "monitor"
  PROVE  outcome = "finished" /\ ~failures
  <1>1. pc = "exited"
    BY DEF RunInv, Progress, EndInv, Alive
  <1>2. Explained(OK)
    BY <1>1 DEF RunInv, EndInv
  <1>3. stepResults = [k \in 1..Len(steps) |-> Passed(k)] /\ ~failures
    BY <1>2 DEF Explained
  <1>4. i \in 1..Len(steps)
    BY StepsAreSteps DEF RunInv
  <1>5. i \in DOMAIN stepResults /\ stepResults[i].name = "monitor"
    BY <1>3, <1>4 DEF Passed
  <1> QED
    BY <1>1, <1>3, <1>5 DEF LastHeard, Over

(* A run that goes on after a monitor step has earned it, and so has one   *)
(* that exits with 0: every required value was sent by its deadline and    *)
(* nothing that was heard shows a forbidden one, for any steps,            *)
(* assertions, device, ports, window and moment of the signal              *)
(* (captureSerial, hasAssertionFailure, Run, finish, runTest).             *)
THEOREM PassIsEarned == SysSpec => []PassedIsEarned
  <1>1. SysInit => RunInv /\ LastHeard
    <2>1. SysInit => RunInv
      BY InitRunInv DEF SysInit
    <2>2. SysInit => stepResults = <<>>
      BY DEF SysInit, Init
    <2>3. stepResults = <<>> => LastHeard
      BY EmptyHasNoIndex DEF LastHeard
    <2> QED
      BY <2>1, <2>2, <2>3
  <1>2. CaptureInv /\ EarnedInv /\ RunInv /\ LastHeard => PassedIsEarned
    <2> SUFFICES ASSUME CaptureInv, EarnedInv, RunInv, LastHeard PROVE PassedIsEarned
      OBVIOUS
    <2> QED
      BY EarnedHolds, ExitZeroHasHeard DEF PassedIsEarned
  <1> QED
    BY <1>1, <1>2, InitParts, InitCapture, StepIsRunner, NextRunInv, CaptureKept, EarnedKept,
       HeardKept, PTL DEF SysSpec
=============================================================================
