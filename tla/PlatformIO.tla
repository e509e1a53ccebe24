----------------------------- MODULE PlatformIO -----------------------------
(***************************************************************************)
(* internal/platformio: the Service that finds `pio` once and runs it for  *)
(* each build and upload, and OSRunner.Run, which starts the process,      *)
(* copies its output, kills it when its context is done and says how it    *)
(* ended.  os/exec is modelled as the code uses it: the output goes        *)
(* through pipes, Wait returns only when both have been copied to the end, *)
(* and a pipe ends when nobody holds it any more.  Whatever `pio` starts   *)
(* inherits the pipes and outlives a kill of `pio` itself.                 *)
(***************************************************************************)
EXTENDS Integers, FiniteSets

CONSTANTS
  Places,    \* how many places LookPath looks at, PATH first
  Timeout,   \* req.Timeout; zero for none
  MaxRuns,   \* bound: commands of a run
  MaxHeirs,  \* bound: processes that one command leaves behind
  MaxTime    \* bound: last instant of a command

ASSUME PlatformIOAssumption ==
  /\ Places \in Nat /\ Timeout \in Nat
  /\ MaxRuns \in Nat /\ MaxHeirs \in Nat /\ MaxTime \in Nat
  /\ Timeout <= MaxTime

Place == 1..Places
Pipes == {"stdout", "stderr"}

VARIABLES
  installed,  \* the places that have an executable `pio`
  binary,     \* s.binary, 0 while it is empty
  used,       \* history: the binaries that were started
  runs,       \* history: commands that have ended
  now,        \* time since the call of Run
  canceled,   \* ctx is done: a signal has arrived
  runCtx,     \* the context of the command: "open", "deadline" or "canceled"
  runPc,      \* "verify", "idle", "wait", "pipes", "classify"
  leader,     \* pio: "none", "running", "succeeded", "failed" or "killed"
  heirs,      \* how many processes it left that hold the pipes
  born,       \* how many it ever started
  broken,     \* pipes whose copying has failed: the log cannot be written
  answer      \* what Run returned last

serviceVars == <<installed, binary, used, runs>>
ctxVars     == <<now, canceled, runCtx>>
processVars == <<leader, heirs, born, broken>>
vars == <<serviceVars, ctxVars, processVars, runPc, answer>>

NoAnswer == [code |-> 0, err |-> "none"]

Init ==
  /\ installed \in SUBSET Place
  /\ binary = 0
  /\ used = {}
  /\ runs = 0
  /\ now = 0
  /\ canceled = FALSE
  /\ runCtx = "open"
  /\ runPc = "verify"
  /\ leader = "none"
  /\ heirs = 0
  /\ born = 0
  /\ broken = {}
  /\ answer = NoAnswer

Busy == runPc \in {"wait", "pipes", "classify"}

-----------------------------------------------------------------------------
(* The environment *)

\* PlatformIO is installed or removed, or PATH changes what is found
InstallationChanges ==
  /\ runPc \in {"verify", "idle"}
  /\ installed' \in SUBSET Place \ {installed}
  /\ UNCHANGED <<binary, used, runs, ctxVars, processVars, runPc, answer>>

Tick ==
  /\ Busy
  /\ now < MaxTime
  /\ now' = now + 1
  /\ UNCHANGED <<serviceVars, canceled, runCtx, processVars, runPc, answer>>

\* SIGINT or SIGTERM; runCtx is a child of ctx
Signal ==
  /\ ~canceled
  /\ canceled' = TRUE
  /\ runCtx' = IF runCtx = "open" THEN "canceled" ELSE runCtx
  /\ UNCHANGED <<serviceVars, now, processVars, runPc, answer>>

\* the timer of context.WithTimeout, which may be late
Expire ==
  /\ Busy
  /\ Timeout > 0 /\ now >= Timeout
  /\ runCtx = "open"
  /\ runCtx' = "deadline"
  /\ UNCHANGED <<serviceVars, now, canceled, processVars, runPc, answer>>

\* pio, or what it started, starts another process
Fork ==
  /\ leader = "running" \/ heirs > 0
  /\ born < MaxHeirs
  /\ heirs' = heirs + 1 /\ born' = born + 1
  /\ UNCHANGED <<serviceVars, ctxVars, leader, broken, runPc, answer>>

HeirExits ==
  /\ heirs > 0
  /\ heirs' = heirs - 1
  /\ UNCHANGED <<serviceVars, ctxVars, leader, born, broken, runPc, answer>>

LeaderExits ==
  /\ leader = "running"
  /\ leader' \in {"succeeded", "failed"}
  /\ UNCHANGED <<serviceVars, ctxVars, heirs, born, broken, runPc, answer>>

(* The goroutine that copies a pipe into its log gets an error and ends;   *)
(* what is left in the pipe is copied after the processes are gone, too.   *)
CopyFails ==
  /\ runPc \in {"wait", "pipes"}
  /\ \E p \in Pipes \ broken : broken' = broken \cup {p}
  /\ UNCHANGED <<serviceVars, ctxVars, leader, heirs, born, runPc, answer>>

-----------------------------------------------------------------------------
(* Service *)

\* OSRunner.LookPath: PATH, then the candidates in their order
LookPath ==
  IF installed = {} THEN 0 ELSE CHOOSE p \in installed : \A q \in installed : p <= q

\* without `pio` the run ends here (Runner, Verify)
Verify ==
  /\ runPc = "verify"
  /\ LookPath # 0
  /\ binary' = LookPath
  /\ runPc' = "idle"
  /\ UNCHANGED <<installed, used, runs, ctxVars, processVars, answer>>

(* Seeded fault: `pio` is looked up for every command. *)
commandName_Again == LookPath

(* The path of Verify, or else one that is looked up and cached; 0 stands  *)
(* for the bare name "pio", which is not found either.                     *)
commandName == IF binary # 0 THEN binary ELSE LookPath

-----------------------------------------------------------------------------
(* OSRunner.Run *)

(* The context and its timer are made; cmd.Start gives up when the context *)
(* is done already or the binary cannot be started.                        *)
Start ==
  /\ runPc = "idle"
  /\ runs < MaxRuns
  /\ now' = 0
  /\ runCtx' = IF canceled THEN "canceled" ELSE "open"
  /\ heirs' = 0 /\ born' = 0 /\ broken' = {}
  /\ answer' = NoAnswer
  /\ binary' = commandName
  /\ \/ /\ ~canceled /\ commandName \in installed
        /\ leader' = "running"
        /\ used' = used \cup {commandName}
        /\ runPc' = "wait"
     \/ /\ leader' = "none"
        /\ runPc' = "classify"
        /\ UNCHANGED used
  /\ UNCHANGED <<installed, runs, canceled>>

(* Seeded fault: only a signal kills the process. *)
Kill_SignalOnly ==
  /\ runPc = "wait" /\ leader = "running"
  /\ runCtx = "canceled"
  /\ leader' = "killed"
  /\ UNCHANGED <<serviceVars, ctxVars, heirs, born, broken, runPc, answer>>

\* exec.CommandContext: pio is killed, what it started is not
Kill ==
  /\ runPc = "wait" /\ leader = "running"
  /\ runCtx # "open"
  /\ leader' = "killed"
  /\ UNCHANGED <<serviceVars, ctxVars, heirs, born, broken, runPc, answer>>

\* Process.Wait; from now on the end of the context changes nothing
Reap ==
  /\ runPc = "wait"
  /\ leader # "running"
  /\ runPc' = "pipes"
  /\ UNCHANGED <<serviceVars, ctxVars, processVars, answer>>

(* Seeded fault: a WaitDelay, after which the pipes are given up. *)
AwaitCopying_WaitDelay ==
  /\ runPc = "pipes"
  /\ heirs = 0 \/ broken = Pipes \/ runCtx # "open"
  /\ runPc' = "classify"
  /\ UNCHANGED <<serviceVars, ctxVars, processVars, answer>>

\* no WaitDelay is set: both pipes must have ended or failed
AwaitCopying ==
  /\ runPc = "pipes"
  /\ heirs = 0 \/ broken = Pipes
  /\ runPc' = "classify"
  /\ UNCHANGED <<serviceVars, ctxVars, processVars, answer>>

(* Seeded faults: the exit status is looked at before the context; an      *)
(* error other than an ExitError leaves the exit code at its default.      *)
Classify_StatusFirst ==
  IF leader = "succeeded" /\ broken = {} THEN [code |-> 0, err |-> "nil"]
  ELSE IF leader \in {"failed", "killed"} THEN [code |-> 1, err |-> "nil"]
  ELSE IF runCtx # "open" THEN [code |-> -1, err |-> runCtx]
  ELSE [code |-> -1, err |-> "error"]

Classify_CopyIgnored ==
  IF runCtx # "open" THEN [code |-> -1, err |-> runCtx]
  ELSE IF leader \in {"failed", "killed"} THEN [code |-> 1, err |-> "nil"]
  ELSE IF leader = "none" THEN [code |-> -1, err |-> "error"]
  ELSE [code |-> 0, err |-> "nil"]

(* The context first, whatever the process did; then success, an exit      *)
(* status (any other than zero is 1), or an error of starting or copying.  *)
Classify ==
  IF runCtx # "open" THEN [code |-> -1, err |-> runCtx]
  ELSE IF leader = "succeeded" /\ broken = {} THEN [code |-> 0, err |-> "nil"]
  ELSE IF leader \in {"failed", "killed"} THEN [code |-> 1, err |-> "nil"]
  ELSE [code |-> -1, err |-> "error"]

RunReturns ==
  /\ runPc = "classify"
  /\ answer' = Classify
  /\ runs' = runs + 1
  /\ runPc' = "idle"
  /\ UNCHANGED <<installed, binary, used, ctxVars, processVars>>

\* what runBuild and runUpload make of the answer
Status(a) ==
  IF a.err = "canceled" THEN "interrupted"
  ELSE IF a.err # "nil" \/ a.code # 0 THEN "failed" ELSE "passed"

-----------------------------------------------------------------------------
Run == Start \/ Kill \/ Reap \/ AwaitCopying \/ RunReturns

Processes == Fork \/ HeirExits \/ LeaderExits \/ CopyFails

\* the run is over, or `pio` was never found
Idle == ~Busy /\ UNCHANGED vars

Next ==
  \/ InstallationChanges \/ Tick \/ Signal \/ Expire
  \/ Processes
  \/ Verify \/ Run \/ Idle

Spec == Init /\ [][Next]_vars

(* Time passes, timers fire and goroutines run.  Nothing makes pio or what *)
(* it started come to an end.                                              *)
Fairness ==
  /\ WF_vars(Tick) /\ WF_vars(Expire)
  /\ WF_vars(Kill) /\ WF_vars(Reap) /\ WF_vars(AwaitCopying) /\ WF_vars(RunReturns)

FairSpec == Spec /\ Fairness

-----------------------------------------------------------------------------
(* Properties *)

Returned == runPc = "idle" /\ answer # NoAnswer

(* A command that counts as passed exited with success by itself, and all  *)
(* of its output is in the logs: no kill, no failed start and no failed    *)
(* copy is taken for success (Run, runBuild, runUpload).                   *)
PassedMeansSucceeded ==
  Returned /\ Status(answer) = "passed" => leader = "succeeded" /\ broken = {}

(* The cause that is reported is the true one: a pio that Run killed is    *)
(* never reported as a failed build, a timeout only after the time was up, *)
(* an interruption only after a signal (runCtx.Err() before the ExitError).*)
CauseIsTrue ==
  Returned =>
    /\ leader = "killed" => answer.err \in {"deadline", "canceled"}
    /\ answer.err = "deadline" => now >= Timeout
    /\ answer.err = "canceled" => canceled

(* When a step is over, nothing it started still holds its output, and so  *)
(* no uploader is still busy with the board when the port is opened, even  *)
(* after a timeout or a signal - unless neither log could be written       *)
(* (cmd.Run without WaitDelay).                                            *)
NobodyLeftBehind ==
  Returned /\ broken # Pipes => leader # "running" /\ heirs = 0

(* Build and upload are done by the same pio, the one that Verify found,   *)
(* although installations change in between (s.binary, commandName).       *)
OneBinaryPerRun == used \subseteq {binary}

(* Run returns, whatever pio does, unless a process that pio left behind   *)
(* holds the pipes for ever (WithTimeout, CommandContext, Wait).           *)
ReturnsUnlessHeld == Timeout > 0 => (Busy ~> (~Busy \/ [](heirs > 0)))

(* docs/test-format.md:77: build_timeout is the "Timeout for `pio run -e   *)
(* <environment>`" - once it has expired the step ends.                    *)
TimeoutEndsStep == (Busy /\ runCtx = "deadline") ~> ~Busy
=============================================================================
