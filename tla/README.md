# A TLA+ model of Architon Runner

Architon Runner builds firmware with PlatformIO, uploads it to an ESP32,
listens to its serial port for a while and judges what it heard against
assertions. A hardware test is only worth its exit code: this project models
what stands between the bytes on the wire and that code.

## 1. The system

| Component | Source | State | Operations | Module |
| --- | --- | --- | --- | --- |
| Assertion evaluator | `internal/assertion` | buffer of the last bytes heard, `done` per assertion, results | `NewEvaluator`, `Observe`, `Finish` | `Evaluator`, `SerialVerdicts`, `Text` |
| Serial capture | `runner.captureSerial` | capture context, `events` channel (capacity 1), reader goroutine, `serial.log` | reader loop, select loop | `Capture` |
| Run orchestration | `runner.Run`, `cmd/architon` `runTest` | selected port, step results, report | one call per step, `finish`, exit | `Runner`, `System` |
| Run directory | `runner.createRunDir` | names in `.architon/runs` | at most 100 tries of `Mkdir` | `RunDir` |
| Port selection and opening | `internal/serial`, `openSerialWithRetry` | candidates, boot deadline | `SelectPort`, `plausible`, retry loop | `Runner`, `OpenRetry`, `System` |
| PlatformIO process | `internal/platformio` | the binary found, process, timeout, pipes | `Verify`, `Build`, `Upload`, `OSRunner.Run` | `PlatformIO` |
| Configuration | `internal/config` | none (a pure parser) | `Parse`, `Load`, `ApplyPortOverride`, `ValidateProjectDirectory`, `ResolvedYAML` | `TestFile`, `Cli` |
| Command line | `cmd/architon` | the test file | `init`, `validate`, `test` | `Cli`, `Runner` |
| Live hardware | `internal/serial/live.go` | DTR, RTS | `Open`, `Reset`, `Read`, `Close` | `BoardReset`, `OpenRetry`, environment of `Capture` |
| Report | `internal/report` | `result.json` | `WriteJSON` | status and code (in `Runner`) |
| Fakes | `internal/testutil` | - | - | not part of the program |

How they interact: `main` makes a context that a signal cancels. `init` writes a
test file, `validate` reads it, `test` reads it and calls `Run`. `Run` makes the
run directory, writes the resolved configuration into it and calls the
PlatformIO boundary for `build` and `upload`; for `monitor` it opens the port,
resets the board if it is told to, and `captureSerial` starts a reader goroutine
that sends what it reads through a channel of capacity one to the main
goroutine, which feeds the evaluator. Results flow back into the report and the
exit code.

What is hard here: the race of the last reads with the end of the window and
with a signal; a bounded buffer that must not lose a value cut by reads or by
noise; offsets in a folded copy of a text used on the text itself; a process
whose descendants outlive it and hold its output; a signal that meets each of
some fifteen calls; partial failures of everything that touches a disk or a
device; boards that come back late or under another name; several processes in
one directory and an editor on one file; a file format that is written in two
places and read in a third. `PROJECT.json` lists each hazard with its line and
the properties that watch it.

What makes each part correct:

- evaluator: verdicts depend on the whole text, not on its reads; each
  assertion is judged once, with evidence that shows the value;
- capture: the evaluator hears the device's output in order and without a gap;
  absence is only reported when everything was heard; the monitor returns and
  leaves nothing behind;
- orchestration: exit 0 means that everything passed, any other code names its
  cause; nothing starts after the run has ended; one port per run, and only one
  that may be a board; the port is closed before it is needed again;
- run directory: two runs never share one, and no free name is passed over;
- retry: the board has its whole boot timeout, the port is not hammered;
- process: the answer is true, and nobody who holds the output is left behind;
- configuration: what is written back means the same, nothing in a file is
  ignored, an error leads to what is wrong, and what is started can be run;
- reset: one that reports success was one.

## 2. Modules

**`SerialVerdicts`** is the contract of the evaluator: `heard`, everything
observed, and `results`, which a text decides by what it shows (`Observe`) and
the end of the window by what it never showed (`Finish`). What "shows" means is
a parameter.

**`Evaluator`** is `internal/assertion` over bytes. `buffer`, `done` and
`results` are the fields of the Go struct; `heard` is a history variable;
`status` tells whether a slice panicked. `Observe` is the whole method: append,
trim to `MaxBytes` (`Remember`), judge every assertion that is not done
(`Hits`), cut its evidence (`SnippetAround`) and mark it. Messages are left
out. Bytes are abstract (**`Text`**): letters with their lower case, a two-byte
rune, white space, and noise, a byte no UTF-8 text contains. In `strings.ToLower`
a stray byte becomes the three bytes of U+FFFD, as in Go, and a rune may become
shorter or longer (`Resized`: U+0130, two bytes, becomes the one letter `i`). Instants
count from `startedAt`.

**`Capture`** is `captureSerial`. The reader goroutine and the main goroutine
have a program counter each; one action per return of `Read` and per branch of a
`select`; `captureDone` is the state of `captureCtx`, whose parent `Interrupt`
cancels and whose timer `Expire` fires, late if it likes. When both a branch on
`Done` and a channel operation are possible, either may be taken, as `select`
does. The evaluator is the contract, with reads as its text: a chunk shows the
assertions `Shown` names. That a value may be cut by reads is the business of
`Evaluator`, that the contract is what it implements is checked there, and the
two meet at `SerialVerdicts`. `sent`, `takenInWindow` and the difference of
`heard` and `log` are histories for the properties.

**`Runner`** is `Run` with the steps it calls, `finish`, and the mapping of
`runTest`. One action per call that can fail: `CreateRunDir`, `WriteConfig`,
`Verify`, then per step `BeginStep` (the look at the context), `SelectPort`,
`StartCommand`, `CommandEnds`, `OpenSerial`, `ResetBoard`, `OpenSerialLog`,
`CaptureSerial`, and at the end `WriteResult` and `Exit`. `Signal` may happen
between any two of them, and `PortsChange` whenever the code is about to look at
the ports; the history `steady` has the ports that were there at every look. `EvaluatorPanics` is the outcome module `Evaluator` finds, with the
recovery in `main`. `runBuild` and `runUpload` are the same code twice and
share their actions.

A port is known by what `plausible` sees in its description: `Bluetooth`,
`Marked` (a word of the list of markers) and `HasIDs`.

**`PlatformIO`** is `Service` and `OSRunner.Run`. `Verify` keeps the binary that
`LookPath` finds first; `Start`, `Kill`, `Reap`, `AwaitCopying` and `RunReturns`
are `cmd.Run` and what follows it, with `os/exec` as the code uses it: the
output goes through pipes, a done context kills the process itself, and `Wait`
returns when the process is reaped and both pipes have ended or failed. `leader`
is the process, `heirs` the processes that hold its pipes, `broken` the logs that
cannot be written. `Classify` is the order of the checks at the end of `Run`, and
`Status` what a step makes of them. `commandName` would look for `pio` again if
there were no binary; after `Verify` there always is one. Two outputs that fail to be copied are the
only way out of the wait while an heir lives.

**`OpenRetry`** is `openSerialWithRetry` with `Hardware.Open` (`Look`, `Try`), the
two checks after a failed try (`Check`, `Deadline`) and `RealClock.Sleep` (`Pause`,
`Wake`, `SleepCanceled`). A look at the context and what follows it are steps of
their own, so that a signal may come between them: it may still open the port,
and a pause may still begin. The history `late` counts the tries and pauses
begun after the signal. Time passes between any two statements, timers may be
late, the port comes and goes.

**`BoardReset`** is what a monitor step does before its capture: it goes on
where `OpenRetry` has opened the port, under the same context, with
`livePort.Reset`. `Calls` lists its statements; a call on a
line may fail, and a pause is a `select` between a timer and the context. What
the two lines do to a board is knowledge about hardware; only their order and
their times are taken from the code.

**`RunDir`** is `createRunDir` in several processes: `MakeRoot`, `MakeDir`,
`NextName` and `OutOfNames` are the branches of its loop. `Mkdir` is atomic.

**`TestFile`** is `internal/config` as operators on trees of YAML nodes. Each
parse function has two: its fault, the first error it returns, in the order of
the source (`??` makes the second check only when the first finds nothing), and
its value. What the standard library reads in a scalar (`Atoi`, `ParseDuration`,
`TrimSpace`, ...) is given by tables. An error is its path and its kind; line
numbers and wording are left out. The order of the timeouts is that of a Go map,
hence the parameter `worst`, the one that is met first.

**`Cli`** is `init`, `validate` and `test` on a project's test file and on the
`config.resolved.yaml` of the last run, with an editor that may save between any
two steps. `Inspect` and `WriteStarter` are the two halves of `init`; a write
that fails may leave a part of the file (`PartOf`: one that is no test file, or
one that lacks its last assertions). `LoadFile` and `ValidateProjectDirectory` are
`loadAndValidate`; `RunTest` stands for the run, of which only the resolved file
matters here.

**`System`** is `Runner` with the parts in their places: `TryToOpen` does the
steps of `OpenRetry` where `Runner` has `OpenSerial`, `CaptureRuns` and
`CaptureMain` those of `Capture` where it has `CaptureSerial`, all under one
context and with one set of ports. `MonitorEnds` is what `runMonitor` and `Run`
make of an outcome. `portOpen` is the stream and its deferred `Close`. That `System`
implements `Runner` is the property `Spec`.

`CaptureProofs`, `RunnerProofs`, `SystemProofs`, `PlatformIOProofs`, `RunDirProofs`,
`BoardResetProofs`, `EvaluatorProofs` and `CliProofs` hold the theorems.
Modules named `MC...` give constants values for TLC; the others that have a cfg
of their own name need none. Definitions named `X_Fault` are seeded faults: each
is `X` with a plausible mistake, and some property of a run must fail when `X` is
replaced by it.

## 3. Runs

| cfg | Module | Result | What it shows |
| --- | --- | --- | --- |
| `EvaluatorText` | `MCEvaluator` | holds | on text without invalid bytes the evaluator implements `SerialVerdicts`; one result per assertion; evidence shows the value |
| `EvaluatorNoise` | `MCEvaluator` | holds | with noise, split runes and a rune whose lower case is one letter, no verdict without its witness in the text |
| `EvaluatorFold` | `MCEvaluator` | violated | noise before a case-insensitive match: the evidence slice panics |
| `Capture` | `MCCapture` | holds | order, verdicts and absence in every interleaving of one window; the monitor returns, the reader exits |
| `CaptureWindow` | `MCCapture` | violated | a forbidden chunk read in the window is dropped at its end |
| `Runner` | `MCRunner` | holds | truth of the exit code, one port, `auto` never guesses, nothing starts after the end |
| `RunnerInterrupt` | `MCRunner` | violated | exit 130 with a report that says failed, code 6 |
| `System` | `MCSystem` | holds | the run from its parts implements `Runner`; a monitor that passes has earned it, and so has exit code 0; the port is released; every run ends |
| `PlatformIO` | `PlatformIO` | holds | the answer of `Run` is true; nobody who holds the output is left; one binary; `Run` returns unless a descendant holds the pipes for ever |
| `BoardReset` | `BoardReset` | holds | the whole boot timeout, a bounded number of tries, at most one more try or pause after a signal; a reset that succeeds was one and starts the firmware; both end |
| `RunDir` | `MCRunDir` | holds | no shared directory, no name passed over |
| `Cli` | `MCCli` | holds | what is started can be run; nothing is ignored; blame is right; the resolved file reproduces the run; `validate` accepts whatever `init` writes |

The violated ones state a sentence of the repository's documentation or tests;
`findings` in `PROJECT.json` quotes it beside the line that departs from it.

Six more sentences do not hold of the code either. Their configurations are kept
beside the runs and are run by hand (`tlc -config X.cfg M`); each ends in a
counterexample:

| cfg | Module | Property | What the code does |
| --- | --- | --- | --- |
| `EvaluatorTrim` | `MCEvaluator` | `ForbiddenTextFails` | trimming at an invalid byte forgets the text before it: a forbidden value is missed (`assertion.go:72`, docs/architecture.md:38) |
| `CaptureLog` | `MCCapture` | `LogIsComplete` | a failed write to `serial.log` goes unnoticed (`runner.go:458`, docs/troubleshooting.md:94) |
| `RunnerArtifacts` | `MCRunner` | `AllArtifactsWritten` | a passing run without all the files the README lists (`runner.go:162`, README.md:194) |
| `RunnerLog` | `MCRunner` | `SerialLogIsFull` | a second monitor step truncates the serial log (`runner.go:292`, docs/troubleshooting.md:94) |
| `PlatformIOTimeout` | `PlatformIO` | `TimeoutEndsStep` | a descendant of `pio` that holds its pipes keeps the step running past its timeout (`platformio.go:137`, docs/test-format.md:77) |
| `CliInit` | `MCCli` | `InitRefusesToOverwrite` | a file saved between the look and the write of `init` is overwritten without `--force` (`main.go:77`, README.md:95) |

Bounds, and why they are enough:

- `Evaluator`: at most 6 bytes (`MaxHeard`) in reads of 1 to 3, values of 2
  bytes, a buffer of 4 (3 are asked for, `NewEvaluator` widens it).
  The buffer overflows, a value is cut at every place, the overflow falls into
  a rune (which `EvaluatorNoise` lowers to the letter its values hold), before and
  after a stray byte, and the deadline is hit, missed and
  passed (`MaxTime` 2 around `within` 1). `ChunkAssumption` relates read size,
  value and buffer as the runner does (4096 bytes, 1 MiB). `Context`, 80 in the
  code, is 1 where evidence matters: `EvaluatorFold` needs two noise bytes
  before the match where the code needs about forty.
- `Capture`: 2 chunks, so that one may be in the channel while the other is in
  the reader's hand or still in the port; `MaxTime` 3 lets the timer (2) be late
  and the deadline of the required value (1) be missed within the window; the
  disk may fill. The safety properties are proved without these bounds.
- `Runner`: every list of one to three steps (39), which covers each step
  before and after each other and repeated; two boards, a port without any sign
  of one and a Bluetooth port with numbers, so that there may be none, one or
  too many candidates, or another one later. The boards are interchangeable,
  hence the symmetry; the properties of the run are all safety.
- `System`: an upload and a monitor, or two monitors, so that the parts are
  used twice; one port that comes and goes; one chunk that shows a required
  value or a forbidden one; the smallest deadlines that can be met and missed.
  The parts have their own runs with larger bounds.
- `PlatformIO`: two commands (`MaxRuns`), so that the second meets what the
  first left of the service; two places for `pio`; two heirs (`MaxHeirs`), so
  that one may exit while another stays; a timeout of 2 in a time of 3.
- `BoardReset`: a boot timeout of 5 and an interval of 2, so that the deadline
  falls into a pause; `MaxTime` 9 lets every timer be late (a pause begun then
  still ends). The reset's pauses
  (`Hold`) are 2, and `MaxResetTime` 5 is enough for each of its timers to be
  late.
- `RunDir`: three processes, two seconds, three names (`Limit`) instead of one
  hundred, any set of names taken before: the names run out before, during and
  after the race.
- `Cli`: `MCFiles` is a valid file, with one or two of its seven sections
  replaced by every other value or left out - the pairs whose checks or defaults
  meet: 318 files, 24 of them accepted,
  the others with 44 different errors, so that two errors compete for the
  report and one section's default meets another's. Directories are names that
  `Join` knows. The arguments of `init` are blank, given, or read back by YAML
  otherwise than Go quoted them, and the first environment of `platformio.ini` has
  a name or none. The editor saves the valid file.

Fairness. `Capture`: time passes (`Tick`), the timer fires (`Expire`), and
the Go scheduler runs a goroutine that is not blocked (`Reader`, `Main`). Nothing
is assumed of the device or the user. That `Read` returns when the stream is
closed is an assumption on `go.bug.st/serial`. Since the model bounds what the
device sends, weak fairness of `Main` reaches the `Done` branch; with an endless
stream it is the random choice of `select` that does. `BoardReset`: the
clocks and the goroutine; nothing brings a port back.
`PlatformIO`: the clock, the timer and the goroutines of `os/exec`; nothing makes
`pio` or its descendants exit, so `ReturnsUnlessHeld` is about a hanging process,
too. `System`: the steps of the run, the clocks, the
timer and the reader; here a command is taken to end, which `PlatformIO` shows
only while nobody holds its pipes. `Runner`, `RunDir` and `Cli` have no liveness
property: their steps wait for nothing but what the other modules describe, and
the loop of `RunDir` counts to `Limit`.

`CHECK_DEADLOCK` is on everywhere. The stuttering actions `Dropped`, `Returned`,
`Done`, `Idle`, `AllDone` and `Exited` are the states where the code has ended or waits
for its caller; every other state must have a successor.

## 4. Proofs

A theorem holds for every value of the constants that the named assumptions of
its module allow, without the bounds TLC needs. Of the properties that the
passing runs check, only the liveness properties are stated by no theorem.

### Capture

`CaptureProofs`, for every set of assertions and chunks, every deadline and
window:

- `TypeCorrect`: `Spec => []TypeOK`; in particular the channel holds at most
  one event.
- `HearsInOrder`: `Spec => []HeardInOrder`. The inductive invariant is
  `FlowInv`: every chunk taken from the port has been heard, is in the channel
  or in the reader's hand, in this order, until the reader exits. It is needed
  because `HeardInOrder` alone does not say which chunk the channel holds.
  `FlowFrame` disposes of the steps that move no chunk.
- `AbsenceIsFinal`: `Spec => []AbsenceNeedsWholeWindow`. The inductive invariant
  `EndInv` says which end of the context and of the port each part of the
  program has seen; with `FlowInv` it gives that an EOF event reaches main only
  after all data.
- `VerdictsAreRight`: `Spec => []VerdictsMatchHeard`. The inductive invariant
  `JudgedInv` adds what the property does not say: an assertion without a
  verdict is decided by nothing heard so far, and a monitor that has finished
  leaves none without; that verdicts by absence are final comes from `EndInv`.

They rest on `CaptureAssumption` alone: the two kinds of assertion are
disjoint, deadlines and window are natural numbers, zero included, and `MaxTime`
reaches the window.

### The run

`RunnerProofs`, for every list of steps and every set of ports: type
correctness, `ExitZeroIsTrue`, `ExitIsExplained`, `OnePort`, `AutoIsSafe` and
`NothingStarts`. The inductive invariant `RunInv` has four parts: `TypeOK`;
`Progress`, what the results of the steps are at each call (all passed while the
run goes on); `PortInv`, which port is selected and that no other board was there all the time;
`EndInv`, how result, `result.json` and exit code are related once the run is
over. One lemma per action shows that it is kept.

`SystemProofs`:

- `SystemImplementsRunner`, `SysSpec => Spec`: each step of the run put together
  from its parts is a step of `Runner` or none, so the theorems above hold of it.
- `PortIsFree`: `SysSpec => []PortIsReleased`. The port is open only in the
  calls of a monitor that follow its opening (`PortInv`).
- `PassIsEarned`: `SysSpec => []PassedIsEarned`, the promise of the whole program
  from the device to the exit code: exit code 0 of a run with a monitor means that
  the device sent every required value by its deadline and that nothing heard shows
  a forbidden one. `CaptureInv` is the invariant of `CaptureProofs` in the state of
  `System`: its lemmas, one per action of `Capture`, are cited through an instance,
  and what is new is that the steps of the run which are not the capture's keep it,
  and that each monitor starts it afresh. `EarnedInv` ties what the capture reports
  to its results. `LastHeard` ties the results of the steps to the capture: when a
  monitor is among the steps done, the last one has heard out its window, or
  another one is running, or the run is over with a code other than 0. With the
  `RunInv` of `RunnerProofs` that leaves nothing else for exit code 0. The theorem
  speaks of the last monitor of a run; of an earlier one it does while the run
  is between the two.

`SystemAssumption` gives the constants of the capture the types
`CaptureAssumption` asks for.

### Evaluator

`EvaluatorProofs`, for every alphabet, every list of assertions, every size of
the buffer and every way of cutting the text into reads. Two theorems need
nothing more:

- `EvaluatorTypeCorrect`, in particular the bound of the buffer;
- `EvaluatorReportsOnce`: `Spec => []OneResultPerAssertion`.

The others have a hypothesis on the text, because without it they are false:
`EvaluatorFold` and `EvaluatorTrim` are the counterexamples.

- `EvaluatorVerdictsWitnessed`: `Spec => []VerdictsAreWitnessed`, noise, split
  runes and runes whose lower case has another length included, if every value is
  a `PlainValue`, as those of the runs are (`ValuesArePlain`), or all text is ASCII
  (`NoiseFree`). `strings.ToLower` writes a U+FFFD for each stray byte, and a
  value that ignores case and holds a U+FFFD itself would be found there. The
  invariant `WitnessInv` says that the buffer is an end of what was heard; the
  rest is that a value found in the folded end is found in the folded whole
  (`LoweredInWhole`), at another offset and though a byte may be stray in the one
  and not in the other: the bytes under the match are stray in neither.
- `EvaluatorNeverPanics` and `EvaluatorEvidenceShows` (`EvidenceShowsValue`), for
  assertions that do not ignore case, on any text, and for all on ASCII text
  (`FoldsInPlace`): folding must not move an offset, as it does when a stray byte
  becomes three or a rune changes its length.
- `EvaluatorImplementsContract`: `Spec => Contract!Spec` on ASCII text. The
  invariant `ContractInv` has the buffer hold the last `MaxBytes` bytes heard, or
  all (`RemembersEnough`), and an assertion whose value was heard but that has no
  verdict be a required one past its deadline (`UndecidedIsLate`). So a value that a
  read makes appear in the text ends in that read, and by `ChunkAssumption` it
  lies inside the buffer as a whole.
- `EvaluatorForbiddenTextFails`: the sentence of docs/architecture.md:38 that
  `EvaluatorTrim` refutes does hold on ASCII text.

`ToLower` is a `FlattenSeq`, which the library defines by recursion. What it
computes is shown by induction in the form `SetInduction`: 0 in S and n + 1 in S
for every n in S give that S holds every number. It follows from the
well-foundedness of `<`, and speaks of a set where the library's induction
theorems speak of an operator. `ToLowerIs` and `IndexOfIs` state what lowering and
searching give, and the theorems rest on these.

`SpecAssumption`: values are not empty (the parser refuses blank ones), a read
brings at least one byte, the default size is positive. `ChunkAssumption` is the
runner's 4096 bytes against 1 MiB. `ByteAssumption`: lower case maps white space to
white space, and only bytes of longer runes are resized, to any bytes.

### PlatformIO, run directory, retry and reset

`PlatformIOProofs`: `PassedIsTrue`, `CauseIsTrueAlways`, `NobodyIsLeft` and
`OneBinary`, for any timeout and any number of processes and commands. The
invariant `CommandInv` relates the program counter to the process (`ProcessInv`),
to the context (`ContextInv`), to the binary (`BinaryInv`) and, once there is one,
to the answer (`AnswerInv`).

`RunDirProofs`: type correctness, `DirsAreUnique`, `FullIsTrue`, `DirsAreNew`, for any
processes and any number of names: a name that a process has passed over, or
made, exists from then on.

`BoardResetProofs` has first the theorems about the retry - type correctness,
`GivesUpLate`, `TriesAreBounded`, `TriesArePaced`, `SignalEndsRetry`
(`SignalAllowsOneMore`) - for every interval and timeout; `TriesBounded` needs the
stronger fact that each try lies an interval behind the one before, and
`SignalAllowsOneMore` that wherever a try or a pause may begin, none has begun
since the signal (`LateIsLast`). Then those about the reset, for any pause: type
correctness, `ResetIsTrue`, `BoardStartsFirmware`; the invariant says what the lines
are, and for how long, at each statement. `ReadyImplementsRetry` carries the theorems
about the retry over.

`TriesPaced`, `NewDirs` and the type invariants of `OpenRetry`, `BoardReset` and
`RunDir` are proved and in no run.

### Test files

`CliProofs`, for any files, edits, arguments and directories. A file is a tree
of any size: what the parser refuses is unfolded check by check, and what it
accepts is a `Proper` configuration, one with text where text is required,
positive durations, known steps and assertions, and a monitor for them.

- `CliStartsRunnable`: `Spec => []StartedIsRunnable`.
- `CliResolvedReproduces`: `Spec => []ResolvedReproduces`. Writing a `Proper`
  configuration and reading it back is the identity, section by section; a
  directory once joined is left alone by another join.
- `CliNothingIgnored`: `Spec => []NothingIgnored`. An accepted file has fields of
  `FieldNames` only, none twice, and a written configuration has them all but
  that of the reset.
- `CliBlameIsRight`: `Spec => []BlameIsRight`. A document can have many faults and
  only the first is reported, so a repair may well bring up another one; what is
  shown is that no check of the repaired document speaks of the repaired path
  (`Spares`). The checks of other sections do not, as the path of each begins with
  the key of its section (`Under`); those of the same section see the node of a
  starter file, which is accepted (`FieldRepaired`, `SectionRepaired`). Nothing is
  assumed of the document but that the decoder returned it. What is left of a mapping without one of its keys (`Without`, a
  recursion over data) is shown with `SetInduction`, as in `EvaluatorProofs`.
- `CliOrderIrrelevant`: `Spec => []OrderOfFieldsIrrelevant`. In a mapping without
  repeated keys `At` finds the same node in any order.
- `CliStarterValid`: `TextSurvives` and `Spec` give `[]StarterIsValid`.

The invariant `CliInv` says that every file is what the YAML decoder can return
and names a directory that can be joined (`FilesAreDocuments`), that the
arguments are those of a command (`ArgsAreKnown`), that a loaded configuration
is `Proper` and its directory absolute (`LoadedIsProper`), and that the resolved
file of the last run is the one written from its configuration (`RanIsWritten`).
`StarterInv` adds that an own file of `init` was written from some of its
arguments: the command that wrote it is over, and its arguments are gone.

`TextSurvives` is a hypothesis and no assumption, since the code does not ensure
it: no argument, name of a directory or first environment that is not blank is
read back as blank. Go writes an invalid byte such as 0xA0 as `\xa0`, YAML reads
that as a no-break space, and `strings.TrimSpace` removes it: a test of that
name is refused by `validate`. Of text that is valid UTF-8 it holds.

The assumptions, and why the code justifies them:

- `TestFileAssumption`, `DefaultsAssumption`: `ParseDuration` reads what
  `Duration.String` writes, `Atoi` what `Itoa` writes, and the defaults are such
  values. Arguments are taken to be text that YAML returns as it was written:
  `yaml.v3` would write a port of invalid UTF-8 as `!!binary`.
- `CliAssumption`: the decoder returns lists of nodes; `TrimSpace` is idempotent;
  `resolveProjectDir` gives an absolute clean path, which is not blank and which
  another `resolveProjectDir` returns unchanged. It says so only of directories
  that are not blank, the others being refused.
- `StarterAssumption`: the durations and words in the text of `init` are ones that
  the parser accepts, plain words are read back as `init` quoted them, a base name is
  not empty, and the directory that `init` writes to exists.

### Only model-checked

- Liveness: it depends on fairness, which is beyond the prover.
- The properties of `Evaluator` on other text than their theorems' hypotheses
  allow. There the runs give counterexamples (`EvaluatorFold`, `EvaluatorTrim`).

## 5. Not modelled

- The fakes (`internal/testutil`): not part of the program.
- Console output, messages, durations as text, timestamps in the report, the
  name of an exit code, usage, `version` and the parsing of flags: wording, or
  without any state.
- The lines and columns of a validation error: a path is enough to tell whether
  the right place is blamed.
- Anchors, aliases and further documents of a YAML file: the decoder is the
  library's, and the parser refuses an alias or reads the first document only.
- What the operating system returns of a port: a set of ports with the signs
  that `plausible` looks for. A port stands for its board.
- The values in `result.json` other than status, code, steps and the existence
  of a failed assertion.
- Bytes and configurations inside `System`: the evaluator is its contract there,
  and the configuration is its list of steps, its port and its reset flag.
