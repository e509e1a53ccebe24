-------------------------------- MODULE Cli ---------------------------------
(***************************************************************************)
(* cmd/architon: `init`, `validate` and `test`, one after the other, on    *)
(* the test file of a project, while an editor may save that file between  *)
(* any two of their steps.  A run leaves config.resolved.yaml in its run   *)
(* directory; that file, too, may be validated and run.                    *)
(* The run itself is module Runner; what the file says is TestFile.        *)
(***************************************************************************)
EXTENDS TestFile, FiniteSets

CONSTANTS
  ProjectDir,   \* the directory of the test file
  RunDir,       \* the run directory
  Directories,  \* the directories that exist
  Files,        \* the test files that may be there at first
  Edits,        \* what the editor saves
  Inis,         \* platformio.ini: its [env:...] sections, in their order
  Names, Environments, PortArgs, Bauds,  \* the arguments of init, a port also of test
  DirName,      \* defaultTestName, from the name of the directory
  ReadBack(_),  \* what YAML reads in a quoted string
  RunCodes      \* the exit codes of a run (Runner)

Place == {ProjectDir, RunDir}

\* the project directories that files name
Directory(doc) == At(At(doc, "project"), "directory").value
Given == {Directory(f) : f \in Files \cup Edits} \cup {"."}

(* What the YAML decoder makes of a file has lists for its sections,       *)
(* trimming twice is trimming once, and a directory is joined to an        *)
(* absolute one: the result is absolute, so that another join leaves it.   *)
ASSUME CliAssumption ==
  /\ ProjectDir # RunDir
  /\ \A f \in Files \cup Edits : Decoded(f)
  /\ \A port \in PortArgs \cup {""} : TrimSpace(TrimSpace(port)) = TrimSpace(port)
  /\ TrimSpace("") = ""
  /\ \A d \in Given, p, q \in Place :
       TrimSpace(d) # "" => TrimSpace(Join(p, d)) # "" /\ Join(q, Join(p, d)) = Join(p, d)

(* What init writes by itself is text that the parser knows, words are     *)
(* read back as they were quoted, and the directory it writes to is there. *)
ASSUME StarterAssumption ==
  /\ \A t \in {"10s", "15s", "30s", "60s", "120s"} :
       t \in DOMAIN ParseDuration /\ ParseDuration[t] > 0
  /\ \A s \in {".", "System ready", "panic"} : TrimSpace(s) # ""
  /\ \A b \in Bauds : b \in Int /\ (b > 0 => b \in DOMAIN FormatInt)
  /\ DirName # ""
  /\ \A s \in {"name", "environment", "auto"} : ReadBack(s) = s /\ TrimSpace(s) # ""
  /\ ProjectDir \in Directories /\ Join(ProjectDir, ".") = ProjectDir

\* what a place holds when it has no file, and when it has a part of one
Missing == [kind |-> "missing", value |-> "", content |-> <<>>]
Torn    == [kind |-> "torn", value |-> "", content |-> <<>>]

OK                 == 0
InvalidConfig      == 3
EnvironmentFailure == 4

VARIABLES
  file,     \* the test file of each place
  ini,      \* platformio.ini
  pc,       \* "shell", "inspect", "write", "load", "stat" or "run"
  command,  \* "none", "init", "validate" or "test"
  args,     \* the flags of the command
  config,   \* the configuration that was loaded
  exit,     \* exit code of the last command, -1 before
  author,   \* history: whose the project's file is: "editor", "init" or "nobody"
  ran       \* history: the configurations whose run wrote the file of RunDir last

vars == <<file, ini, pc, command, args, config, exit, author, ran>>

NoArgs == [place |-> ProjectDir, force |-> FALSE, name |-> "", environment |-> "",
           port |-> "", baud |-> 0]
NoConfig == <<>>

Arguments ==
  [place : {ProjectDir}, force : BOOLEAN, name : Names, environment : Environments,
   port : PortArgs, baud : Bauds]

Init ==
  /\ \E f \in Files \cup {Missing} : file = [p \in Place |-> IF p = ProjectDir THEN f ELSE Missing]
  /\ ini \in Inis
  /\ pc = "shell"
  /\ command = "none"
  /\ args = NoArgs
  /\ config = NoConfig
  /\ exit = -1
  /\ author = "editor"
  /\ ran = <<>>

Editor ==
  /\ \E f \in Edits : file' = [file EXCEPT ![ProjectDir] = f]
  /\ author' = "editor"
  /\ UNCHANGED <<ini, pc, command, args, config, exit, ran>>

\* the command ends, and with it what it had in memory
Exit(code) ==
  /\ pc' = "shell"
  /\ exit' = code
  /\ command' = "none"
  /\ args' = NoArgs
  /\ config' = NoConfig

Run(c, to) ==
  /\ pc = "shell"
  /\ command' = c
  /\ pc' = to
  /\ exit' = -1
  /\ UNCHANGED <<file, ini, config, author, ran>>

-----------------------------------------------------------------------------
(* init *)

StartInit == \E a \in Arguments : args' = a /\ Run("init", IF a.force THEN "write" ELSE "inspect")

\* os.Stat, which may also fail
Inspect ==
  /\ pc = "inspect"
  /\ \/ file[ProjectDir] # Missing /\ Exit(InvalidConfig)
     \/ file[ProjectDir] = Missing /\ pc' = "write" /\ UNCHANGED <<command, args, config, exit>>
     \/ Exit(EnvironmentFailure)
  /\ UNCHANGED <<file, ini, author, ran>>

\* the first environment, even if it has no name
detectPlatformIOEnvironment == IF ini = <<>> THEN "" ELSE TrimSpace(Head(ini))

OrElse(value, default) == IF value = "" THEN default ELSE value

testName == OrElse(TrimSpace(args.name), DirName)

pioEnvironment ==
  OrElse(OrElse(TrimSpace(args.environment), detectPlatformIOEnvironment), "esp32-s3-devkitc-1")

\* strconv.Quote, and what YAML makes of it
yamlString(s) == Scalar(ReadBack(s))

Body(type, pairs) == MappingOf(<<<<type, MappingOf(pairs)>>>>)

(* Seeded fault: the port and the baud rate are written as they are given. *)
starterYAML_AsGiven(name, environment, port, baud) ==
  MappingOf(<<
    <<"version", Scalar("1")>>,
    <<"name", yamlString(name)>>,
    <<"project", MappingOf(<<<<"directory", Scalar(".")>>,
                             <<"environment", yamlString(environment)>>>>)>>,
    <<"device", MappingOf(<<<<"platform", Scalar("esp32")>>,
                            <<"port", yamlString(port)>>,
                            <<"baud", Scalar(FormatInt[baud])>>>>)>>,
    <<"steps", SequenceOf(<<Scalar("build"), Scalar("upload")>>)>>,
    <<"assertions", SequenceOf(<<>>)>>>>)

starterYAML(name, environment, port, baud) ==
  MappingOf(<<
    <<"version", Scalar("1")>>,
    <<"name", yamlString(name)>>,
    <<"project", MappingOf(<<<<"directory", Scalar(".")>>,
                             <<"environment", yamlString(environment)>>>>)>>,
    <<"device", MappingOf(<<
        <<"platform", Scalar("esp32")>>,
        <<"port", yamlString(OrElse(port, "auto"))>>,
        <<"baud", Scalar(FormatInt[IF baud <= 0 THEN DefaultBaud ELSE baud])>>>>)>>,
    <<"execution", MappingOf(<<
        <<"build_timeout", Scalar("120s")>>, <<"upload_timeout", Scalar("60s")>>,
        <<"boot_timeout", Scalar("15s")>>, <<"test_timeout", Scalar("30s")>>>>)>>,
    <<"steps", SequenceOf(<<Scalar("build"), Scalar("upload"),
                            Body("monitor", <<<<"duration", Scalar("10s")>>>>)>>)>>,
    <<"assertions", SequenceOf(<<
        Body("serial_contains", <<<<"value", Scalar("System ready")>>,
                                  <<"within", Scalar("10s")>>>>),
        Body("serial_not_contains", <<<<"value", Scalar("panic")>>,
                                      <<"case_sensitive", Scalar("false")>>>>)>>)>>>>)

(* What os.WriteFile may leave when it fails: it truncates before it       *)
(* writes, so a part of the file, which may be a test file by itself - the *)
(* assertions come last.                                                   *)
PartOf(doc) ==
  LET last == Len(doc.content)
      Cut(k) == [doc EXCEPT !.content[last][2].content = SubSeq(@, 1, k)]
  IN  {Torn} \cup {Cut(k) : k \in 1..Len(doc.content[last][2].content) - 1}

Starter == starterYAML(testName, pioEnvironment, TrimSpace(args.port), args.baud)

\* os.WriteFile may fail before it truncates the file or after
WriteStarter ==
  /\ pc = "write"
  /\ \/ /\ file' = [file EXCEPT ![ProjectDir] = Starter]
        /\ author' = "init"
        /\ Exit(OK)
     \/ /\ \E f \in {file[ProjectDir]} \cup PartOf(Starter) : file' = [file EXCEPT ![ProjectDir] = f]
        /\ author' = IF file' = file THEN author ELSE "nobody"
        /\ Exit(EnvironmentFailure)
  /\ UNCHANGED <<ini, ran>>

-----------------------------------------------------------------------------
(* validate and test *)

StartValidate ==
  \E p \in Place : args' = [NoArgs EXCEPT !.place = p] /\ Run("validate", "load")

StartTest ==
  \E p \in Place, port \in PortArgs :
    args' = [NoArgs EXCEPT !.place = p, !.port = port] /\ Run("test", "load")

Readable(doc) == doc \notin {Missing, Torn}

\* config.Load and the override of the port
LoadFile ==
  /\ pc = "load"
  /\ LET doc == file[args.place]
         valid(worst) == Readable(doc) /\ Fault(doc, worst) = NoFault
     IN  \E worst \in Timeouts :
           \/ ~valid(worst) /\ Exit(InvalidConfig)
           \/ /\ valid(worst)
              /\ config' = ApplyPortOverride(Resolved(Config(doc), args.place),
                                             args.port)
              /\ pc' = "stat"
              /\ UNCHANGED <<command, args, exit>>
  /\ UNCHANGED <<file, ini, author, ran>>

\* ValidateProjectDirectory, the end of `validate`
ValidateProjectDirectory ==
  /\ pc = "stat"
  /\ \/ config.project.directory \notin Directories /\ Exit(InvalidConfig)
     \/ config.project.directory \in Directories /\ command = "validate" /\ Exit(OK)
     \/ /\ config.project.directory \in Directories /\ command = "test"
        /\ pc' = "run"
        /\ UNCHANGED <<command, args, config, exit>>
  /\ UNCHANGED <<file, ini, author, ran>>

(* The run writes the resolved configuration into a new run directory; it  *)
(* may end before, fail to write all of it, or go on and end as Runner     *)
(* says.                                                                   *)
RunTest ==
  /\ pc = "run"
  /\ \/ /\ file' = [file EXCEPT ![RunDir] = ResolvedYAML(config)]
        /\ ran' = <<config>>
        /\ \E code \in RunCodes : Exit(code)
     \/ /\ Exit(EnvironmentFailure)
        /\ UNCHANGED <<file, ran>>
     \/ /\ \E f \in PartOf(ResolvedYAML(config)) : file' = [file EXCEPT ![RunDir] = f]
        /\ ran' = <<>>
        /\ Exit(EnvironmentFailure)
  /\ UNCHANGED <<ini, author>>

Command ==
  \/ StartInit \/ Inspect \/ WriteStarter
  \/ StartValidate \/ StartTest \/ LoadFile \/ ValidateProjectDirectory \/ RunTest

Next == Command \/ Editor

Spec == Init /\ [][Next]_vars

-----------------------------------------------------------------------------
(* Properties *)
(* What is said of files is said between two commands: each file that is  *)
(* ever written is there then.                                             *)

FilesAtRest == IF pc = "shell" THEN {file[p] : p \in {q \in Place : Readable(file[q])}} ELSE {}

(* What `init` writes, `validate` accepts and `test` starts, whatever the  *)
(* arguments, the name of the directory and platformio.ini are: no default *)
(* of init is one that the parser refuses (starterYAML against Parse).     *)
StarterIsValid ==
  pc = "shell" /\ author = "init" /\ Readable(file[ProjectDir]) =>
    /\ \A worst \in Timeouts : Fault(file[ProjectDir], worst) = NoFault
    /\ Resolved(Config(file[ProjectDir]), ProjectDir).project.directory \in Directories

(* config.resolved.yaml reproduces the run it was written by: it is        *)
(* accepted and gives the same configuration, port override and defaults   *)
(* included, from the place where it lies (ResolvedYAML against Load).     *)
ResolvedReproduces ==
  pc = "shell" /\ ran # <<>> =>
    /\ \A worst \in Timeouts : Fault(file[RunDir], worst) = NoFault
    /\ Resolved(Config(file[RunDir]), RunDir) = ran[1]

(* The runner is never started on a configuration it is not made for: one  *)
(* whose project is not there, whose assertions no step would judge, or    *)
(* whose commands and port would be given no time (Parse, validateConfig,  *)
(* ApplyPortOverride, ValidateProjectDirectory).                           *)
StartedIsRunnable ==
  pc = "run" =>
    /\ config.project.directory \in Directories
    /\ config.steps # <<>>
    /\ config.device.baud > 0 /\ TrimSpace(config.device.port) # ""
    /\ \A t \in Timeouts : config.execution.timeout[t] > 0
    /\ \A i \in DOMAIN config.assertions :
         /\ config.assertions[i].type = "serial_contains" => config.assertions[i].within > 0
         /\ \E j \in DOMAIN config.steps : config.steps[j].type = "monitor"

\* the fields of a document, as pairs of section and key
Fields(doc) ==
  LET Within(i) == LET n == doc.content[i][2]
                   IN  IF n.kind = "mapping" THEN [j \in DOMAIN n.content |->
                                                     <<doc.content[i][1], Keys(n)[j]>>]
                       ELSE << <<doc.content[i][1], "">> >>
  IN  UNION {{<<Within(i)[j], i, j>> : j \in DOMAIN Within(i)} : i \in DOMAIN doc.content}

(* Nothing in an accepted file is without effect: each of its fields is    *)
(* given once, and the configuration has it - it is there when the         *)
(* configuration is written out again (mapping: unsupported and duplicate  *)
(* fields; docs/test-format.md:5).                                         *)
NothingIgnored ==
  \A doc \in FilesAtRest :
    (\A worst \in Timeouts : Fault(doc, worst) = NoFault) =>
      /\ \A f, g \in Fields(doc) : f[1] = g[1] => f = g
      /\ \A f \in Fields(doc) :
           \/ f[1] = <<"execution", "reset_after_upload">>
           \/ \E g \in Fields(ResolvedYAML(Config(doc))) : f[1] = g[1]

\* the document with its fields in the opposite order
Reversed(doc) ==
  MappingOf([i \in DOMAIN doc.content |-> doc.content[Len(doc.content) + 1 - i]])

(* A mapping has no order: the same fields in another order are the same   *)
(* configuration, so that no default depends on what was read before it    *)
(* (Parse: the execution section before the assertions).                   *)
OrderOfFieldsIrrelevant ==
  \A doc \in FilesAtRest, worst \in Timeouts :
    doc.kind = "mapping" /\ Fault(doc, worst) = NoFault =>
        Fault(Reversed(doc), worst) = NoFault /\ Config(Reversed(doc)) = Config(doc)

\* the entries of a mapping but those of a key
Without(entries, key) ==
  LET kept[i \in 0..Len(entries)] ==
        IF i = 0 THEN <<>>
        ELSE IF entries[i][1] = key THEN kept[i - 1] ELSE Append(kept[i - 1], entries[i])
  IN  kept[Len(entries)]

Replace(n, key, node) ==
  MappingOf(IF node = Absent THEN Without(n.content, key)
            ELSE Append(Without(n.content, key), <<key, node>>))

\* the document with the node at `path` taken from a starter file
Repaired(doc, path) ==
  LET starter == starterYAML("name", "environment", "auto", DefaultBaud)
      section == At(doc, path[1])
      good    == At(starter, path[1])
  IN  Replace(doc, path[1],
              IF Len(path) > 1 /\ section.kind = "mapping"
              THEN Replace(section, path[2], At(good, path[2])) ELSE good)

(* The path of a validation error leads to what is wrong, in whatever      *)
(* order the timeouts are checked: once the node there is repaired, that   *)
(* path is not reported again (ValidationError; docs/test-format.md:5).    *)
BlameIsRight ==
  \A doc \in FilesAtRest, worst \in Timeouts :
    LET path == Fault(doc, worst).path IN
    path # <<>> => Fault(Repaired(doc, path), worst).path # path

(* README.md:95: "If the file already exists, `init` refuses to overwrite  *)
(* it."                                                                    *)
InitRefusesToOverwrite ==
  [][WriteStarter /\ ~args.force /\ file' # file => file[ProjectDir] = Missing]_vars
=============================================================================
