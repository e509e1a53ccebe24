------------------------------ MODULE TestFile -------------------------------
(***************************************************************************)
(* internal/config: what Parse makes of a test file, and the test file     *)
(* that ResolvedYAML makes of a configuration.  A document is a tree of    *)
(* nodes, as the YAML decoder gives it; scalars are tokens, and what the   *)
(* Go library reads in a token is given by tables.                         *)
(*                                                                         *)
(* A parse function of the source is two operators here: its Fault, the    *)
(* first error it returns, and its value when there is none.               *)
(***************************************************************************)
EXTENDS Integers, Sequences, TLC

CONSTANTS
  TrimSpace(_),       \* strings.TrimSpace
  Atoi,               \* strconv.Atoi: the integers, by their tokens
  ParseBool,          \* the booleans, by their tokens in any case
  ParseDuration,      \* time.ParseDuration: in seconds, by their tokens
  FormatDuration,     \* Duration.String: a token of each duration
  FormatInt,          \* a token of each integer
  Join(_, _)          \* filepath.Join of a directory and a path, unless it is absolute

(* What is written is read back, and what can be read can be written.      *)
ASSUME TestFileAssumption ==
  /\ \A d \in DOMAIN FormatDuration :
       FormatDuration[d] \in DOMAIN ParseDuration /\ ParseDuration[FormatDuration[d]] = d
  /\ \A n \in DOMAIN FormatInt : FormatInt[n] \in DOMAIN Atoi /\ Atoi[FormatInt[n]] = n
  /\ \A t \in DOMAIN ParseDuration :
       ParseDuration[t] \in Int /\ ParseDuration[t] \in DOMAIN FormatDuration
  /\ \A t \in DOMAIN Atoi : Atoi[t] \in Int /\ Atoi[t] \in DOMAIN FormatInt
  /\ \A t \in DOMAIN ParseBool : ParseBool[t] \in BOOLEAN
  /\ "1" \in DOMAIN Atoi /\ Atoi["1"] = 1
  /\ {"true", "false"} \subseteq DOMAIN ParseBool /\ ParseBool["true"] = TRUE /\ ParseBool["false"] = FALSE
  /\ TrimSpace("esp32") = "esp32"

-----------------------------------------------------------------------------
(* yaml.Node *)

Scalar(token)    == [kind |-> "scalar", value |-> token, content |-> <<>>]
SequenceOf(items) == [kind |-> "sequence", value |-> "", content |-> items]
MappingOf(pairs) == [kind |-> "mapping", value |-> "", content |-> pairs]
Absent           == [kind |-> "absent", value |-> "", content |-> <<>>]

\* children are numbered from 1, those of a document and those of its sections, which are nodes
IsList(s) == s \in Seq({s[i] : i \in DOMAIN s})

Decoded(doc) ==
  /\ IsList(doc.content)
  /\ doc.kind = "mapping" => \A i \in DOMAIN doc.content :
       doc.content[i][2].kind # "absent" /\ IsList(doc.content[i][2].content)

\* entries[key]; the last of equal keys
At(n, key) ==
  LET at == {i \in DOMAIN n.content : n.content[i][1] = key}
  IN  IF at = {} THEN Absent
      ELSE n.content[CHOOSE i \in at : \A j \in at : j <= i][2]

Keys(n) == [i \in DOMAIN n.content |-> n.content[i][1]]

-----------------------------------------------------------------------------
(* ValidationError *)

NoFault == [path |-> <<>>, why |-> "none"]

When(bad, path, why) == IF bad THEN [path |-> path, why |-> why] ELSE NoFault

\* the second check is made only when the first finds nothing
first ?? second == IF first # NoFault THEN first ELSE second

\* the first fault of the items of a sequence, at path[0], path[1], ...
FirstOf(n, path, FaultOf(_, _)) ==
  LET Here(i) == FaultOf(n.content[i], path \o <<ToString(i - 1)>>)
      bad == {i \in DOMAIN n.content : Here(i) # NoFault}
  IN  IF bad = {} THEN NoFault ELSE Here(CHOOSE i \in bad : \A j \in bad : i <= j)

-----------------------------------------------------------------------------
(* Scalars and mappings *)

stringScalar(n, path) == When(n.kind # "scalar", path, "must be a scalar")

requiredString(n, key, path) ==
  LET child == At(n, key)
      here  == Append(path, key)
  IN  When(child = Absent, here, "is required")
      ?? stringScalar(child, here)
      ?? When(TrimSpace(child.value) = "", here, "must not be empty")

\* intScalar, boolScalar and durationScalar: a scalar that the table knows
scalarIn(n, table, path) ==
  When(n.kind # "scalar" \/ n.value \notin DOMAIN table, path, "must be of its type")

positive(value, path) == When(value <= 0, path, "must be greater than zero")

\* a field that has a default
optional(n, key, path, table) ==
  IF At(n, key) = Absent THEN NoFault ELSE scalarIn(At(n, key), table, Append(path, key))

ValueOf(n, key, table, default) ==
  IF At(n, key) = Absent THEN default ELSE table[At(n, key).value]

(* Seeded fault: a field may be given twice, and the last one counts.      *)
mapping_LastWins(n, path, allowed) ==
  When(n = Absent, path, "is required")
  ?? When(n.kind # "mapping", path, "must be a mapping")
  ?? When(\E i \in DOMAIN n.content : Keys(n)[i] \notin allowed, path, "unsupported field")

mapping(n, path, allowed) ==
  LET Unknown(i) == Keys(n)[i] \notin allowed
      Repeated(i) == \E j \in 1..i - 1 : Keys(n)[j] = Keys(n)[i]
      bad == {i \in DOMAIN n.content : Unknown(i) \/ Repeated(i)}
      at  == CHOOSE i \in bad : \A j \in bad : i <= j
  IN  When(n = Absent, path, "is required")
      ?? When(n.kind # "mapping", path, "must be a mapping")
      ?? IF bad = {} THEN NoFault
         ELSE When(TRUE, Append(path, Keys(n)[at]),
                   IF Unknown(at) THEN "unsupported field" ELSE "duplicate field")

-----------------------------------------------------------------------------
(* project, device, execution *)

projectFault(n) ==
  LET path == <<"project">> IN
  mapping(n, path, {"directory", "environment"})
  ?? requiredString(n, "directory", path)
  ?? requiredString(n, "environment", path)

Project(n) == [directory |-> At(n, "directory").value, environment |-> At(n, "environment").value]

DefaultBaud == 115200

Device(n) ==
  [platform |-> At(n, "platform").value, port |-> At(n, "port").value,
   baud |-> ValueOf(n, "baud", Atoi, DefaultBaud)]

deviceFault(n) ==
  LET path == <<"device">> IN
  mapping(n, path, {"platform", "port", "baud"})
  ?? requiredString(n, "platform", path)
  ?? When(Device(n).platform # "esp32", Append(path, "platform"), "must be esp32")
  ?? requiredString(n, "port", path)
  ?? optional(n, "baud", path, Atoi)
  ?? positive(Device(n).baud, Append(path, "baud"))

DefaultTimeout == [build_timeout |-> 120, upload_timeout |-> 60, boot_timeout |-> 15,
                   test_timeout |-> 30]
Timeouts == DOMAIN DefaultTimeout

\* the defaults are durations and integers like others
ASSUME DefaultsAssumption ==
  /\ \A t \in Timeouts : DefaultTimeout[t] \in DOMAIN FormatDuration
  /\ DefaultBaud \in DOMAIN FormatInt

Execution(n) ==
  [timeout |-> [t \in Timeouts |-> ValueOf(n, t, ParseDuration, DefaultTimeout[t])],
   reset_after_upload |-> ValueOf(n, "reset_after_upload", ParseBool, FALSE)]

(* Seeded fault: the path is that of the timeout looked at first.          *)
timeoutFault_Misnamed(execution, worst) ==
  When(\E t \in Timeouts : execution.timeout[t] <= 0, <<"execution", worst>>,
       "must be greater than zero")

(* The timeouts are checked in the order of a Go map: any of those that    *)
(* are not positive may be the one reported.  `worst` is the one met first.*)
timeoutFault(execution, worst) ==
  LET bad == {t \in Timeouts : execution.timeout[t] <= 0}
      met == IF worst \in bad THEN worst ELSE CHOOSE t \in bad : TRUE
  IN  When(bad # {}, <<"execution", met>>, "must be greater than zero")

executionFault(n, worst) ==
  LET path == <<"execution">> IN
  IF n = Absent THEN NoFault
  ELSE mapping(n, path, Timeouts \cup {"reset_after_upload"})
       ?? optional(n, "build_timeout", path, ParseDuration)
       ?? optional(n, "upload_timeout", path, ParseDuration)
       ?? optional(n, "boot_timeout", path, ParseDuration)
       ?? optional(n, "test_timeout", path, ParseDuration)
       ?? optional(n, "reset_after_upload", path, ParseBool)
       ?? timeoutFault(Execution(n), worst)

-----------------------------------------------------------------------------
(* steps *)

monitorFault(item, path) ==
  LET monitor  == At(item, "monitor")
      duration == At(monitor, "duration")
      here     == Append(path, "monitor")
  IN  mapping(item, path, {"monitor"})
      ?? When(monitor = Absent, path, "must contain exactly one supported step")
      ?? mapping(monitor, here, {"duration"})
      ?? When(duration = Absent, Append(here, "duration"), "is required")
      ?? scalarIn(duration, ParseDuration, Append(here, "duration"))

stepFault(item, path) ==
  CASE item.kind = "scalar"  -> When(item.value \notin {"build", "upload"}, path, "unsupported step")
    [] item.kind = "mapping" -> monitorFault(item, path)
    [] OTHER                 -> When(TRUE, path, "must be a step")

stepsFault(n) ==
  When(n = Absent, <<"steps">>, "is required")
  ?? When(n.kind # "sequence", <<"steps">>, "must be a sequence")
  ?? FirstOf(n, <<"steps">>, stepFault)

Step(item) ==
  IF item.kind = "scalar" THEN [type |-> item.value, duration |-> 0]
  ELSE [type |-> "monitor",
        duration |-> ParseDuration[At(At(item, "monitor"), "duration").value]]

-----------------------------------------------------------------------------
(* assertions *)

AssertionFields == [serial_contains     |-> {"value", "within", "case_sensitive"},
                    serial_not_contains |-> {"value", "case_sensitive"}]

\* parseSerialContains and parseSerialNotContains; only the first has a deadline
assertionFault(item, path) ==
  LET type == Keys(item)[1]
      body == item.content[1][2]
      here == Append(path, type)
  IN  When(item.kind # "mapping", path, "must be a mapping")
      ?? When(Len(item.content) # 1, path, "must contain exactly one assertion")
      ?? When(type \notin DOMAIN AssertionFields, here, "unsupported assertion")
      ?? mapping(body, here, AssertionFields[type])
      ?? requiredString(body, "value", here)
      ?? optional(body, "within", here, ParseDuration)
      ?? positive(ValueOf(body, "within", ParseDuration, 1), Append(here, "within"))
      ?? optional(body, "case_sensitive", here, ParseBool)

assertionsFault(n) ==
  When(n = Absent, <<"assertions">>, "is required")
  ?? When(n.kind # "sequence", <<"assertions">>, "must be a sequence")
  ?? FirstOf(n, <<"assertions">>, assertionFault)

Assertion(item, defaultWithin) ==
  LET type == Keys(item)[1]
      body == item.content[1][2]
  IN  [type |-> type, value |-> At(body, "value").value,
       within |-> IF type = "serial_contains"
                  THEN ValueOf(body, "within", ParseDuration, defaultWithin) ELSE 0,
       case_sensitive |-> ValueOf(body, "case_sensitive", ParseBool, TRUE)]

-----------------------------------------------------------------------------
(* Parse *)

(* Seeded fault: one pass over the fields, so that an assertion gets the   *)
(* deadline of the execution section only if that comes first.             *)
Config_OnePass(doc) ==
  LET execution == Execution(At(doc, "execution"))
      steps      == At(doc, "steps").content
      assertions == At(doc, "assertions").content
      Place(key) == CHOOSE i \in DOMAIN doc.content : doc.content[i][1] = key
      default    == IF /\ At(doc, "execution") # Absent
                       /\ Place("execution") < Place("assertions")
                    THEN execution.timeout["test_timeout"] ELSE DefaultTimeout["test_timeout"]
  IN  [name       |-> At(doc, "name").value,
       project    |-> Project(At(doc, "project")),
       device     |-> Device(At(doc, "device")),
       execution  |-> execution,
       steps      |-> [i \in DOMAIN steps |-> Step(steps[i])],
       assertions |-> [i \in DOMAIN assertions |-> Assertion(assertions[i], default)]]

\* version is always 1
Config(doc) ==
  LET execution  == Execution(At(doc, "execution"))
      steps      == At(doc, "steps").content
      assertions == At(doc, "assertions").content
  IN  [name       |-> At(doc, "name").value,
       project    |-> Project(At(doc, "project")),
       device     |-> Device(At(doc, "device")),
       execution  |-> execution,
       steps      |-> [i \in DOMAIN steps |-> Step(steps[i])],
       assertions |-> [i \in DOMAIN assertions |->
                         Assertion(assertions[i], execution.timeout["test_timeout"])]]

(* Seeded fault: assertions are accepted without a monitor.                *)
configFault_NoMonitor(cfg) == When(cfg.steps = <<>>, <<"steps">>, "must include a step")

\* validateConfig
configFault(cfg) ==
  When(cfg.steps = <<>>, <<"steps">>, "must include a step")
  ?? When(/\ cfg.assertions # <<>>
          /\ \A i \in DOMAIN cfg.steps : cfg.steps[i].type # "monitor",
          <<"steps">>, "must include monitor")

Fault(doc, worst) ==
  LET name == At(doc, "name") IN
  When(doc = Absent, <<>>, "file is empty")
  ?? mapping(doc, <<>>, {"version", "name", "project", "device", "execution", "steps", "assertions"})
  ?? When(At(doc, "version") = Absent, <<"version">>, "is required")
  ?? scalarIn(At(doc, "version"), Atoi, <<"version">>)
  ?? When(Atoi[At(doc, "version").value] # 1, <<"version">>, "unsupported schema version")
  ?? When(name = Absent, <<"name">>, "is required")
  ?? stringScalar(name, <<"name">>)
  ?? When(TrimSpace(name.value) = "", <<"name">>, "must not be empty")
  ?? projectFault(At(doc, "project"))
  ?? deviceFault(At(doc, "device"))
  ?? executionFault(At(doc, "execution"), worst)
  ?? stepsFault(At(doc, "steps"))
  ?? assertionsFault(At(doc, "assertions"))
  ?? configFault(Config(doc))

-----------------------------------------------------------------------------
(* Load, ApplyPortOverride, ResolvedYAML *)

\* resolveProjectDir, for a test file in the directory `location`
Resolved(cfg, location) ==
  [cfg EXCEPT !.project.directory = Join(location, cfg.project.directory)]

ApplyPortOverride(cfg, port) ==
  IF TrimSpace(port) = "" THEN cfg ELSE [cfg EXCEPT !.device.port = TrimSpace(port)]

StepYAML(step) ==
  IF step.type # "monitor" THEN Scalar(step.type)
  ELSE MappingOf(<<<<"monitor",
         MappingOf(<<<<"duration", Scalar(FormatDuration[step.duration])>>>>)>>>>)

(* Seeded fault: the deadline is left to its default. *)
AssertionYAML_NoWithin(a) ==
  MappingOf(<<<<a.type, MappingOf(
    <<<<"case_sensitive", Scalar(IF a.case_sensitive THEN "true" ELSE "false")>>,
      <<"value", Scalar(a.value)>>>>)>>>>)

\* the keys of a Go map are written in their order
AssertionYAML(a) ==
  MappingOf(<<<<a.type, MappingOf(
    <<<<"case_sensitive", Scalar(IF a.case_sensitive THEN "true" ELSE "false")>>,
      <<"value", Scalar(a.value)>>>>
    \o IF a.type = "serial_contains" THEN <<<<"within", Scalar(FormatDuration[a.within])>>>>
       ELSE <<>>)>>>>)

\* reset_after_upload is left out when it is false
ExecutionYAML(execution) ==
  LET Entry(t) == <<t, Scalar(FormatDuration[execution.timeout[t]])>> IN
  MappingOf(<<Entry("build_timeout"), Entry("upload_timeout"), Entry("boot_timeout"),
              Entry("test_timeout")>>
            \o IF execution.reset_after_upload THEN <<<<"reset_after_upload", Scalar("true")>>>>
               ELSE <<>>)

ResolvedYAML(cfg) ==
  MappingOf(<<
    <<"version", Scalar("1")>>,
    <<"name", Scalar(cfg.name)>>,
    <<"project", MappingOf(<<<<"directory", Scalar(cfg.project.directory)>>,
                             <<"environment", Scalar(cfg.project.environment)>>>>)>>,
    <<"device", MappingOf(<<<<"platform", Scalar(cfg.device.platform)>>,
                            <<"port", Scalar(cfg.device.port)>>,
                            <<"baud", Scalar(FormatInt[cfg.device.baud])>>>>)>>,
    <<"execution", ExecutionYAML(cfg.execution)>>,
    <<"steps", SequenceOf([i \in DOMAIN cfg.steps |-> StepYAML(cfg.steps[i])])>>,
    <<"assertions", SequenceOf([i \in DOMAIN cfg.assertions |->
                                  AssertionYAML(cfg.assertions[i])])>>>>)
=============================================================================
