----------------------------- MODULE CliProofs ------------------------------
(***************************************************************************)
(* Theorems about Cli, for every set of test files, every edit and every   *)
(* table of what the Go library reads in a token.                          *)
(***************************************************************************)
EXTENDS Cli, SequenceTheorems, WellFoundedInduction, TLAPS

LEMMA LeastIndex ==
  ASSUME NEW T, T \subseteq Nat, T # {}
  PROVE  \E x \in T : \A y \in T : x <= y
<1>1. PICK x \in T : \A y \in T : ~ (<<y, x>> \in OpToRel(<, Nat))
  BY NatLessThanWellFounded, WFMin
<1>2. \A y \in T : ~(y < x)
  BY <1>1 DEF OpToRel
<1> QED
  BY <1>2

LEMMA GreatestIndex ==
  ASSUME NEW n \in Nat, NEW T, T \subseteq 1..n, T # {}
  PROVE  \E x \in T : \A y \in T : y <= x
<1> DEFINE D == {n - x : x \in T}
<1>1. \A x \in T : x \in Int /\ n - x \in Nat
  <2> SUFFICES ASSUME NEW x \in T PROVE x \in Int /\ n - x \in Nat
    OBVIOUS
  <2>1. x \in 1..n
    OBVIOUS
  <2> QED
    BY <2>1
<1>2. D \subseteq Nat /\ D # {}
  BY <1>1
<1>3. PICK d \in D : \A e \in D : d <= e
  <2> HIDE DEF D
  <2> QED
    BY <1>2, LeastIndex
<1>4. PICK x \in T : d = n - x
  BY <1>3
<1>5. ASSUME NEW y \in T PROVE y <= x
  <2>1. n - x <= n - y
    BY <1>3, <1>4
  <2>2. x \in Int /\ y \in Int
    BY <1>1
  <2> QED
    BY <2>1, <2>2
<1> QED
  BY <1>5

-----------------------------------------------------------------------------
(* Faults *)

(* A chain of checks finds nothing exactly when none of them does. *)
LEMMA OrFault ==
  ASSUME NEW a, NEW b
  PROVE  (a ?? b) = NoFault <=> a = NoFault /\ b = NoFault
BY DEF ??

LEMMA PositiveIs ==
  ASSUME NEW value \in Int, NEW path
  PROVE  positive(value, path) = NoFault <=> value > 0
<1>1. positive(value, path) = IF value <= 0 THEN [path |-> path, why |-> "must be greater than zero"]
                              ELSE NoFault
  BY DEF positive, When
<1>2. [path |-> path, why |-> "must be greater than zero"] # NoFault
  BY DEF NoFault
<1> DEFINE fault == [path |-> path, why |-> "must be greater than zero"]
<1> HIDE DEF fault
<1>3. positive(value, path) = IF value <= 0 THEN fault ELSE NoFault
  BY <1>1 DEF fault
<1>4. fault # NoFault
  BY <1>2 DEF fault
<1>5. value <= 0 \/ value > 0
  OBVIOUS
<1> QED
  BY <1>3, <1>4, <1>5

LEMMA RequiredStringIs ==
  ASSUME NEW n, NEW key, NEW path, requiredString(n, key, path) = NoFault
  PROVE  At(n, key) # Absent /\ At(n, key).kind = "scalar" /\ TrimSpace(At(n, key).value) # ""
<1> DEFINE child == At(n, key)
           here == Append(path, key)
           required == When(child = Absent, here, "is required")
           scalar == stringScalar(child, here)
           solid == When(TrimSpace(child.value) = "", here, "must not be empty")
<1>1. (required ?? scalar ?? solid) = NoFault
  BY DEF requiredString
<1>2. required = NoFault /\ scalar = NoFault /\ solid = NoFault
  <2> HIDE DEF required, scalar, solid
  <2> QED
    BY <1>1, OrFault
<1> QED
  BY <1>2 DEF When, NoFault, stringScalar

LEMMA MappingIs ==
  ASSUME NEW n, NEW path, NEW allowed, mapping(n, path, allowed) = NoFault
  PROVE  /\ n # Absent /\ n.kind = "mapping"
         /\ \A i \in DOMAIN n.content :
              /\ n.content[i][1] \in allowed
              /\ \A j \in 1..(i - 1) : Keys(n)[j] # n.content[i][1]
<1> DEFINE bad == {i \in DOMAIN n.content :
                     \/ Keys(n)[i] \notin allowed
                     \/ \E j \in 1..(i - 1) : Keys(n)[j] = Keys(n)[i]}
           at == CHOOSE i \in bad : \A j \in bad : i <= j
           why == IF Keys(n)[at] \notin allowed THEN "unsupported field" ELSE "duplicate field"
           required == When(n = Absent, path, "is required")
           kind == When(n.kind # "mapping", path, "must be a mapping")
           fields == IF bad = {} THEN NoFault ELSE When(TRUE, Append(path, Keys(n)[at]), why)
<1>0. (required ?? kind ?? fields) = NoFault
  BY DEF mapping
<1>1. required = NoFault /\ kind = NoFault /\ fields = NoFault
  <2> HIDE DEF required, kind, fields
  <2> QED
    BY <1>0, OrFault
<1>2. n # Absent /\ n.kind = "mapping"
  BY <1>1 DEF When, NoFault
<1>3. bad = {}
  <2> HIDE DEF bad
  <2>1. why # "none"
    OBVIOUS
  <2> HIDE DEF why, at
  <2> QED
    BY <1>1, <2>1 DEF When, NoFault
<1>4. \A i \in DOMAIN n.content : Keys(n)[i] = n.content[i][1]
  BY DEF Keys
<1> QED
  BY <1>2, <1>3, <1>4

LEMMA ScalarInIs ==
  ASSUME NEW n, NEW table, NEW path, scalarIn(n, table, path) = NoFault
  PROVE  n.kind = "scalar" /\ n.value \in DOMAIN table
BY DEF scalarIn, When, NoFault

(* An optional field that is accepted has a value of the table, or the     *)
(* default.                                                                *)
LEMMA OptionalIs ==
  ASSUME NEW n, NEW key, NEW path, NEW table, NEW S, NEW default \in S,
         \A t \in DOMAIN table : table[t] \in S,
         optional(n, key, path, table) = NoFault
  PROVE  ValueOf(n, key, table, default) \in S
<1>1. CASE At(n, key) = Absent
  BY <1>1 DEF ValueOf
<1>2. CASE At(n, key) # Absent
  <2>1. scalarIn(At(n, key), table, Append(path, key)) = NoFault
    BY <1>2 DEF optional
  <2>2. At(n, key).value \in DOMAIN table
    BY <2>1, ScalarInIs
  <2> QED
    BY <1>2, <2>2 DEF ValueOf
<1> QED
  BY <1>1, <1>2

-----------------------------------------------------------------------------
(* Documents *)

(* What a key leads to is one of the children, or nothing. *)
LEMMA AtIs ==
  ASSUME NEW n, IsList(n.content), NEW key
  PROVE  \/ At(n, key) = Absent /\ \A i \in DOMAIN n.content : n.content[i][1] # key
         \/ \E i \in DOMAIN n.content :
              /\ n.content[i][1] = key /\ At(n, key) = n.content[i][2]
              /\ \A j \in DOMAIN n.content : n.content[j][1] = key => j <= i
<1> DEFINE at == {i \in DOMAIN n.content : n.content[i][1] = key}
<1>1. At(n, key) = IF at = {} THEN Absent
                   ELSE n.content[CHOOSE i \in at : \A j \in at : j <= i][2]
  BY DEF At
<1>2. CASE at = {}
  BY <1>1, <1>2
<1>3. CASE at # {}
  <2>1. Len(n.content) \in Nat /\ at \subseteq 1..Len(n.content)
    BY DEF IsList
  <2>2. \E i \in at : \A j \in at : j <= i
    <3> HIDE DEF at
    <3> QED
      BY <1>3, <2>1, GreatestIndex
  <2>3. PICK i \in at : (\A j \in at : j <= i) /\ At(n, key) = n.content[i][2]
    BY <1>1, <1>3, <2>2
  <2> QED
    BY <2>3
<1> QED
  BY <1>2, <1>3

LEMMA AtOfAbsent == ASSUME NEW key PROVE At(Absent, key) = Absent
BY DEF At, Absent

LEMMA ListIs ==
  ASSUME NEW s, IsList(s)
  PROVE  Len(s) \in Nat /\ DOMAIN s = 1..Len(s)
BY DEF IsList

LEMMA EmptyIsList == IsList(<<>>)
BY DEF IsList

LEMMA FunctionIsList ==
  ASSUME NEW n \in Nat, NEW s, s = [i \in 1..n |-> s[i]]
  PROVE  IsList(s)
<1>1. DOMAIN s = 1..n
  OBVIOUS
<1>2. s \in [1..n -> {s[i] : i \in DOMAIN s}]
  BY <1>1
<1> QED
  BY <1>2 DEF IsList

(* The sections of a decoded document have lists of children. *)
LEMMA SectionIsList ==
  ASSUME NEW doc, Decoded(doc), doc.kind = "mapping", NEW key
  PROVE  IsList(At(doc, key).content)
<1>1. IsList(Absent.content)
  BY DEF IsList, Absent
<1> QED
  BY <1>1, AtIs DEF Decoded

-----------------------------------------------------------------------------
(* What Parse accepts *)

(* A sequence of steps without a fault has no step with one, ...           *)
LEMMA StepsAreFaultless ==
  ASSUME NEW n, IsList(n.content), stepsFault(n) = NoFault
  PROVE  \A i \in DOMAIN n.content :
           stepFault(n.content[i], <<"steps">> \o <<ToString(i - 1)>>) = NoFault
<1> DEFINE Here(i) == stepFault(n.content[i], <<"steps">> \o <<ToString(i - 1)>>)
           bad == {i \in DOMAIN n.content : Here(i) # NoFault}
           items == FirstOf(n, <<"steps">>, stepFault)
           required == When(n = Absent, <<"steps">>, "is required")
           kind == When(n.kind # "sequence", <<"steps">>, "must be a sequence")
<1>1. (required ?? kind ?? items) = NoFault
  BY DEF stepsFault
<1>2. items = NoFault
  <2> HIDE DEF required, kind, items
  <2> QED
    BY <1>1, OrFault
<1>3. items = IF bad = {} THEN NoFault ELSE Here(CHOOSE i \in bad : \A j \in bad : i <= j)
  BY DEF FirstOf
<1>4. bad = {}
  <2> SUFFICES ASSUME bad # {} PROVE FALSE
    OBVIOUS
  <2>1. bad \subseteq Nat
    BY ListIs
  <2>2. \E i \in bad : \A j \in bad : i <= j
    <3> HIDE DEF bad
    <3> QED
      BY <2>1, LeastIndex
  <2>3. PICK i \in bad : Here(i) = NoFault
    <3> HIDE DEF Here, items
    <3> QED
      BY <1>2, <1>3, <2>2
  <2> QED
    BY <2>3
<1> QED
  BY <1>4

(* ... and one of assertions no such assertion.                            *)
LEMMA AssertionsAreFaultless ==
  ASSUME NEW n, IsList(n.content), assertionsFault(n) = NoFault
  PROVE  \A i \in DOMAIN n.content :
           assertionFault(n.content[i], <<"assertions">> \o <<ToString(i - 1)>>) = NoFault
<1> DEFINE Here(i) == assertionFault(n.content[i], <<"assertions">> \o <<ToString(i - 1)>>)
           bad == {i \in DOMAIN n.content : Here(i) # NoFault}
           items == FirstOf(n, <<"assertions">>, assertionFault)
           required == When(n = Absent, <<"assertions">>, "is required")
           kind == When(n.kind # "sequence", <<"assertions">>, "must be a sequence")
<1>1. (required ?? kind ?? items) = NoFault
  BY DEF assertionsFault
<1>2. items = NoFault
  <2> HIDE DEF required, kind, items
  <2> QED
    BY <1>1, OrFault
<1>3. items = IF bad = {} THEN NoFault ELSE Here(CHOOSE i \in bad : \A j \in bad : i <= j)
  BY DEF FirstOf
<1>4. bad = {}
  <2> SUFFICES ASSUME bad # {} PROVE FALSE
    OBVIOUS
  <2>1. bad \subseteq Nat
    BY ListIs
  <2>2. \E i \in bad : \A j \in bad : i <= j
    <3> HIDE DEF bad
    <3> QED
      BY <2>1, LeastIndex
  <2>3. PICK i \in bad : Here(i) = NoFault
    <3> HIDE DEF Here, items
    <3> QED
      BY <1>2, <1>3, <2>2
  <2> QED
    BY <2>3
<1> QED
  BY <1>4

(* What the parser promises of each part of a configuration: it can be run *)
(* and it can be written.                                                  *)
Solid(token) == TrimSpace(token) # ""

Duration(d) == d \in Int /\ d \in DOMAIN FormatDuration

ProperProject(p) ==
  /\ p = [directory |-> p.directory, environment |-> p.environment]
  /\ Solid(p.directory) /\ Solid(p.environment)

ProperDevice(d) ==
  /\ d = [platform |-> "esp32", port |-> d.port, baud |-> d.baud]
  /\ Solid(d.port)
  /\ d.baud \in Int /\ d.baud > 0 /\ d.baud \in DOMAIN FormatInt

ProperExecution(x) ==
  /\ x = [timeout |-> [t \in Timeouts |-> x.timeout[t]],
          reset_after_upload |-> x.reset_after_upload]
  /\ \A t \in Timeouts : Duration(x.timeout[t]) /\ x.timeout[t] > 0
  /\ x.reset_after_upload \in BOOLEAN

ProperStep(s) ==
  \/ s \in {[type |-> type, duration |-> 0] : type \in {"build", "upload"}}
  \/ s = [type |-> "monitor", duration |-> s.duration] /\ Duration(s.duration)

ProperAssertion(a) ==
  /\ a = [type |-> a.type, value |-> a.value, within |-> a.within,
          case_sensitive |-> a.case_sensitive]
  /\ a.type \in {"serial_contains", "serial_not_contains"}
  /\ Solid(a.value)
  /\ a.case_sensitive \in BOOLEAN
  /\ IF a.type = "serial_contains" THEN Duration(a.within) /\ a.within > 0 ELSE a.within = 0

Proper(cfg) ==
  /\ cfg = [name |-> cfg.name, project |-> cfg.project, device |-> cfg.device,
            execution |-> cfg.execution, steps |-> cfg.steps, assertions |-> cfg.assertions]
  /\ Solid(cfg.name)
  /\ ProperProject(cfg.project)
  /\ ProperDevice(cfg.device)
  /\ ProperExecution(cfg.execution)
  /\ IsList(cfg.steps) /\ \A i \in DOMAIN cfg.steps : ProperStep(cfg.steps[i])
  /\ IsList(cfg.assertions) /\ \A i \in DOMAIN cfg.assertions : ProperAssertion(cfg.assertions[i])
  /\ cfg.steps # <<>>
  /\ cfg.assertions # <<>> => \E j \in DOMAIN cfg.steps : cfg.steps[j].type = "monitor"

LEMMA ProjectParsed ==
  ASSUME NEW n, projectFault(n) = NoFault
  PROVE  ProperProject(Project(n))
<1> DEFINE path == <<"project">>
           f1 == mapping(n, path, {"directory", "environment"})
           f2 == requiredString(n, "directory", path)
           f3 == requiredString(n, "environment", path)
<1>1. (f1 ?? f2 ?? f3) = NoFault
  BY DEF projectFault
<1>2. f2 = NoFault /\ f3 = NoFault
  <2> HIDE DEF f1, f2, f3
  <2> QED
    BY <1>1, OrFault
<1>3. Solid(At(n, "directory").value) /\ Solid(At(n, "environment").value)
  BY <1>2, RequiredStringIs DEF Solid
<1> QED
  BY <1>3 DEF ProperProject, Project

LEMMA DeviceParsed ==
  ASSUME NEW n, deviceFault(n) = NoFault
  PROVE  ProperDevice(Device(n))
<1> DEFINE path == <<"device">>
           f1 == mapping(n, path, {"platform", "port", "baud"})
           f2 == requiredString(n, "platform", path)
           f3 == When(Device(n).platform # "esp32", Append(path, "platform"), "must be esp32")
           f4 == requiredString(n, "port", path)
           f5 == optional(n, "baud", path, Atoi)
           f6 == positive(Device(n).baud, Append(path, "baud"))
           platform == At(n, "platform").value
           port == At(n, "port").value
           baud == ValueOf(n, "baud", Atoi, DefaultBaud)
<1>1. (f1 ?? f2 ?? f3 ?? f4 ?? f5 ?? f6) = NoFault
  BY DEF deviceFault
<1>2. f3 = NoFault /\ f4 = NoFault /\ f5 = NoFault /\ f6 = NoFault
  <2> HIDE DEF f1, f2, f3, f4, f5, f6
  <2> QED
    BY <1>1, OrFault
<1>3. Device(n) = [platform |-> platform, port |-> port, baud |-> baud]
  BY DEF Device
<1>4. platform = "esp32"
  <2>1. Device(n).platform = "esp32"
    BY <1>2 DEF When, NoFault
  <2> QED
    BY <1>3, <2>1
<1>5. Solid(port)
  BY <1>2, RequiredStringIs DEF Solid
<1>6. baud \in Int /\ baud \in DOMAIN FormatInt
  <2>1. DefaultBaud \in Int /\ DefaultBaud \in DOMAIN FormatInt
    BY DefaultsAssumption DEF DefaultBaud
  <2>2. \A t \in DOMAIN Atoi : Atoi[t] \in Int /\ Atoi[t] \in DOMAIN FormatInt
    BY TestFileAssumption
  <2> HIDE DEF path
  <2> QED
    BY <1>2, <2>1, <2>2, OptionalIs
<1>7. baud > 0
  <2>1. positive(baud, Append(path, "baud")) = NoFault
    <3>1. Device(n).baud = baud
      BY DEF Device
    <3> HIDE DEF baud, path
    <3> QED
      BY <1>2, <3>1
  <2> HIDE DEF baud
  <2> QED
    BY <1>6, <2>1, PositiveIs
<1> HIDE DEF platform, port, baud
<1> QED
  BY <1>3, <1>4, <1>5, <1>6, <1>7 DEF ProperDevice

LEMMA ExecutionParsed ==
  ASSUME NEW n, NEW worst \in Timeouts, executionFault(n, worst) = NoFault
  PROVE  ProperExecution(Execution(n))
<1> DEFINE timeout == Execution(n).timeout
           reset == ValueOf(n, "reset_after_upload", ParseBool, FALSE)
<1>1. \A t \in Timeouts : timeout[t] = ValueOf(n, t, ParseDuration, DefaultTimeout[t])
  BY DEF Execution
<1>2. Timeouts = {"build_timeout", "upload_timeout", "boot_timeout", "test_timeout"}
  BY DEF Timeouts, DefaultTimeout
<1>3. \A t \in Timeouts : Duration(DefaultTimeout[t]) /\ DefaultTimeout[t] > 0
  <2>1. \A t \in Timeouts : DefaultTimeout[t] \in Int /\ DefaultTimeout[t] > 0
    BY <1>2 DEF DefaultTimeout
  <2> QED
    BY <2>1, DefaultsAssumption DEF Duration
<1>4. (\A t \in Timeouts : Duration(timeout[t]) /\ timeout[t] > 0) /\ reset \in BOOLEAN
  <2>1. CASE n = Absent
    <3>1. reset = FALSE
      BY <2>1, AtOfAbsent DEF ValueOf
    <3>2. \A t \in Timeouts : timeout[t] = DefaultTimeout[t]
      BY <1>1, <2>1, AtOfAbsent DEF ValueOf
    <3> HIDE DEF reset, timeout
    <3> QED
      BY <1>3, <3>1, <3>2
  <2>2. CASE n # Absent
    <3> DEFINE path == <<"execution">>
               f1 == mapping(n, path, Timeouts \cup {"reset_after_upload"})
               f2 == optional(n, "build_timeout", path, ParseDuration)
               f3 == optional(n, "upload_timeout", path, ParseDuration)
               f4 == optional(n, "boot_timeout", path, ParseDuration)
               f5 == optional(n, "test_timeout", path, ParseDuration)
               f6 == optional(n, "reset_after_upload", path, ParseBool)
               f7 == timeoutFault(Execution(n), worst)
    <3>1. (f1 ?? f2 ?? f3 ?? f4 ?? f5 ?? f6 ?? f7) = NoFault
      BY <2>2 DEF executionFault
    <3>2. /\ f2 = NoFault /\ f3 = NoFault /\ f4 = NoFault /\ f5 = NoFault
          /\ f6 = NoFault /\ f7 = NoFault
      <4> HIDE DEF f1, f2, f3, f4, f5, f6, f7
      <4> QED
        BY <3>1, OrFault
    <3>3. ASSUME NEW t \in Timeouts PROVE Duration(timeout[t])
      <4>1. optional(n, t, path, ParseDuration) = NoFault
        BY <3>2, <1>2
      <4>2. \A u \in DOMAIN ParseDuration :
              ParseDuration[u] \in Int /\ ParseDuration[u] \in DOMAIN FormatDuration
        BY TestFileAssumption
      <4>3. DefaultTimeout[t] \in Int /\ DefaultTimeout[t] \in DOMAIN FormatDuration
        BY <1>3 DEF Duration
      <4> HIDE DEF path
      <4>4. /\ ValueOf(n, t, ParseDuration, DefaultTimeout[t]) \in Int
            /\ ValueOf(n, t, ParseDuration, DefaultTimeout[t]) \in DOMAIN FormatDuration
        BY <4>1, <4>2, <4>3, OptionalIs
      <4> QED
        BY <1>1, <4>4 DEF Duration
    <3>4. {t \in Timeouts : timeout[t] <= 0} = {}
      <4> DEFINE bad == {t \in Timeouts : timeout[t] <= 0}
                 met == IF worst \in bad THEN worst ELSE CHOOSE t \in bad : TRUE
      <4>1. f7 = When(bad # {}, <<"execution", met>>, "must be greater than zero")
        BY DEF timeoutFault
      <4>2. f7 = NoFault
        BY <3>2
      <4> HIDE DEF bad, met, f7
      <4>3. ASSUME bad # {} PROVE FALSE
        <5>1. f7 = [path |-> <<"execution", met>>, why |-> "must be greater than zero"]
          BY <4>1, <4>3 DEF When
        <5>2. f7.why = "must be greater than zero"
          BY <5>1
        <5>3. NoFault.why = "none"
          BY DEF NoFault
        <5> QED
          BY <4>2, <5>2, <5>3
      <4> QED
        BY <4>3 DEF bad
    <3>5. ASSUME NEW t \in Timeouts PROVE timeout[t] > 0
      <4>1. timeout[t] \in Int /\ ~(timeout[t] <= 0)
        BY <3>3, <3>4 DEF Duration
      <4> HIDE DEF timeout
      <4> QED
        BY <4>1
    <3>6. reset \in BOOLEAN
      <4>1. CASE At(n, "reset_after_upload") = Absent
        BY <4>1 DEF ValueOf
      <4>2. CASE At(n, "reset_after_upload") # Absent
        <5>1. scalarIn(At(n, "reset_after_upload"), ParseBool,
                       Append(path, "reset_after_upload")) = NoFault
          BY <3>2, <4>2 DEF optional
        <5>2. At(n, "reset_after_upload").value \in DOMAIN ParseBool
          BY <5>1, ScalarInIs
        <5> QED
          BY <4>2, <5>2, TestFileAssumption DEF ValueOf
      <4> QED
        BY <4>1, <4>2
    <3> QED
      BY <3>3, <3>5, <3>6
  <2> QED
    BY <2>1, <2>2
<1>5. Execution(n) = [timeout |-> [t \in Timeouts |-> timeout[t]], reset_after_upload |-> reset]
  BY DEF Execution
<1> HIDE DEF timeout, reset
<1>6. Execution(n).timeout = [t \in Timeouts |-> timeout[t]] /\ Execution(n).reset_after_upload = reset
  BY <1>5
<1> DEFINE x == Execution(n)
<1> HIDE DEF x
<1>7. /\ x = [timeout |-> [t \in Timeouts |-> x.timeout[t]],
              reset_after_upload |-> x.reset_after_upload]
      /\ \A t \in Timeouts : Duration(x.timeout[t]) /\ x.timeout[t] > 0
      /\ x.reset_after_upload \in BOOLEAN
  BY <1>4, <1>5, <1>6 DEF x
<1> QED
  BY <1>7 DEF ProperExecution, x

LEMMA StepParsed ==
  ASSUME NEW item, NEW path, stepFault(item, path) = NoFault
  PROVE  ProperStep(Step(item))
<1>1. CASE item.kind = "scalar"
  <2>1. When(item.value \notin {"build", "upload"}, path, "unsupported step") = NoFault
    BY <1>1 DEF stepFault
  <2>2. item.value \in {"build", "upload"}
    BY <2>1 DEF When, NoFault
  <2> QED
    BY <1>1, <2>2 DEF Step, ProperStep
<1>2. CASE item.kind = "mapping"
  <2> DEFINE monitor == At(item, "monitor")
             child == At(monitor, "duration")
             here == Append(path, "monitor")
             f1 == mapping(item, path, {"monitor"})
             f2 == When(monitor = Absent, path, "must contain exactly one supported step")
             f3 == mapping(monitor, here, {"duration"})
             f4 == When(child = Absent, Append(here, "duration"), "is required")
             f5 == scalarIn(child, ParseDuration, Append(here, "duration"))
  <2>1. (f1 ?? f2 ?? f3 ?? f4 ?? f5) = NoFault
    BY <1>2 DEF stepFault, monitorFault
  <2>2. f5 = NoFault
    <3> HIDE DEF f1, f2, f3, f4, f5
    <3> QED
      BY <2>1, OrFault
  <2>3. child.value \in DOMAIN ParseDuration
    BY <2>2, ScalarInIs
  <2>4. Duration(ParseDuration[child.value])
    BY <2>3, TestFileAssumption DEF Duration
  <2>5. Step(item) = [type |-> "monitor", duration |-> ParseDuration[child.value]]
    BY <1>2 DEF Step
  <2> HIDE DEF child
  <2> QED
    BY <2>4, <2>5 DEF ProperStep
<1>3. CASE item.kind \notin {"scalar", "mapping"}
  <2>1. stepFault(item, path) = When(TRUE, path, "must be a step")
    BY <1>3 DEF stepFault
  <2>2. stepFault(item, path) = [path |-> path, why |-> "must be a step"]
    BY <2>1 DEF When
  <2>3. NoFault.why = "none"
    BY DEF NoFault
  <2> DEFINE fault == stepFault(item, path)
  <2>4. fault = [path |-> path, why |-> "must be a step"]
    BY <2>2
  <2> HIDE DEF fault
  <2>5. fault.why = "must be a step"
    BY <2>4
  <2> QED
    BY <2>3, <2>5 DEF fault
<1> QED
  BY <1>1, <1>2, <1>3

LEMMA AssertionParsed ==
  ASSUME NEW item, NEW path, assertionFault(item, path) = NoFault,
         NEW default, Duration(default), default > 0
  PROVE  ProperAssertion(Assertion(item, default))
<1> DEFINE type == Keys(item)[1]
           body == item.content[1][2]
           here == Append(path, type)
           f1 == When(item.kind # "mapping", path, "must be a mapping")
           f2 == When(Len(item.content) # 1, path, "must contain exactly one assertion")
           f3 == When(type \notin DOMAIN AssertionFields, here, "unsupported assertion")
           f4 == mapping(body, here, AssertionFields[type])
           f5 == requiredString(body, "value", here)
           f6 == optional(body, "within", here, ParseDuration)
           f7 == positive(ValueOf(body, "within", ParseDuration, 1), Append(here, "within"))
           f8 == optional(body, "case_sensitive", here, ParseBool)
           within == ValueOf(body, "within", ParseDuration, default)
           sensitive == ValueOf(body, "case_sensitive", ParseBool, TRUE)
           value == At(body, "value").value
<1>1. (f1 ?? f2 ?? f3 ?? f4 ?? f5 ?? f6 ?? f7 ?? f8) = NoFault
  BY DEF assertionFault
<1>2. f3 = NoFault /\ f5 = NoFault /\ f6 = NoFault /\ f7 = NoFault /\ f8 = NoFault
  <2> HIDE DEF f1, f2, f3, f4, f5, f6, f7, f8
  <2> QED
    BY <1>1, OrFault
<1>3. type \in {"serial_contains", "serial_not_contains"}
  <2>1. DOMAIN AssertionFields = {"serial_contains", "serial_not_contains"}
    BY DEF AssertionFields
  <2> HIDE DEF type
  <2>2. type \in DOMAIN AssertionFields
    BY <1>2 DEF When, NoFault
  <2> QED
    BY <2>1, <2>2
<1>4. Solid(value)
  BY <1>2, RequiredStringIs DEF Solid
<1>5. Duration(within) /\ within > 0
  <2>1. \A t \in DOMAIN ParseDuration : ParseDuration[t] \in Int
    BY TestFileAssumption
  <2>2. ValueOf(body, "within", ParseDuration, 1) \in Int
    <3>1. optional(body, "within", here, ParseDuration) = NoFault
      BY <1>2
    <3> HIDE DEF body, here
    <3> QED
      BY <2>1, <3>1, OptionalIs
  <2>3. ValueOf(body, "within", ParseDuration, 1) > 0
    <3> HIDE DEF body, here
    <3> QED
      BY <1>2, <2>2, PositiveIs
  <2>4. CASE At(body, "within") = Absent
    BY <2>4 DEF ValueOf
  <2>5. CASE At(body, "within") # Absent
    <3>1. scalarIn(At(body, "within"), ParseDuration, Append(here, "within")) = NoFault
      BY <1>2, <2>5 DEF optional
    <3>2. At(body, "within").value \in DOMAIN ParseDuration
      BY <3>1, ScalarInIs
    <3>3. within = ParseDuration[At(body, "within").value]
      BY <2>5 DEF ValueOf
    <3>4. within = ValueOf(body, "within", ParseDuration, 1)
      BY <2>5 DEF ValueOf
    <3>5. Duration(within)
      BY <3>2, <3>3, TestFileAssumption DEF Duration
    <3> HIDE DEF within
    <3> QED
      BY <2>3, <3>4, <3>5
  <2> QED
    BY <2>4, <2>5
<1>6. sensitive \in BOOLEAN
  <2>1. CASE At(body, "case_sensitive") = Absent
    BY <2>1 DEF ValueOf
  <2>2. CASE At(body, "case_sensitive") # Absent
    <3>1. scalarIn(At(body, "case_sensitive"), ParseBool, Append(here, "case_sensitive")) = NoFault
      BY <1>2, <2>2 DEF optional
    <3>2. At(body, "case_sensitive").value \in DOMAIN ParseBool
      BY <3>1, ScalarInIs
    <3> QED
      BY <2>2, <3>2, TestFileAssumption DEF ValueOf
  <2> QED
    BY <2>1, <2>2
<1>7. Assertion(item, default)
        = [type |-> type, value |-> value, within |-> IF type = "serial_contains" THEN within ELSE 0,
           case_sensitive |-> sensitive]
  BY DEF Assertion
<1> HIDE DEF type, value, within, sensitive
<1> QED
  BY <1>3, <1>4, <1>5, <1>6, <1>7 DEF ProperAssertion

LEMMA ChecksAreMade ==
  ASSUME NEW doc, NEW worst, Fault(doc, worst) = NoFault
  PROVE  /\ At(doc, "version").kind = "scalar"
         /\ At(doc, "name").kind = "scalar" /\ TrimSpace(At(doc, "name").value) # ""
         /\ projectFault(At(doc, "project")) = NoFault
         /\ stepsFault(At(doc, "steps")) = NoFault
         /\ mapping(doc, <<>>, {"version", "name", "project", "device", "execution", "steps",
                                "assertions"}) = NoFault
         /\ deviceFault(At(doc, "device")) = NoFault
         /\ executionFault(At(doc, "execution"), worst) = NoFault
         /\ assertionsFault(At(doc, "assertions")) = NoFault
         /\ configFault(Config(doc)) = NoFault
<1> DEFINE name == At(doc, "name")
           f1 == When(doc = Absent, <<>>, "file is empty")
           f2 == mapping(doc, <<>>, {"version", "name", "project", "device", "execution", "steps",
                                     "assertions"})
           f3 == When(At(doc, "version") = Absent, <<"version">>, "is required")
           f4 == scalarIn(At(doc, "version"), Atoi, <<"version">>)
           f5 == When(Atoi[At(doc, "version").value] # 1, <<"version">>, "unsupported schema version")
           f6 == When(name = Absent, <<"name">>, "is required")
           f7 == stringScalar(name, <<"name">>)
           f8 == When(TrimSpace(name.value) = "", <<"name">>, "must not be empty")
           f9 == projectFault(At(doc, "project"))
           f10 == deviceFault(At(doc, "device"))
           f11 == executionFault(At(doc, "execution"), worst)
           f12 == stepsFault(At(doc, "steps"))
           f13 == assertionsFault(At(doc, "assertions"))
           f14 == configFault(Config(doc))
<1>1. (f1 ?? f2 ?? f3 ?? f4 ?? f5 ?? f6 ?? f7 ?? f8 ?? f9 ?? f10 ?? f11 ?? f12 ?? f13 ?? f14)
        = NoFault
  BY DEF Fault
<1>2. /\ f2 = NoFault /\ f4 = NoFault /\ f7 = NoFault /\ f8 = NoFault /\ f9 = NoFault
      /\ f10 = NoFault /\ f11 = NoFault /\ f12 = NoFault /\ f13 = NoFault /\ f14 = NoFault
  <2> HIDE DEF f1, f2, f3, f4, f5, f6, f7, f8, f9, f10, f11, f12, f13, f14
  <2> QED
    BY <1>1, OrFault
<1>3. name.kind = "scalar" /\ TrimSpace(name.value) # ""
  <2> HIDE DEF name
  <2> QED
    BY <1>2 DEF stringScalar, When, NoFault
<1>4. At(doc, "version").kind = "scalar"
  BY <1>2, ScalarInIs
<1> QED
  BY <1>2, <1>3, <1>4

LEMMA ValidatedIs ==
  ASSUME NEW cfg, configFault(cfg) = NoFault
  PROVE  /\ cfg.steps # <<>>
         /\ cfg.assertions # <<>> => \E j \in DOMAIN cfg.steps : cfg.steps[j].type = "monitor"
<1> DEFINE f1 == When(cfg.steps = <<>>, <<"steps">>, "must include a step")
           unjudged == /\ cfg.assertions # <<>>
                       /\ \A i \in DOMAIN cfg.steps : cfg.steps[i].type # "monitor"
           f2 == When(unjudged, <<"steps">>, "must include monitor")
<1>1. (f1 ?? f2) = NoFault
  BY DEF configFault
<1>2. f1 = NoFault /\ f2 = NoFault
  <2> HIDE DEF f1, f2
  <2> QED
    BY <1>1, OrFault
<1>3. cfg.steps # <<>>
  BY <1>2 DEF When, NoFault
<1>4. ~unjudged
  <2> HIDE DEF unjudged
  <2> QED
    BY <1>2 DEF When, NoFault
<1> QED
  BY <1>3, <1>4

(* What Parse makes of a file that it accepts is proper. *)
LEMMA ConfigParsed ==
  ASSUME NEW doc, Decoded(doc), NEW worst \in Timeouts, Fault(doc, worst) = NoFault
  PROVE  Proper(Config(doc))
<1> DEFINE name == At(doc, "name").value
           project == Project(At(doc, "project"))
           device == Device(At(doc, "device"))
           execution == Execution(At(doc, "execution"))
           given == At(doc, "steps").content
           asserted == At(doc, "assertions").content
           default == execution.timeout["test_timeout"]
           steps == [i \in DOMAIN given |-> Step(given[i])]
           assertions == [i \in DOMAIN asserted |-> Assertion(asserted[i], default)]
<1>1. Config(doc) = [name |-> name, project |-> project, device |-> device,
                     execution |-> execution, steps |-> steps, assertions |-> assertions]
  BY DEF Config
<1>2. doc.kind = "mapping"
  BY ChecksAreMade, MappingIs
<1>3. IsList(given) /\ IsList(asserted)
  BY <1>2, SectionIsList
<1>4. Solid(name)
  BY ChecksAreMade DEF Solid
<1>5. ProperProject(project)
  BY ChecksAreMade, ProjectParsed
<1>6. ProperDevice(device)
  BY ChecksAreMade, DeviceParsed
<1>7. ProperExecution(execution)
  BY ChecksAreMade, ExecutionParsed
<1>8. Duration(default) /\ default > 0
  <2>1. "test_timeout" \in Timeouts
    BY DEF Timeouts, DefaultTimeout
  <2> HIDE DEF execution
  <2> QED
    BY <1>7, <2>1 DEF ProperExecution
<1>9. IsList(steps) /\ \A i \in DOMAIN steps : ProperStep(steps[i])
  <2>1. Len(given) \in Nat /\ DOMAIN given = 1..Len(given)
    BY <1>3, ListIs
  <2>2. \A i \in DOMAIN given : ProperStep(Step(given[i]))
    <3>1. stepsFault(At(doc, "steps")) = NoFault
      BY ChecksAreMade
    <3> QED
      BY <1>3, <3>1, StepsAreFaultless, StepParsed
  <2>3. DOMAIN steps = 1..Len(given) /\ \A i \in DOMAIN given : steps[i] = Step(given[i])
    BY <2>1
  <2>4. steps = [i \in 1..Len(given) |-> steps[i]]
    BY <2>1
  <2> HIDE DEF steps, given
  <2> QED
    BY <2>1, <2>2, <2>3, <2>4, FunctionIsList
<1>10. IsList(assertions) /\ \A i \in DOMAIN assertions : ProperAssertion(assertions[i])
  <2>1. Len(asserted) \in Nat /\ DOMAIN asserted = 1..Len(asserted)
    BY <1>3, ListIs
  <2>2. \A i \in DOMAIN asserted : ProperAssertion(Assertion(asserted[i], default))
    <3>1. assertionsFault(At(doc, "assertions")) = NoFault
      BY ChecksAreMade
    <3> HIDE DEF default
    <3> QED
      BY <1>3, <1>8, <3>1, AssertionsAreFaultless, AssertionParsed
  <2>3. DOMAIN assertions = 1..Len(asserted)
        /\ \A i \in DOMAIN asserted : assertions[i] = Assertion(asserted[i], default)
    BY <2>1
  <2>4. assertions = [i \in 1..Len(asserted) |-> assertions[i]]
    BY <2>1
  <2> HIDE DEF assertions, asserted, default
  <2> QED
    BY <2>1, <2>2, <2>3, <2>4, FunctionIsList
<1> DEFINE cfg == Config(doc)
<1>11. /\ cfg.steps # <<>>
       /\ cfg.assertions # <<>> => \E j \in DOMAIN cfg.steps : cfg.steps[j].type = "monitor"
  BY ChecksAreMade, ValidatedIs
<1> HIDE DEF name, project, device, execution, steps, assertions, cfg
<1>12. /\ cfg.name = name /\ cfg.project = project /\ cfg.device = device
       /\ cfg.execution = execution /\ cfg.steps = steps /\ cfg.assertions = assertions
       /\ cfg = [name |-> name, project |-> project, device |-> device,
                 execution |-> execution, steps |-> steps, assertions |-> assertions]
  BY <1>1 DEF cfg
<1>13. Proper(cfg)
  BY <1>4, <1>5, <1>6, <1>7, <1>9, <1>10, <1>11, <1>12 DEF Proper
<1> QED
  BY <1>13 DEF cfg

-----------------------------------------------------------------------------
(* The order of the fields *)

\* each key of a mapping leads to one child
Unique(n) == \A i, j \in DOMAIN n.content : n.content[i][1] = n.content[j][1] => i = j

LEMMA MappingIsUnique ==
  ASSUME NEW n, IsList(n.content), NEW path, NEW allowed, mapping(n, path, allowed) = NoFault
  PROVE  Unique(n)
<1>1. \A i \in DOMAIN n.content : \A j \in 1..(i - 1) : Keys(n)[j] # n.content[i][1]
  BY MappingIs
<1>2. Len(n.content) \in Nat /\ DOMAIN n.content = 1..Len(n.content)
  BY ListIs
<1>3. ASSUME NEW i \in DOMAIN n.content, NEW j \in DOMAIN n.content, j < i
      PROVE  n.content[j][1] # n.content[i][1]
  <2>1. j \in 1..(i - 1)
    BY <1>2, <1>3
  <2>2. Keys(n)[j] = n.content[j][1]
    BY DEF Keys
  <2> QED
    BY <1>1, <2>1, <2>2
<1>4. ASSUME NEW i \in DOMAIN n.content, NEW j \in DOMAIN n.content,
             n.content[i][1] = n.content[j][1]
      PROVE  i = j
  <2>1. i \in Int /\ j \in Int
    BY <1>2
  <2>2. ~(j < i) /\ ~(i < j)
    BY <1>3, <1>4
  <2> QED
    BY <2>1, <2>2
<1> QED
  BY <1>4 DEF Unique

LEMMA AtOfUnique ==
  ASSUME NEW n, IsList(n.content), Unique(n), NEW i \in DOMAIN n.content
  PROVE  At(n, n.content[i][1]) = n.content[i][2]
BY AtIs DEF Unique

\* what Reversed does to the children
LEMMA ReversedIs ==
  ASSUME NEW doc, IsList(doc.content)
  PROVE  /\ Reversed(doc).kind = "mapping"
         /\ IsList(Reversed(doc).content)
         /\ DOMAIN Reversed(doc).content = DOMAIN doc.content
         /\ \A i \in DOMAIN doc.content :
              /\ Len(doc.content) + 1 - i \in DOMAIN doc.content
              /\ Reversed(doc).content[i] = doc.content[Len(doc.content) + 1 - i]
              /\ doc.content[i] = Reversed(doc).content[Len(doc.content) + 1 - i]
<1> DEFINE s == doc.content
           n == Len(s)
           r == Reversed(doc).content
<1>1. n \in Nat /\ DOMAIN s = 1..n
  BY ListIs
<1>2. r = [i \in 1..n |-> s[n + 1 - i]] /\ Reversed(doc).kind = "mapping"
  BY <1>1 DEF Reversed, MappingOf
<1>3. DOMAIN r = 1..n /\ \A i \in 1..n : r[i] = s[n + 1 - i]
  BY <1>2
<1> HIDE DEF s, n, r
<1>4. IsList(r)
  BY <1>1, <1>2, <1>3, FunctionIsList
<1>5. ASSUME NEW i \in 1..n
      PROVE  n + 1 - i \in 1..n /\ r[i] = s[n + 1 - i] /\ s[i] = r[n + 1 - i]
  <2>1. n + 1 - i \in 1..n /\ n + 1 - (n + 1 - i) = i
    BY <1>1
  <2> QED
    BY <1>3, <2>1
<1> QED
  BY <1>1, <1>2, <1>3, <1>4, <1>5 DEF s, n, r

LEMMA AtReversed ==
  ASSUME NEW doc, IsList(doc.content), Unique(doc), NEW key
  PROVE  Unique(Reversed(doc)) /\ At(Reversed(doc), key) = At(doc, key)
<1> DEFINE s == doc.content
           n == Len(s)
           rev == Reversed(doc)
           r == rev.content
<1>1. n \in Nat /\ DOMAIN s = 1..n
  BY ListIs
<1>2. /\ IsList(r) /\ DOMAIN r = DOMAIN s
      /\ \A i \in DOMAIN s : /\ n + 1 - i \in DOMAIN s
                             /\ r[i] = s[n + 1 - i]
                             /\ s[i] = r[n + 1 - i]
  BY ReversedIs
<1>3. \A i, j \in DOMAIN s : s[i][1] = s[j][1] => i = j
  BY DEF Unique
<1>4. Unique(rev)
  <2> SUFFICES ASSUME NEW i \in DOMAIN r, NEW j \in DOMAIN r, r[i][1] = r[j][1] PROVE i = j
    BY DEF Unique
  <2> HIDE DEF s, n, rev, r
  <2>1. n + 1 - i = n + 1 - j
    BY <1>2, <1>3
  <2>2. i \in Int /\ j \in Int
    BY <1>1, <1>2
  <2> QED
    BY <1>1, <2>1, <2>2
<1>5. CASE At(doc, key) = Absent /\ \A i \in DOMAIN s : s[i][1] # key
  <2>1. \A i \in DOMAIN r : r[i][1] # key
    <3> HIDE DEF s, n, rev, r
    <3> QED
      BY <1>2, <1>5
  <2>2. At(rev, key) = Absent
    <3> HIDE DEF rev
    <3> QED
      BY <1>2, <2>1, AtIs
  <2> QED
    BY <1>4, <1>5, <2>2
<1>6. ASSUME NEW i \in DOMAIN s, s[i][1] = key PROVE At(rev, key) = At(doc, key)
  <2>1. At(doc, key) = s[i][2]
    BY <1>6, AtOfUnique
  <2> DEFINE j == n + 1 - i
  <2>2. j \in DOMAIN r /\ r[j] = s[i]
    <3> HIDE DEF s, n, rev, r
    <3> QED
      BY <1>2
  <2>3. At(rev, r[j][1]) = r[j][2]
    <3> HIDE DEF rev, j
    <3> QED
      BY <1>2, <1>4, <2>2, AtOfUnique
  <2> QED
    BY <1>6, <2>1, <2>2, <2>3
<1> QED
  <2>1. \/ At(doc, key) = Absent /\ \A i \in DOMAIN s : s[i][1] # key
        \/ \E i \in DOMAIN s : s[i][1] = key
    BY AtIs
  <2> QED
    BY <1>4, <1>5, <1>6, <2>1

LEMMA MappingFaultless ==
  ASSUME NEW n, IsList(n.content), n.kind = "mapping", Unique(n), NEW allowed,
         \A i \in DOMAIN n.content : n.content[i][1] \in allowed, NEW path
  PROVE  mapping(n, path, allowed) = NoFault
<1>1. Len(n.content) \in Nat /\ DOMAIN n.content = 1..Len(n.content)
  BY ListIs
<1>2. \A i \in DOMAIN n.content : Keys(n)[i] = n.content[i][1]
  BY DEF Keys
<1>3. ASSUME NEW i \in DOMAIN n.content
      PROVE  Keys(n)[i] \in allowed /\ \A j \in 1..(i - 1) : Keys(n)[j] # Keys(n)[i]
  <2>1. ASSUME NEW j \in 1..(i - 1) PROVE Keys(n)[j] # Keys(n)[i]
    <3>1. j \in DOMAIN n.content /\ j # i
      BY <1>1
    <3> QED
      BY <1>2, <3>1 DEF Unique
  <2> QED
    BY <1>2, <2>1
<1>4. n # Absent
  <2>1. Absent.kind = "absent"
    BY DEF Absent
  <2> QED
    BY <2>1
<1> DEFINE bad == {i \in DOMAIN n.content :
                     \/ Keys(n)[i] \notin allowed
                     \/ \E j \in 1..(i - 1) : Keys(n)[j] = Keys(n)[i]}
           at == CHOOSE i \in bad : \A j \in bad : i <= j
           why == IF Keys(n)[at] \notin allowed THEN "unsupported field" ELSE "duplicate field"
           required == When(n = Absent, path, "is required")
           kind == When(n.kind # "mapping", path, "must be a mapping")
           fields == IF bad = {} THEN NoFault ELSE When(TRUE, Append(path, Keys(n)[at]), why)
<1>5. mapping(n, path, allowed) = (required ?? kind ?? fields)
  BY DEF mapping
<1>6. bad = {}
  BY <1>3
<1>7. required = NoFault /\ kind = NoFault /\ fields = NoFault
  BY <1>4, <1>6 DEF When
<1> HIDE DEF required, kind, fields
<1> QED
  BY <1>5, <1>7, OrFault

LEMMA MappingReversed ==
  ASSUME NEW doc, IsList(doc.content), NEW path, NEW allowed,
         mapping(doc, path, allowed) = NoFault
  PROVE  mapping(Reversed(doc), path, allowed) = NoFault
<1> DEFINE rev == Reversed(doc)
           n == Len(doc.content)
<1>1. /\ rev.kind = "mapping" /\ IsList(rev.content) /\ DOMAIN rev.content = DOMAIN doc.content
      /\ \A i \in DOMAIN doc.content : /\ n + 1 - i \in DOMAIN doc.content
                                       /\ rev.content[i] = doc.content[n + 1 - i]
  BY ReversedIs
<1>2. Unique(rev)
  BY MappingIsUnique, AtReversed
<1>3. \A i \in DOMAIN doc.content : doc.content[i][1] \in allowed
  BY MappingIs
<1> HIDE DEF rev, n
<1>4. \A i \in DOMAIN rev.content : rev.content[i][1] \in allowed
  BY <1>1, <1>3
<1>5. mapping(rev, path, allowed) = NoFault
  BY <1>1, <1>2, <1>4, MappingFaultless
<1> QED
  BY <1>5 DEF rev

(* An accepted file with its fields in the opposite order is the same.     *)
LEMMA SameReversed ==
  ASSUME NEW doc, Decoded(doc), NEW worst, Fault(doc, worst) = NoFault
  PROVE  Fault(Reversed(doc), worst) = NoFault /\ Config(Reversed(doc)) = Config(doc)
<1> DEFINE rev == Reversed(doc)
           allowed == {"version", "name", "project", "device", "execution", "steps", "assertions"}
<1>1. IsList(doc.content)
  BY DEF Decoded
<1>2. mapping(doc, <<>>, allowed) = NoFault
  BY ChecksAreMade
<1>3. mapping(rev, <<>>, allowed) = NoFault
  <2> HIDE DEF allowed
  <2> QED
    BY <1>1, <1>2, MappingReversed
<1>4. Unique(doc)
  <2> HIDE DEF allowed
  <2> QED
    BY <1>1, <1>2, MappingIsUnique
<1>5. \A key : At(rev, key) = At(doc, key)
  BY <1>1, <1>4, AtReversed
<1>6. doc # Absent /\ rev # Absent
  BY <1>2, <1>3, MappingIs
<1> HIDE DEF rev
<1>7. Config(rev) = Config(doc)
  BY <1>5 DEF Config
<1>8. Fault(rev, worst) = Fault(doc, worst)
  BY <1>2, <1>3, <1>5, <1>6, <1>7 DEF Fault, When
<1> QED
  BY <1>7, <1>8 DEF rev

-----------------------------------------------------------------------------
(* The files that the program writes *)

LEMMA SeqIsList ==
  ASSUME NEW S, NEW s \in Seq(S)
  PROVE  IsList(s)
<1>1. Len(s) \in Nat /\ s = [i \in 1..Len(s) |-> s[i]]
  OBVIOUS
<1> QED
  BY <1>1, FunctionIsList

\* a section: a key and the node it leads to
IsSection(entry) == entry[2].kind # "absent" /\ IsList(entry[2].content)

LEMMA ScalarSection == ASSUME NEW key, NEW token PROVE IsSection(<<key, Scalar(token)>>)
BY EmptyIsList DEF IsSection, Scalar

LEMMA MappingSection ==
  ASSUME NEW key, NEW S, NEW pairs \in Seq(S)
  PROVE  IsSection(<<key, MappingOf(pairs)>>)
BY SeqIsList DEF IsSection, MappingOf

LEMMA SequenceSection ==
  ASSUME NEW key, NEW items, IsList(items)
  PROVE  IsSection(<<key, SequenceOf(items)>>)
BY DEF IsSection, SequenceOf

LEMMA SevenSections ==
  ASSUME NEW e1, NEW e2, NEW e3, NEW e4, NEW e5, NEW e6, NEW e7,
         IsSection(e1), IsSection(e2), IsSection(e3), IsSection(e4), IsSection(e5),
         IsSection(e6), IsSection(e7)
  PROVE  Decoded(MappingOf(<<e1, e2, e3, e4, e5, e6, e7>>))
<1> DEFINE pairs == <<e1, e2, e3, e4, e5, e6, e7>>
<1>1. pairs \in Seq({e1, e2, e3, e4, e5, e6, e7})
  OBVIOUS
<1>2. DOMAIN pairs = 1..7
  OBVIOUS
<1>3. \A i \in 1..7 : IsSection(pairs[i])
  OBVIOUS
<1>4. MappingOf(pairs).content = pairs
  BY DEF MappingOf
<1> HIDE DEF pairs
<1>5. IsList(pairs)
  BY <1>1, SeqIsList
<1> QED
  BY <1>2, <1>3, <1>4, <1>5 DEF Decoded, IsSection, pairs

(* Nodes with other children. *)
LEMMA OtherItems ==
  ASSUME NEW c, NEW d
  PROVE  [SequenceOf(c) EXCEPT !.content = d] = SequenceOf(d)
<1> DEFINE p == [SequenceOf(c) EXCEPT !.content = d]
           q == SequenceOf(d)
<1>1. DOMAIN p = {"kind", "value", "content"} /\ DOMAIN q = {"kind", "value", "content"}
  BY DEF SequenceOf
<1>2. p.kind = q.kind /\ p.value = q.value /\ p.content = q.content
  BY DEF SequenceOf
<1>3. p = [x \in {"kind", "value", "content"} |-> p[x]]
  BY <1>1 DEF SequenceOf
<1>4. q = [x \in {"kind", "value", "content"} |-> q[x]]
  BY <1>1 DEF SequenceOf
<1> HIDE DEF p, q
<1>5. p = q
  BY <1>2, <1>3, <1>4
<1> QED
  BY <1>5 DEF p, q

LEMMA OtherPairs ==
  ASSUME NEW c, NEW d
  PROVE  [MappingOf(c) EXCEPT !.content = d] = MappingOf(d)
<1> DEFINE p == [MappingOf(c) EXCEPT !.content = d]
           q == MappingOf(d)
<1>1. DOMAIN p = {"kind", "value", "content"} /\ DOMAIN q = {"kind", "value", "content"}
  BY DEF MappingOf
<1>2. p.kind = q.kind /\ p.value = q.value /\ p.content = q.content
  BY DEF MappingOf
<1>3. p = [x \in {"kind", "value", "content"} |-> p[x]]
  BY <1>1 DEF MappingOf
<1>4. q = [x \in {"kind", "value", "content"} |-> q[x]]
  BY <1>1 DEF MappingOf
<1> HIDE DEF p, q
<1>5. p = q
  BY <1>2, <1>3, <1>4
<1> QED
  BY <1>5 DEF p, q

\* a part of a file of seven sections, of which the last is a sequence
LEMMA PartsAre ==
  ASSUME NEW e1, NEW e2, NEW e3, NEW e4, NEW e5, NEW e6, NEW key, NEW items, IsList(items),
         NEW f \in PartOf(MappingOf(<<e1, e2, e3, e4, e5, e6, <<key, SequenceOf(items)>>>>))
  PROVE  \/ f = Torn
         \/ \E part : /\ IsList(part)
                      /\ f = MappingOf(<<e1, e2, e3, e4, e5, e6, <<key, SequenceOf(part)>>>>)
<1> DEFINE e7 == <<key, SequenceOf(items)>>
           pairs == <<e1, e2, e3, e4, e5, e6, e7>>
           doc == MappingOf(pairs)
           Cut(k) == [doc EXCEPT !.content[Len(doc.content)][2].content = SubSeq(@, 1, k)]
<1>1. f = Torn \/ \E k \in 1..(Len(doc.content[Len(doc.content)][2].content) - 1) : f = Cut(k)
  BY DEF PartOf
<1>2. Len(doc.content) = 7 /\ doc.content = pairs
  BY DEF MappingOf
<1>3. pairs[7] = e7 /\ e7[2] = SequenceOf(items) /\ e7[2].content = items
  BY DEF SequenceOf
<1>4. ASSUME NEW k \in 1..(Len(items) - 1), f = Cut(k)
      PROVE  \E part : /\ IsList(part)
                       /\ f = MappingOf(<<e1, e2, e3, e4, e5, e6, <<key, SequenceOf(part)>>>>)
  <2> DEFINE part == SubSeq(items, 1, k)
  <2>1. IsList(part)
    <3>1. items \in Seq({items[i] : i \in DOMAIN items}) /\ k \in 1..Len(items)
      <4>1. Len(items) \in Nat
        BY ListIs
      <4> QED
        BY <4>1 DEF IsList
    <3>2. part \in Seq({items[i] : i \in DOMAIN items})
      BY <3>1
    <3> QED
      BY <3>2, SeqIsList
  <2>2. f = MappingOf(<<e1, e2, e3, e4, e5, e6, <<key, SequenceOf(part)>>>>)
    <3>1. Cut(k) = [doc EXCEPT !.content = [pairs EXCEPT ![7] = [e7 EXCEPT ![2] =
                      [SequenceOf(items) EXCEPT !.content = part]]]]
      BY <1>2, <1>3
    <3>2. [SequenceOf(items) EXCEPT !.content = part] = SequenceOf(part)
      BY OtherItems
    <3>3. [e7 EXCEPT ![2] = SequenceOf(part)] = <<key, SequenceOf(part)>>
      OBVIOUS
    <3>4. ASSUME NEW e PROVE [pairs EXCEPT ![7] = e] = <<e1, e2, e3, e4, e5, e6, e>>
      <4> HIDE DEF e7
      <4> QED
        OBVIOUS
    <3>5. ASSUME NEW c PROVE [doc EXCEPT !.content = c] = MappingOf(c)
      BY OtherPairs
    <3> HIDE DEF doc, pairs, e7, part, Cut
    <3> QED
      BY <1>4, <3>1, <3>2, <3>3, <3>4, <3>5
  <2> QED
    BY <2>1, <2>2
<1> HIDE DEF Cut
<1> QED
  BY <1>1, <1>2, <1>3, <1>4

LEMMA CutSections ==
  ASSUME NEW e1, NEW e2, NEW e3, NEW e4, NEW e5, NEW e6, NEW key, NEW items,
         IsSection(e1), IsSection(e2), IsSection(e3), IsSection(e4), IsSection(e5),
         IsSection(e6), IsList(items),
         NEW f \in PartOf(MappingOf(<<e1, e2, e3, e4, e5, e6, <<key, SequenceOf(items)>>>>))
  PROVE  Decoded(f)
<1>1. CASE f = Torn
  BY <1>1, EmptyIsList DEF Torn, Decoded
<1>2. ASSUME NEW part, IsList(part),
             f = MappingOf(<<e1, e2, e3, e4, e5, e6, <<key, SequenceOf(part)>>>>)
      PROVE  Decoded(f)
  <2>1. IsSection(<<key, SequenceOf(part)>>)
    BY <1>2, SequenceSection
  <2> QED
    BY <1>2, <2>1, SevenSections
<1>3. \/ f = Torn
      \/ \E part : /\ IsList(part)
                   /\ f = MappingOf(<<e1, e2, e3, e4, e5, e6, <<key, SequenceOf(part)>>>>)
  BY PartsAre
<1> QED
  BY <1>1, <1>2, <1>3

(* The file that `init` writes, and any part of it, are documents. *)
LEMMA StarterIsDocument ==
  ASSUME NEW name, NEW environment, NEW port, NEW baud
  PROVE  LET doc == starterYAML(name, environment, port, baud)
         IN  Decoded(doc) /\ \A f \in PartOf(doc) : Decoded(f)
<1> DEFINE project == <<<<"directory", Scalar(".")>>, <<"environment", yamlString(environment)>>>>
           device == <<<<"platform", Scalar("esp32")>>,
                       <<"port", yamlString(OrElse(port, "auto"))>>,
                       <<"baud", Scalar(FormatInt[IF baud <= 0 THEN DefaultBaud ELSE baud])>>>>
           execution == <<<<"build_timeout", Scalar("120s")>>, <<"upload_timeout", Scalar("60s")>>,
                          <<"boot_timeout", Scalar("15s")>>, <<"test_timeout", Scalar("30s")>>>>
           steps == <<Scalar("build"), Scalar("upload"),
                      Body("monitor", <<<<"duration", Scalar("10s")>>>>)>>
           assertions == <<Body("serial_contains", <<<<"value", Scalar("System ready")>>,
                                                     <<"within", Scalar("10s")>>>>),
                           Body("serial_not_contains", <<<<"value", Scalar("panic")>>,
                                                         <<"case_sensitive", Scalar("false")>>>>)>>
           e1 == <<"version", Scalar("1")>>
           e2 == <<"name", Scalar(ReadBack(name))>>
           e3 == <<"project", MappingOf(project)>>
           e4 == <<"device", MappingOf(device)>>
           e5 == <<"execution", MappingOf(execution)>>
           e6 == <<"steps", SequenceOf(steps)>>
           e7 == <<"assertions", SequenceOf(assertions)>>
           doc == starterYAML(name, environment, port, baud)
<1>1. doc = MappingOf(<<e1, e2, e3, e4, e5, e6, e7>>)
  BY DEF starterYAML, yamlString
<1>2. project \in Seq({project[1], project[2]})
  OBVIOUS
<1>3. device \in Seq({device[1], device[2], device[3]})
  OBVIOUS
<1>4. execution \in Seq({execution[1], execution[2], execution[3], execution[4]})
  OBVIOUS
<1>5. IsList(steps)
  <2>1. steps \in Seq({steps[1], steps[2], steps[3]})
    OBVIOUS
  <2> HIDE DEF steps
  <2> QED
    BY <2>1, SeqIsList
<1>6. IsList(assertions)
  <2>1. assertions \in Seq({assertions[1], assertions[2]})
    OBVIOUS
  <2> HIDE DEF assertions
  <2> QED
    BY <2>1, SeqIsList
<1> HIDE DEF project, device, execution, steps, assertions
<1>7. IsSection(e1) /\ IsSection(e2)
  BY ScalarSection
<1>8. IsSection(e3) /\ IsSection(e4) /\ IsSection(e5)
  BY <1>2, <1>3, <1>4, MappingSection
<1>9. IsSection(e6) /\ IsSection(e7)
  BY <1>5, <1>6, SequenceSection
<1> HIDE DEF e1, e2, e3, e4, e5, e6, doc
<1>10. Decoded(doc)
  <2> HIDE DEF e7
  <2> QED
    BY <1>1, <1>7, <1>8, <1>9, SevenSections
<1>11. ASSUME NEW f \in PartOf(doc) PROVE Decoded(f)
  BY <1>1, <1>6, <1>7, <1>8, <1>9, CutSections
<1> QED
  BY <1>10, <1>11 DEF doc

(* config.resolved.yaml, and any part of it, are documents. *)
LEMMA ResolvedIsDocument ==
  ASSUME NEW cfg, IsList(cfg.steps), IsList(cfg.assertions)
  PROVE  LET doc == ResolvedYAML(cfg)
         IN  Decoded(doc) /\ \A f \in PartOf(doc) : Decoded(f)
<1> DEFINE project == <<<<"directory", Scalar(cfg.project.directory)>>,
                        <<"environment", Scalar(cfg.project.environment)>>>>
           device == <<<<"platform", Scalar(cfg.device.platform)>>,
                       <<"port", Scalar(cfg.device.port)>>,
                       <<"baud", Scalar(FormatInt[cfg.device.baud])>>>>
           Entry(t) == <<t, Scalar(FormatDuration[cfg.execution.timeout[t]])>>
           timeouts == <<Entry("build_timeout"), Entry("upload_timeout"), Entry("boot_timeout"),
                         Entry("test_timeout")>>
           reset == <<<<"reset_after_upload", Scalar("true")>>>>
           execution == timeouts \o IF cfg.execution.reset_after_upload THEN reset ELSE <<>>
           steps == [i \in DOMAIN cfg.steps |-> StepYAML(cfg.steps[i])]
           assertions == [i \in DOMAIN cfg.assertions |-> AssertionYAML(cfg.assertions[i])]
           e1 == <<"version", Scalar("1")>>
           e2 == <<"name", Scalar(cfg.name)>>
           e3 == <<"project", MappingOf(project)>>
           e4 == <<"device", MappingOf(device)>>
           e5 == <<"execution", MappingOf(execution)>>
           e6 == <<"steps", SequenceOf(steps)>>
           e7 == <<"assertions", SequenceOf(assertions)>>
           doc == ResolvedYAML(cfg)
<1>1. doc = MappingOf(<<e1, e2, e3, e4, e5, e6, e7>>)
  BY DEF ResolvedYAML, ExecutionYAML
<1>2. project \in Seq({project[1], project[2]})
  OBVIOUS
<1>3. device \in Seq({device[1], device[2], device[3]})
  OBVIOUS
<1>4. execution \in Seq({timeouts[1], timeouts[2], timeouts[3], timeouts[4], reset[1]})
  <2> DEFINE S == {timeouts[1], timeouts[2], timeouts[3], timeouts[4], reset[1]}
  <2>1. timeouts \in Seq(S)
    OBVIOUS
  <2>2. reset \in Seq(S) /\ <<>> \in Seq(S)
    OBVIOUS
  <2> HIDE DEF timeouts, reset, S
  <2>3. execution \in Seq(S)
    BY <2>1, <2>2
  <2> QED
    BY <2>3 DEF S
<1>5. IsList(steps) /\ IsList(assertions)
  <2>1. Len(cfg.steps) \in Nat /\ DOMAIN cfg.steps = 1..Len(cfg.steps)
    BY ListIs
  <2>2. Len(cfg.assertions) \in Nat /\ DOMAIN cfg.assertions = 1..Len(cfg.assertions)
    BY ListIs
  <2>3. steps = [i \in 1..Len(cfg.steps) |-> steps[i]]
    BY <2>1
  <2>4. assertions = [i \in 1..Len(cfg.assertions) |-> assertions[i]]
    BY <2>2
  <2> HIDE DEF steps, assertions
  <2> QED
    BY <2>1, <2>2, <2>3, <2>4, FunctionIsList
<1> HIDE DEF project, device, execution, steps, assertions
<1>7. IsSection(e1) /\ IsSection(e2)
  BY ScalarSection
<1>8. IsSection(e3) /\ IsSection(e4) /\ IsSection(e5)
  BY <1>2, <1>3, <1>4, MappingSection
<1>9. IsSection(e6) /\ IsSection(e7)
  BY <1>5, SequenceSection
<1> HIDE DEF e1, e2, e3, e4, e5, e6, doc
<1>10. Decoded(doc)
  <2> HIDE DEF e7
  <2> QED
    BY <1>1, <1>7, <1>8, <1>9, SevenSections
<1>11. ASSUME NEW f \in PartOf(doc) PROVE Decoded(f)
  BY <1>1, <1>5, <1>7, <1>8, <1>9, CutSections
<1> QED
  BY <1>10, <1>11 DEF doc

-----------------------------------------------------------------------------
(* What ResolvedYAML writes *)

(* A mapping that is written key by key, each once.                        *)
LEMMA FieldsOf ==
  ASSUME NEW pairs, IsList(pairs),
         \A i, j \in DOMAIN pairs : pairs[i][1] = pairs[j][1] => i = j
  PROVE  /\ \A i \in DOMAIN pairs : At(MappingOf(pairs), pairs[i][1]) = pairs[i][2]
         /\ \A key : (\A i \in DOMAIN pairs : pairs[i][1] # key) => At(MappingOf(pairs), key) = Absent
         /\ \A path, allowed :
              (\A i \in DOMAIN pairs : pairs[i][1] \in allowed)
                => mapping(MappingOf(pairs), path, allowed) = NoFault
<1> DEFINE n == MappingOf(pairs)
<1>1. n.content = pairs /\ n.kind = "mapping"
  BY DEF MappingOf
<1> HIDE DEF n
<1>2. Unique(n)
  BY <1>1 DEF Unique
<1>3. \A i \in DOMAIN pairs : At(n, pairs[i][1]) = pairs[i][2]
  BY <1>1, <1>2, AtOfUnique
<1>4. \A key : (\A i \in DOMAIN pairs : pairs[i][1] # key) => At(n, key) = Absent
  BY <1>1, AtIs
<1>5. ASSUME NEW path, NEW allowed, \A i \in DOMAIN pairs : pairs[i][1] \in allowed
      PROVE  mapping(n, path, allowed) = NoFault
  BY <1>1, <1>2, <1>5, MappingFaultless
<1> QED
  BY <1>3, <1>4, <1>5 DEF n

(* A list with one more item. *)
LEMMA ItemJoined ==
  ASSUME NEW S, NEW s \in Seq(S), NEW e \in S, NEW q \in Seq(S), Len(q) = Len(s) + 1,
         \A i \in 1..Len(s) : q[i] = s[i], q[Len(s) + 1] = e
  PROVE  s \o <<e>> = q
<1> DEFINE r == <<e>>
           o == s \o r
<1>1. r \in Seq(S) /\ Len(r) = 1 /\ r[1] = e /\ Len(s) \in Nat
  OBVIOUS
<1> HIDE DEF r
<1>2. o \in Seq(S)
  BY <1>1, ConcatProperties
<1>3. Len(o) = Len(s) + 1
  BY <1>1, ConcatProperties
<1>4. \A i \in 1..(Len(s) + Len(r)) : o[i] = IF i <= Len(s) THEN s[i] ELSE r[i - Len(s)]
  BY <1>1, ConcatProperties
<1> HIDE DEF o
<1>5. ASSUME NEW i \in 1..(Len(s) + 1) PROVE o[i] = q[i]
  <2>1. o[i] = IF i <= Len(s) THEN s[i] ELSE r[i - Len(s)]
    BY <1>1, <1>4
  <2>2. CASE i <= Len(s)
    <3>1. i \in 1..Len(s)
      BY <1>1, <2>2
    <3> QED
      BY <2>1, <2>2, <3>1
  <2>3. CASE ~(i <= Len(s))
    <3>1. i = Len(s) + 1 /\ i - Len(s) = 1
      BY <1>1, <2>3
    <3> QED
      BY <1>1, <2>1, <2>3, <3>1
  <2> QED
    BY <2>2, <2>3
<1>6. o = q
  BY <1>1, <1>2, <1>3, <1>5
<1> QED
  BY <1>6 DEF o, r

LEMMA ThreeJoined ==
  ASSUME NEW a, NEW b, NEW c
  PROVE  <<a, b>> \o <<c>> = <<a, b, c>>
<1> DEFINE S == {a, b, c}
           s == <<a, b>>
           q == <<a, b, c>>
<1>1. /\ s \in Seq(S) /\ q \in Seq(S) /\ c \in S /\ Len(s) = 2 /\ Len(q) = 3
      /\ q[1] = s[1] /\ q[2] = s[2] /\ q[3] = c
  OBVIOUS
<1> HIDE DEF S, s, q
<1>2. /\ Len(q) = Len(s) + 1 /\ q[Len(s) + 1] = c
      /\ \A i \in 1..Len(s) : q[i] = s[i]
  BY <1>1
<1>3. s \o <<c>> = q
  BY <1>1, <1>2, ItemJoined
<1> QED
  BY <1>3 DEF s, q

LEMMA FiveJoined ==
  ASSUME NEW a, NEW b, NEW c, NEW d, NEW e
  PROVE  <<a, b, c, d>> \o <<e>> = <<a, b, c, d, e>>
<1> DEFINE S == {a, b, c, d, e}
           s == <<a, b, c, d>>
           q == <<a, b, c, d, e>>
<1>1. /\ s \in Seq(S) /\ q \in Seq(S) /\ e \in S /\ Len(s) = 4 /\ Len(q) = 5
      /\ q[1] = s[1] /\ q[2] = s[2] /\ q[3] = s[3] /\ q[4] = s[4] /\ q[5] = e
  OBVIOUS
<1> HIDE DEF S, s, q
<1>2. /\ Len(q) = Len(s) + 1 /\ q[Len(s) + 1] = e
      /\ \A i \in 1..Len(s) : q[i] = s[i]
  BY <1>1
<1>3. s \o <<e>> = q
  BY <1>1, <1>2, ItemJoined
<1> QED
  BY <1>3 DEF s, q

LEMMA ScalarIs ==
  ASSUME NEW token
  PROVE  Scalar(token).kind = "scalar" /\ Scalar(token).value = token /\ Scalar(token) # Absent
<1>1. Scalar(token).kind = "scalar" /\ Scalar(token).value = token
  BY DEF Scalar
<1>2. Absent.kind = "absent"
  BY DEF Absent
<1> QED
  BY <1>1, <1>2

LEMMA SequenceIs ==
  ASSUME NEW items
  PROVE  /\ SequenceOf(items).content = items /\ SequenceOf(items).kind = "sequence"
         /\ SequenceOf(items) # Absent
<1>1. SequenceOf(items).content = items /\ SequenceOf(items).kind = "sequence"
  BY DEF SequenceOf
<1>2. Absent.kind = "absent"
  BY DEF Absent
<1> QED
  BY <1>1, <1>2

LEMMA StringFound ==
  ASSUME NEW n, NEW key, NEW path, NEW token, Solid(token), At(n, key) = Scalar(token)
  PROVE  requiredString(n, key, path) = NoFault /\ At(n, key).value = token
<1> DEFINE child == At(n, key)
           here == Append(path, key)
           required == When(child = Absent, here, "is required")
           scalar == stringScalar(child, here)
           solid == When(TrimSpace(child.value) = "", here, "must not be empty")
<1>1. requiredString(n, key, path) = (required ?? scalar ?? solid)
  BY DEF requiredString
<1>2. required = NoFault /\ scalar = NoFault /\ solid = NoFault
  BY ScalarIs DEF When, stringScalar, Solid
<1> HIDE DEF required, scalar, solid
<1>3. requiredString(n, key, path) = NoFault
  BY <1>1, <1>2, OrFault
<1> QED
  BY <1>3, ScalarIs

LEMMA TokenFound ==
  ASSUME NEW n, NEW key, NEW path, NEW table, NEW default, NEW token \in DOMAIN table,
         At(n, key) = Scalar(token)
  PROVE  /\ scalarIn(At(n, key), table, path) = NoFault
         /\ optional(n, key, path, table) = NoFault
         /\ ValueOf(n, key, table, default) = table[token]
BY ScalarIs DEF optional, scalarIn, ValueOf, When

LEMMA NothingFound ==
  ASSUME NEW n, NEW key, NEW path, NEW table, NEW default, At(n, key) = Absent
  PROVE  optional(n, key, path, table) = NoFault /\ ValueOf(n, key, table, default) = default
BY DEF optional, ValueOf

ProjectYAML(p) ==
  MappingOf(<<<<"directory", Scalar(p.directory)>>, <<"environment", Scalar(p.environment)>>>>)

LEMMA ProjectWritten ==
  ASSUME NEW p, ProperProject(p)
  PROVE  projectFault(ProjectYAML(p)) = NoFault /\ Project(ProjectYAML(p)) = p
<1> DEFINE pairs == <<<<"directory", Scalar(p.directory)>>, <<"environment", Scalar(p.environment)>>>>
           n == ProjectYAML(p)
           path == <<"project">>
<1>1. pairs \in Seq({pairs[1], pairs[2]}) /\ DOMAIN pairs = 1..2
  OBVIOUS
<1>2. /\ pairs[1][1] = "directory" /\ pairs[1][2] = Scalar(p.directory)
      /\ pairs[2][1] = "environment" /\ pairs[2][2] = Scalar(p.environment)
  OBVIOUS
<1>3. n = MappingOf(pairs)
  BY DEF ProjectYAML
<1> HIDE DEF pairs, n, path
<1>4. IsList(pairs) /\ \A i, j \in DOMAIN pairs : pairs[i][1] = pairs[j][1] => i = j
  BY <1>1, <1>2, SeqIsList
<1>5. At(n, "directory") = Scalar(p.directory) /\ At(n, "environment") = Scalar(p.environment)
  BY <1>1, <1>2, <1>3, <1>4, FieldsOf
<1>6. mapping(n, path, {"directory", "environment"}) = NoFault
  BY <1>1, <1>2, <1>3, <1>4, FieldsOf
<1>7. /\ requiredString(n, "directory", path) = NoFault
      /\ requiredString(n, "environment", path) = NoFault
      /\ At(n, "directory").value = p.directory /\ At(n, "environment").value = p.environment
  BY <1>5, StringFound DEF ProperProject
<1>8. projectFault(n) = NoFault
  BY <1>6, <1>7, OrFault DEF projectFault, path
<1>9. Project(n) = p
  BY <1>7 DEF Project, ProperProject
<1> QED
  BY <1>8, <1>9 DEF n

DeviceYAML(d) ==
  MappingOf(<<<<"platform", Scalar(d.platform)>>, <<"port", Scalar(d.port)>>,
              <<"baud", Scalar(FormatInt[d.baud])>>>>)

LEMMA DeviceWritten ==
  ASSUME NEW d, ProperDevice(d)
  PROVE  deviceFault(DeviceYAML(d)) = NoFault /\ Device(DeviceYAML(d)) = d
<1> DEFINE pairs == <<<<"platform", Scalar(d.platform)>>, <<"port", Scalar(d.port)>>,
                      <<"baud", Scalar(FormatInt[d.baud])>>>>
           n == DeviceYAML(d)
           path == <<"device">>
<1>1. pairs \in Seq({pairs[1], pairs[2], pairs[3]}) /\ DOMAIN pairs = 1..3
  OBVIOUS
<1>2. /\ pairs[1][1] = "platform" /\ pairs[1][2] = Scalar(d.platform)
      /\ pairs[2][1] = "port" /\ pairs[2][2] = Scalar(d.port)
      /\ pairs[3][1] = "baud" /\ pairs[3][2] = Scalar(FormatInt[d.baud])
  OBVIOUS
<1>3. n = MappingOf(pairs)
  BY DEF DeviceYAML
<1> HIDE DEF pairs, n, path
<1>4. IsList(pairs) /\ \A i, j \in DOMAIN pairs : pairs[i][1] = pairs[j][1] => i = j
  BY <1>1, <1>2, SeqIsList
<1>5. /\ At(n, "platform") = Scalar(d.platform) /\ At(n, "port") = Scalar(d.port)
      /\ At(n, "baud") = Scalar(FormatInt[d.baud])
  BY <1>1, <1>2, <1>3, <1>4, FieldsOf
<1>6. mapping(n, path, {"platform", "port", "baud"}) = NoFault
  BY <1>1, <1>2, <1>3, <1>4, FieldsOf
<1>7. /\ d = [platform |-> "esp32", port |-> d.port, baud |-> d.baud] /\ d.platform = "esp32"
      /\ Solid(d.platform) /\ Solid(d.port)
      /\ d.baud \in Int /\ d.baud > 0
      /\ FormatInt[d.baud] \in DOMAIN Atoi /\ Atoi[FormatInt[d.baud]] = d.baud
  <2>1. /\ d = [platform |-> "esp32", port |-> d.port, baud |-> d.baud]
        /\ Solid(d.port) /\ d.baud \in Int /\ d.baud > 0 /\ d.baud \in DOMAIN FormatInt
    BY DEF ProperDevice
  <2>2. d.platform = "esp32"
    BY <2>1
  <2>3. Solid("esp32")
    BY TestFileAssumption DEF Solid
  <2>4. FormatInt[d.baud] \in DOMAIN Atoi /\ Atoi[FormatInt[d.baud]] = d.baud
    BY <2>1, TestFileAssumption
  <2> QED
    BY <2>1, <2>2, <2>3, <2>4
<1>8. /\ requiredString(n, "platform", path) = NoFault /\ At(n, "platform").value = d.platform
      /\ requiredString(n, "port", path) = NoFault /\ At(n, "port").value = d.port
  BY <1>5, <1>7, StringFound
<1>9. /\ optional(n, "baud", path, Atoi) = NoFault
      /\ ValueOf(n, "baud", Atoi, DefaultBaud) = d.baud
  BY <1>5, <1>7, TokenFound
<1>10. Device(n) = d
  BY <1>7, <1>8, <1>9 DEF Device
<1>11. positive(Device(n).baud, Append(path, "baud")) = NoFault
  BY <1>7, <1>10, PositiveIs
<1>12. When(Device(n).platform # "esp32", Append(path, "platform"), "must be esp32") = NoFault
  BY <1>7, <1>10 DEF When
<1>13. deviceFault(n) = NoFault
  <2> DEFINE f1 == mapping(n, path, {"platform", "port", "baud"})
             f2 == requiredString(n, "platform", path)
             f3 == When(Device(n).platform # "esp32", Append(path, "platform"), "must be esp32")
             f4 == requiredString(n, "port", path)
             f5 == optional(n, "baud", path, Atoi)
             f6 == positive(Device(n).baud, Append(path, "baud"))
  <2>1. deviceFault(n) = (f1 ?? f2 ?? f3 ?? f4 ?? f5 ?? f6)
    BY DEF deviceFault, path
  <2>2. /\ f1 = NoFault /\ f2 = NoFault /\ f3 = NoFault /\ f4 = NoFault /\ f5 = NoFault
        /\ f6 = NoFault
    BY <1>6, <1>8, <1>9, <1>11, <1>12
  <2> HIDE DEF f1, f2, f3, f4, f5, f6
  <2> QED
    BY <2>1, <2>2, OrFault
<1> QED
  BY <1>10, <1>13 DEF n

LEMMA ExecutionWritten ==
  ASSUME NEW x, ProperExecution(x)
  PROVE  /\ \A worst \in Timeouts : executionFault(ExecutionYAML(x), worst) = NoFault
         /\ Execution(ExecutionYAML(x)) = x
<1> DEFINE Entry(t) == <<t, Scalar(FormatDuration[x.timeout[t]])>>
           four == <<Entry("build_timeout"), Entry("upload_timeout"), Entry("boot_timeout"),
                     Entry("test_timeout")>>
           reset == <<"reset_after_upload", Scalar("true")>>
           pairs == four \o IF x.reset_after_upload THEN <<reset>> ELSE <<>>
           n == ExecutionYAML(x)
           path == <<"execution">>
           allowed == Timeouts \cup {"reset_after_upload"}
<1>1. Timeouts = {"build_timeout", "upload_timeout", "boot_timeout", "test_timeout"}
  BY DEF Timeouts, DefaultTimeout
<1>2. n = MappingOf(pairs)
  BY DEF ExecutionYAML
<1>3. /\ x = [timeout |-> [t \in Timeouts |-> x.timeout[t]],
              reset_after_upload |-> x.reset_after_upload]
      /\ \A t \in Timeouts : Duration(x.timeout[t]) /\ x.timeout[t] > 0
      /\ x.reset_after_upload \in BOOLEAN
  BY DEF ProperExecution
<1>4. /\ \A t \in Timeouts : At(n, t) = Scalar(FormatDuration[x.timeout[t]])
      /\ At(n, "reset_after_upload") = IF x.reset_after_upload THEN Scalar("true") ELSE Absent
      /\ mapping(n, path, allowed) = NoFault
  <2>1. CASE x.reset_after_upload
    <3> DEFINE e1 == Entry("build_timeout")
               e2 == Entry("upload_timeout")
               e3 == Entry("boot_timeout")
               e4 == Entry("test_timeout")
               five == <<e1, e2, e3, e4, reset>>
    <3>1. pairs = five
      <4>1. four = <<e1, e2, e3, e4>>
        OBVIOUS
      <4> HIDE DEF e1, e2, e3, e4, reset, four
      <4>2. <<e1, e2, e3, e4>> \o <<reset>> = <<e1, e2, e3, e4, reset>>
        BY FiveJoined
      <4> QED
        BY <2>1, <4>1, <4>2
    <3>2. five \in Seq({five[1], five[2], five[3], five[4], five[5]}) /\ DOMAIN five = 1..5
      <4> HIDE DEF e1, e2, e3, e4, reset
      <4> QED
        OBVIOUS
    <3>3. /\ five[1][1] = "build_timeout" /\ five[1][2] = Entry("build_timeout")[2]
          /\ five[2][1] = "upload_timeout" /\ five[2][2] = Entry("upload_timeout")[2]
          /\ five[3][1] = "boot_timeout" /\ five[3][2] = Entry("boot_timeout")[2]
          /\ five[4][1] = "test_timeout" /\ five[4][2] = Entry("test_timeout")[2]
          /\ five[5][1] = "reset_after_upload" /\ five[5][2] = Scalar("true")
      OBVIOUS
    <3>4. \A t : Entry(t)[2] = Scalar(FormatDuration[x.timeout[t]])
      OBVIOUS
    <3> HIDE DEF five, n, pairs, path, Entry
    <3>5. IsList(five) /\ \A i, j \in DOMAIN five : five[i][1] = five[j][1] => i = j
      BY <3>2, <3>3, SeqIsList
    <3>6. n = MappingOf(five)
      BY <1>2, <3>1
    <3>7. /\ At(n, "build_timeout") = five[1][2] /\ At(n, "upload_timeout") = five[2][2]
          /\ At(n, "boot_timeout") = five[3][2] /\ At(n, "test_timeout") = five[4][2]
          /\ At(n, "reset_after_upload") = five[5][2]
      BY <3>2, <3>3, <3>5, <3>6, FieldsOf
    <3>8. mapping(n, path, allowed) = NoFault
      <4>1. \A i \in DOMAIN five : five[i][1] \in allowed
        BY <1>1, <3>2, <3>3
      <4> HIDE DEF allowed
      <4> QED
        BY <3>5, <3>6, <4>1, FieldsOf
    <3> QED
      BY <1>1, <2>1, <3>3, <3>4, <3>7, <3>8
  <2>2. CASE ~x.reset_after_upload
    <3>1. pairs = four
      <4>1. four \in Seq({four[1], four[2], four[3], four[4]})
        OBVIOUS
      <4> HIDE DEF four
      <4> QED
        BY <2>2, <4>1
    <3>2. four \in Seq({four[1], four[2], four[3], four[4]}) /\ DOMAIN four = 1..4
      OBVIOUS
    <3>3. /\ four[1][1] = "build_timeout" /\ four[1][2] = Entry("build_timeout")[2]
          /\ four[2][1] = "upload_timeout" /\ four[2][2] = Entry("upload_timeout")[2]
          /\ four[3][1] = "boot_timeout" /\ four[3][2] = Entry("boot_timeout")[2]
          /\ four[4][1] = "test_timeout" /\ four[4][2] = Entry("test_timeout")[2]
      OBVIOUS
    <3>4. \A t : Entry(t)[2] = Scalar(FormatDuration[x.timeout[t]])
      OBVIOUS
    <3> HIDE DEF four, n, pairs, path, Entry
    <3>5. IsList(four) /\ \A i, j \in DOMAIN four : four[i][1] = four[j][1] => i = j
      BY <3>2, <3>3, SeqIsList
    <3>6. n = MappingOf(four)
      BY <1>2, <3>1
    <3>7. /\ At(n, "build_timeout") = four[1][2] /\ At(n, "upload_timeout") = four[2][2]
          /\ At(n, "boot_timeout") = four[3][2] /\ At(n, "test_timeout") = four[4][2]
          /\ At(n, "reset_after_upload") = Absent
      BY <3>2, <3>3, <3>5, <3>6, FieldsOf
    <3>8. mapping(n, path, allowed) = NoFault
      <4>1. \A i \in DOMAIN four : four[i][1] \in allowed
        BY <1>1, <3>2, <3>3
      <4> HIDE DEF allowed
      <4> QED
        BY <3>5, <3>6, <4>1, FieldsOf
    <3> QED
      BY <1>1, <2>2, <3>3, <3>4, <3>7, <3>8
  <2> QED
    BY <2>1, <2>2
<1> HIDE DEF n, pairs, path
<1>5. \A t \in Timeouts : /\ optional(n, t, path, ParseDuration) = NoFault
                          /\ ValueOf(n, t, ParseDuration, DefaultTimeout[t]) = x.timeout[t]
  <2> SUFFICES ASSUME NEW t \in Timeouts
               PROVE  /\ optional(n, t, path, ParseDuration) = NoFault
                      /\ ValueOf(n, t, ParseDuration, DefaultTimeout[t]) = x.timeout[t]
    OBVIOUS
  <2> DEFINE token == FormatDuration[x.timeout[t]]
  <2>1. At(n, t) = Scalar(token)
    BY <1>4
  <2>2. token \in DOMAIN ParseDuration /\ ParseDuration[token] = x.timeout[t]
    BY <1>3, TestFileAssumption DEF Duration
  <2> HIDE DEF token
  <2> QED
    BY <2>1, <2>2, TokenFound
<1>6. /\ optional(n, "reset_after_upload", path, ParseBool) = NoFault
      /\ ValueOf(n, "reset_after_upload", ParseBool, FALSE) = x.reset_after_upload
  <2>1. CASE x.reset_after_upload = TRUE
    <3>1. At(n, "reset_after_upload") = Scalar("true")
      BY <1>4, <2>1
    <3>2. "true" \in DOMAIN ParseBool /\ ParseBool["true"] = TRUE
      BY TestFileAssumption
    <3>3. /\ optional(n, "reset_after_upload", path, ParseBool) = NoFault
          /\ ValueOf(n, "reset_after_upload", ParseBool, FALSE) = ParseBool["true"]
      BY <3>1, <3>2, TokenFound
    <3> QED
      BY <2>1, <3>2, <3>3
  <2>2. CASE x.reset_after_upload = FALSE
    <3>1. At(n, "reset_after_upload") = Absent
      BY <1>4, <2>2
    <3>2. /\ optional(n, "reset_after_upload", path, ParseBool) = NoFault
          /\ ValueOf(n, "reset_after_upload", ParseBool, FALSE) = FALSE
      BY <3>1, NothingFound
    <3> QED
      BY <2>2, <3>2
  <2> QED
    BY <1>3, <2>1, <2>2
<1>7. Execution(n) = x
  <2>1. Execution(n) = [timeout |-> [t \in Timeouts |-> x.timeout[t]],
                        reset_after_upload |-> ValueOf(n, "reset_after_upload", ParseBool, FALSE)]
    BY <1>5 DEF Execution
  <2> QED
    BY <1>3, <1>6, <2>1
<1>8. ASSUME NEW worst \in Timeouts PROVE executionFault(n, worst) = NoFault
  <2> DEFINE f1 == mapping(n, path, Timeouts \cup {"reset_after_upload"})
             f2 == optional(n, "build_timeout", path, ParseDuration)
             f3 == optional(n, "upload_timeout", path, ParseDuration)
             f4 == optional(n, "boot_timeout", path, ParseDuration)
             f5 == optional(n, "test_timeout", path, ParseDuration)
             f6 == optional(n, "reset_after_upload", path, ParseBool)
             f7 == timeoutFault(Execution(n), worst)
  <2>1. n # Absent
    BY <1>4, MappingIs
  <2>2. executionFault(n, worst) = (f1 ?? f2 ?? f3 ?? f4 ?? f5 ?? f6 ?? f7)
    BY <2>1 DEF executionFault, path
  <2>3. {t \in Timeouts : x.timeout[t] <= 0} = {}
    BY <1>3 DEF Duration
  <2>4. f7 = NoFault
    BY <1>7, <2>3 DEF timeoutFault, When
  <2>5. /\ f1 = NoFault /\ f2 = NoFault /\ f3 = NoFault /\ f4 = NoFault /\ f5 = NoFault
        /\ f6 = NoFault
    BY <1>1, <1>4, <1>5, <1>6
  <2> HIDE DEF f1, f2, f3, f4, f5, f6, f7
  <2> QED
    BY <2>2, <2>4, <2>5, OrFault
<1> QED
  BY <1>7, <1>8 DEF n

(* A mapping of one field, and what a fault-free chain of checks is. *)
LEMMA OneField ==
  ASSUME NEW key, NEW node
  PROVE  /\ At(MappingOf(<<<<key, node>>>>), key) = node
         /\ \A path, allowed :
              key \in allowed => mapping(MappingOf(<<<<key, node>>>>), path, allowed) = NoFault
         /\ MappingOf(<<<<key, node>>>>).kind = "mapping"
         /\ MappingOf(<<<<key, node>>>>) # Absent
<1> DEFINE pairs == <<<<key, node>>>>
           n == MappingOf(pairs)
<1>1. pairs \in Seq({pairs[1]}) /\ DOMAIN pairs = 1..1
  OBVIOUS
<1>2. pairs[1][1] = key /\ pairs[1][2] = node
  OBVIOUS
<1>3. n.kind = "mapping" /\ n # Absent
  <2>1. n.kind = "mapping"
    BY DEF MappingOf
  <2>2. Absent.kind = "absent"
    BY DEF Absent
  <2> QED
    BY <2>1, <2>2
<1> HIDE DEF pairs
<1>4. IsList(pairs) /\ \A i, j \in DOMAIN pairs : pairs[i][1] = pairs[j][1] => i = j
  BY <1>1, SeqIsList
<1>5. At(n, key) = node
  BY <1>1, <1>2, <1>4, FieldsOf
<1>6. ASSUME NEW path, NEW allowed, key \in allowed PROVE mapping(n, path, allowed) = NoFault
  BY <1>1, <1>2, <1>4, <1>6, FieldsOf
<1> QED
  BY <1>3, <1>5, <1>6 DEF n, pairs

LEMMA StepWritten ==
  ASSUME NEW s, ProperStep(s), NEW path
  PROVE  stepFault(StepYAML(s), path) = NoFault /\ Step(StepYAML(s)) = s
<1>1. CASE s \in {[type |-> type, duration |-> 0] : type \in {"build", "upload"}}
  <2>1. PICK type \in {"build", "upload"} : s = [type |-> type, duration |-> 0]
    BY <1>1
  <2>2. s.type = type /\ type # "monitor"
    BY <2>1
  <2>3. StepYAML(s) = Scalar(type)
    BY <2>2 DEF StepYAML
  <2>4. Scalar(type).kind = "scalar" /\ Scalar(type).value = type
    BY ScalarIs
  <2>5. stepFault(Scalar(type), path) = NoFault
    BY <2>4 DEF stepFault, When
  <2>6. Step(Scalar(type)) = s
    BY <2>1, <2>4 DEF Step
  <2> QED
    BY <2>3, <2>5, <2>6
<1>2. CASE s = [type |-> "monitor", duration |-> s.duration] /\ Duration(s.duration)
  <2> DEFINE token == FormatDuration[s.duration]
             monitor == MappingOf(<<<<"duration", Scalar(token)>>>>)
             item == MappingOf(<<<<"monitor", monitor>>>>)
             here == Append(path, "monitor")
             f1 == mapping(item, path, {"monitor"})
             f2 == When(monitor = Absent, path, "must contain exactly one supported step")
             f3 == mapping(monitor, here, {"duration"})
             f4 == When(Scalar(token) = Absent, Append(here, "duration"), "is required")
             f5 == scalarIn(Scalar(token), ParseDuration, Append(here, "duration"))
  <2>1. s.type = "monitor"
    BY <1>2
  <2>2. StepYAML(s) = item
    BY <2>1 DEF StepYAML
  <2>3. token \in DOMAIN ParseDuration /\ ParseDuration[token] = s.duration
    BY <1>2, TestFileAssumption DEF Duration
  <2> HIDE DEF token
  <2>4. At(monitor, "duration") = Scalar(token) /\ monitor # Absent /\ f3 = NoFault
    BY OneField
  <2> HIDE DEF monitor
  <2>5. At(item, "monitor") = monitor /\ item.kind = "mapping" /\ f1 = NoFault
    BY OneField
  <2> HIDE DEF item
  <2>6. f2 = NoFault
    BY <2>4 DEF When
  <2>7. f4 = NoFault /\ f5 = NoFault
    BY <2>3, ScalarIs DEF When, scalarIn
  <2>8. stepFault(item, path) = (f1 ?? f2 ?? f3 ?? f4 ?? f5)
    BY <2>4, <2>5 DEF stepFault, monitorFault
  <2>9. Step(item) = s
    <3>1. Step(item) = [type |-> "monitor", duration |-> ParseDuration[Scalar(token).value]]
      BY <2>4, <2>5 DEF Step
    <3>2. Scalar(token).value = token
      BY ScalarIs
    <3> QED
      BY <1>2, <2>3, <3>1, <3>2
  <2>10. stepFault(item, path) = NoFault
    <3> HIDE DEF f1, f2, f3, f4, f5
    <3> QED
      BY <2>4, <2>5, <2>6, <2>7, <2>8, OrFault
  <2> QED
    BY <2>2, <2>9, <2>10
<1> QED
  BY <1>1, <1>2 DEF ProperStep

BodyYAML(a) ==
  MappingOf(<<<<"case_sensitive", Scalar(IF a.case_sensitive THEN "true" ELSE "false")>>,
              <<"value", Scalar(a.value)>>>>
            \o IF a.type = "serial_contains" THEN <<<<"within", Scalar(FormatDuration[a.within])>>>>
               ELSE <<>>)

LEMMA BodyWritten ==
  ASSUME NEW a, ProperAssertion(a), NEW path
  PROVE  LET body == BodyYAML(a)
         IN  /\ mapping(body, path, AssertionFields[a.type]) = NoFault
             /\ At(body, "value") = Scalar(a.value)
             /\ At(body, "case_sensitive") = Scalar(IF a.case_sensitive THEN "true" ELSE "false")
             /\ At(body, "within") = IF a.type = "serial_contains"
                                     THEN Scalar(FormatDuration[a.within]) ELSE Absent
<1> DEFINE body == BodyYAML(a)
           token == IF a.case_sensitive THEN "true" ELSE "false"
           e1 == <<"case_sensitive", Scalar(token)>>
           e2 == <<"value", Scalar(a.value)>>
           e3 == <<"within", Scalar(FormatDuration[a.within])>>
           two == <<e1, e2>>
           three == <<e1, e2, e3>>
<1>1. a.type \in {"serial_contains", "serial_not_contains"}
  BY DEF ProperAssertion
<1>2. body = MappingOf(two \o IF a.type = "serial_contains" THEN <<e3>> ELSE <<>>)
  BY DEF BodyYAML
<1>3. /\ e1[1] = "case_sensitive" /\ e1[2] = Scalar(token)
      /\ e2[1] = "value" /\ e2[2] = Scalar(a.value)
      /\ e3[1] = "within" /\ e3[2] = Scalar(FormatDuration[a.within])
  OBVIOUS
<1> HIDE DEF body, e1, e2, e3
<1>4. CASE a.type = "serial_contains"
  <2>1. body = MappingOf(three)
    <3>1. body = MappingOf(<<e1, e2>> \o <<e3>>)
      BY <1>2, <1>4
    <3> QED
      BY <3>1, ThreeJoined
  <2>2. /\ three \in Seq({e1, e2, e3}) /\ DOMAIN three = 1..3
        /\ three[1] = e1 /\ three[2] = e2 /\ three[3] = e3
    OBVIOUS
  <2>3. AssertionFields[a.type] = {"value", "within", "case_sensitive"}
    BY <1>4 DEF AssertionFields
  <2> HIDE DEF three, two, token
  <2>4. IsList(three) /\ \A i, j \in DOMAIN three : three[i][1] = three[j][1] => i = j
    BY <1>3, <2>2, SeqIsList
  <2>5. /\ At(body, three[1][1]) = three[1][2] /\ At(body, three[2][1]) = three[2][2]
        /\ At(body, three[3][1]) = three[3][2]
    BY <2>1, <2>2, <2>4, FieldsOf
  <2>6. mapping(body, path, AssertionFields[a.type]) = NoFault
    <3>1. \A i \in DOMAIN three : three[i][1] \in AssertionFields[a.type]
      BY <1>3, <2>2, <2>3
    <3> QED
      BY <2>1, <2>4, <3>1, FieldsOf
  <2> QED
    BY <1>3, <1>4, <2>2, <2>5, <2>6 DEF body, token
<1>5. CASE a.type = "serial_not_contains"
  <2>1. body = MappingOf(two)
    <3>1. body = MappingOf(two \o <<>>)
      BY <1>2, <1>5
    <3>2. two \in Seq({e1, e2})
      OBVIOUS
    <3>3. two \o <<>> = two
      <4> HIDE DEF two
      <4> QED
        BY <3>2, ConcatEmptySeq
    <3> QED
      BY <3>1, <3>3
  <2>2. /\ two \in Seq({e1, e2}) /\ DOMAIN two = 1..2
        /\ two[1] = e1 /\ two[2] = e2
    OBVIOUS
  <2>3. AssertionFields[a.type] = {"value", "case_sensitive"}
    BY <1>5 DEF AssertionFields
  <2> HIDE DEF three, two, token
  <2>4. IsList(two) /\ \A i, j \in DOMAIN two : two[i][1] = two[j][1] => i = j
    BY <1>3, <2>2, SeqIsList
  <2>5. At(body, two[1][1]) = two[1][2] /\ At(body, two[2][1]) = two[2][2]
    BY <2>1, <2>2, <2>4, FieldsOf
  <2>6. At(body, "within") = Absent
    <3>1. \A i \in DOMAIN two : two[i][1] # "within"
      BY <1>3, <2>2
    <3> QED
      BY <2>1, <2>4, <3>1, FieldsOf
  <2>7. mapping(body, path, AssertionFields[a.type]) = NoFault
    <3>1. \A i \in DOMAIN two : two[i][1] \in AssertionFields[a.type]
      BY <1>3, <2>2, <2>3
    <3> QED
      BY <2>1, <2>4, <3>1, FieldsOf
  <2>8. a.type # "serial_contains"
    BY <1>5
  <2> QED
    BY <1>3, <2>2, <2>5, <2>6, <2>7, <2>8 DEF body, token
<1> QED
  BY <1>1, <1>4, <1>5

LEMMA AssertionWritten ==
  ASSUME NEW a, ProperAssertion(a), NEW path, NEW default
  PROVE  /\ assertionFault(AssertionYAML(a), path) = NoFault
         /\ Assertion(AssertionYAML(a), default) = a
<1> DEFINE body == BodyYAML(a)
           pairs == <<<<a.type, body>>>>
           item == AssertionYAML(a)
           token == IF a.case_sensitive THEN "true" ELSE "false"
           here == Append(path, a.type)
           f1 == When(item.kind # "mapping", path, "must be a mapping")
           f2 == When(Len(item.content) # 1, path, "must contain exactly one assertion")
           f3 == When(a.type \notin DOMAIN AssertionFields, here, "unsupported assertion")
           f4 == mapping(body, here, AssertionFields[a.type])
           f5 == requiredString(body, "value", here)
           f6 == optional(body, "within", here, ParseDuration)
           f7 == positive(ValueOf(body, "within", ParseDuration, 1), Append(here, "within"))
           f8 == optional(body, "case_sensitive", here, ParseBool)
<1>1. /\ a = [type |-> a.type, value |-> a.value, within |-> a.within,
              case_sensitive |-> a.case_sensitive]
      /\ a.type \in {"serial_contains", "serial_not_contains"}
      /\ Solid(a.value)
      /\ a.case_sensitive \in BOOLEAN
      /\ IF a.type = "serial_contains" THEN Duration(a.within) /\ a.within > 0 ELSE a.within = 0
  BY DEF ProperAssertion
<1>2. item = MappingOf(pairs)
  BY DEF AssertionYAML, BodyYAML
<1> HIDE DEF body
<1>3. item.content = pairs /\ item.kind = "mapping"
  <2> HIDE DEF item, pairs
  <2> QED
    BY <1>2 DEF MappingOf
<1>4. Len(pairs) = 1 /\ pairs[1][1] = a.type /\ pairs[1][2] = body /\ DOMAIN pairs = 1..1
  OBVIOUS
<1> HIDE DEF item, pairs
<1>5. Keys(item)[1] = a.type /\ item.content[1][2] = body
  BY <1>3, <1>4 DEF Keys
<1>6. /\ f4 = NoFault
      /\ At(body, "value") = Scalar(a.value)
      /\ At(body, "case_sensitive") = Scalar(token)
      /\ At(body, "within") = IF a.type = "serial_contains"
                              THEN Scalar(FormatDuration[a.within]) ELSE Absent
  BY BodyWritten DEF body
<1>7. f5 = NoFault /\ At(body, "value").value = a.value
  BY <1>1, <1>6, StringFound
<1>8. f8 = NoFault /\ ValueOf(body, "case_sensitive", ParseBool, TRUE) = a.case_sensitive
  <2>1. token \in DOMAIN ParseBool /\ ParseBool[token] = a.case_sensitive
    <3>1. CASE a.case_sensitive = TRUE
      BY <3>1, TestFileAssumption
    <3>2. CASE a.case_sensitive = FALSE
      BY <3>2, TestFileAssumption
    <3> QED
      BY <1>1, <3>1, <3>2
  <2>2. At(body, "case_sensitive") = Scalar(token)
    BY <1>6
  <2> HIDE DEF token, here
  <2>3. f8 = NoFault
    BY <2>1, <2>2, TokenFound
  <2>4. ValueOf(body, "case_sensitive", ParseBool, TRUE) = ParseBool[token]
    BY <2>2, ScalarIs DEF ValueOf
  <2> QED
    BY <2>1, <2>3, <2>4
<1>9. f6 = NoFault /\ f7 = NoFault
      /\ a.within = IF a.type = "serial_contains"
                    THEN ValueOf(body, "within", ParseDuration, default) ELSE 0
  <2>1. CASE a.type = "serial_contains"
    <3> DEFINE within == FormatDuration[a.within]
    <3>1. Duration(a.within) /\ a.within > 0
      BY <1>1, <2>1
    <3>2. within \in DOMAIN ParseDuration /\ ParseDuration[within] = a.within /\ a.within \in Int
      BY <3>1, TestFileAssumption DEF Duration
    <3>3. At(body, "within") = Scalar(within)
      BY <1>6, <2>1
    <3> HIDE DEF within, here
    <3>4. /\ f6 = NoFault
          /\ ValueOf(body, "within", ParseDuration, 1) = a.within
          /\ ValueOf(body, "within", ParseDuration, default) = a.within
      BY <3>2, <3>3, TokenFound
    <3>5. f7 = NoFault
      BY <3>1, <3>2, <3>4, PositiveIs
    <3> QED
      BY <2>1, <3>4, <3>5
  <2>2. CASE a.type # "serial_contains"
    <3>1. At(body, "within") = Absent /\ a.within = 0
      BY <1>1, <1>6, <2>2
    <3> HIDE DEF here
    <3>2. f6 = NoFault /\ ValueOf(body, "within", ParseDuration, 1) = 1
      BY <3>1, NothingFound
    <3>3. f7 = NoFault
      BY <3>2, PositiveIs
    <3> QED
      BY <2>2, <3>1, <3>2, <3>3
  <2> QED
    BY <2>1, <2>2
<1>10. f1 = NoFault /\ f2 = NoFault
  BY <1>3, <1>4 DEF When
<1>11. f3 = NoFault
  <2>1. DOMAIN AssertionFields = {"serial_contains", "serial_not_contains"}
    BY DEF AssertionFields
  <2> QED
    BY <1>1, <2>1 DEF When
<1>12. assertionFault(item, path) = (f1 ?? f2 ?? f3 ?? f4 ?? f5 ?? f6 ?? f7 ?? f8)
  BY <1>5 DEF assertionFault
<1>13. assertionFault(item, path) = NoFault
  <2> HIDE DEF f1, f2, f3, f4, f5, f6, f7, f8
  <2> QED
    BY <1>6, <1>7, <1>8, <1>9, <1>10, <1>11, <1>12, OrFault
<1>14. Assertion(item, default) = a
  <2>1. Assertion(item, default)
          = [type |-> a.type, value |-> At(body, "value").value,
             within |-> IF a.type = "serial_contains"
                        THEN ValueOf(body, "within", ParseDuration, default) ELSE 0,
             case_sensitive |-> ValueOf(body, "case_sensitive", ParseBool, TRUE)]
    BY <1>5 DEF Assertion
  <2> QED
    BY <1>1, <1>7, <1>8, <1>9, <2>1
<1> QED
  BY <1>13, <1>14 DEF item

(* A list of items without a fault has none. *)
LEMMA NoStepFails ==
  ASSUME NEW items, \A i \in DOMAIN items : \A path : stepFault(items[i], path) = NoFault
  PROVE  stepsFault(SequenceOf(items)) = NoFault
<1> DEFINE n == SequenceOf(items)
           Here(i) == stepFault(n.content[i], <<"steps">> \o <<ToString(i - 1)>>)
           bad == {i \in DOMAIN n.content : Here(i) # NoFault}
           required == When(n = Absent, <<"steps">>, "is required")
           kind == When(n.kind # "sequence", <<"steps">>, "must be a sequence")
           first == FirstOf(n, <<"steps">>, stepFault)
<1>1. n.content = items /\ n.kind = "sequence" /\ n # Absent
  BY SequenceIs
<1>2. first = IF bad = {} THEN NoFault ELSE Here(CHOOSE i \in bad : \A j \in bad : i <= j)
  BY DEF FirstOf
<1>3. bad = {}
  <2> HIDE DEF n
  <2> QED
    BY <1>1
<1>4. first = NoFault
  <2> HIDE DEF first, bad, Here
  <2> QED
    BY <1>2, <1>3
<1>5. required = NoFault /\ kind = NoFault
  BY <1>1 DEF When
<1>6. stepsFault(n) = (required ?? kind ?? first)
  BY DEF stepsFault
<1> HIDE DEF required, kind, first
<1> QED
  BY <1>4, <1>5, <1>6, OrFault

LEMMA NoAssertionFails ==
  ASSUME NEW items, \A i \in DOMAIN items : \A path : assertionFault(items[i], path) = NoFault
  PROVE  assertionsFault(SequenceOf(items)) = NoFault
<1> DEFINE n == SequenceOf(items)
           Here(i) == assertionFault(n.content[i], <<"assertions">> \o <<ToString(i - 1)>>)
           bad == {i \in DOMAIN n.content : Here(i) # NoFault}
           required == When(n = Absent, <<"assertions">>, "is required")
           kind == When(n.kind # "sequence", <<"assertions">>, "must be a sequence")
           first == FirstOf(n, <<"assertions">>, assertionFault)
<1>1. n.content = items /\ n.kind = "sequence" /\ n # Absent
  BY SequenceIs
<1>2. first = IF bad = {} THEN NoFault ELSE Here(CHOOSE i \in bad : \A j \in bad : i <= j)
  BY DEF FirstOf
<1>3. bad = {}
  <2> HIDE DEF n
  <2> QED
    BY <1>1
<1>4. first = NoFault
  <2> HIDE DEF first, bad, Here
  <2> QED
    BY <1>2, <1>3
<1>5. required = NoFault /\ kind = NoFault
  BY <1>1 DEF When
<1>6. assertionsFault(n) = (required ?? kind ?? first)
  BY DEF assertionsFault
<1> HIDE DEF required, kind, first
<1> QED
  BY <1>4, <1>5, <1>6, OrFault

LEMMA StepsWritten ==
  ASSUME NEW steps, IsList(steps), \A i \in DOMAIN steps : ProperStep(steps[i])
  PROVE  LET n == SequenceOf([i \in DOMAIN steps |-> StepYAML(steps[i])])
         IN  /\ stepsFault(n) = NoFault
             /\ [i \in DOMAIN n.content |-> Step(n.content[i])] = steps
<1> DEFINE items == [i \in DOMAIN steps |-> StepYAML(steps[i])]
           n == SequenceOf(items)
<1>1. DOMAIN items = DOMAIN steps /\ \A i \in DOMAIN steps : items[i] = StepYAML(steps[i])
  OBVIOUS
<1> HIDE DEF items
<1>2. \A i \in DOMAIN items : /\ \A path : stepFault(items[i], path) = NoFault
                              /\ Step(items[i]) = steps[i]
  BY <1>1, StepWritten
<1>3. stepsFault(n) = NoFault
  BY <1>2, NoStepFails
<1>4. n.content = items
  BY SequenceIs
<1>5. [i \in DOMAIN n.content |-> Step(n.content[i])] = steps
  <2>1. steps = [i \in DOMAIN steps |-> steps[i]]
    BY DEF IsList
  <2> HIDE DEF n
  <2> QED
    BY <1>1, <1>2, <1>4, <2>1
<1> QED
  BY <1>3, <1>5 DEF n, items

LEMMA AssertionsWritten ==
  ASSUME NEW assertions, IsList(assertions),
         \A i \in DOMAIN assertions : ProperAssertion(assertions[i]), NEW default
  PROVE  LET n == SequenceOf([i \in DOMAIN assertions |-> AssertionYAML(assertions[i])])
         IN  /\ assertionsFault(n) = NoFault
             /\ [i \in DOMAIN n.content |-> Assertion(n.content[i], default)] = assertions
<1> DEFINE items == [i \in DOMAIN assertions |-> AssertionYAML(assertions[i])]
           n == SequenceOf(items)
<1>1. /\ DOMAIN items = DOMAIN assertions
      /\ \A i \in DOMAIN assertions : items[i] = AssertionYAML(assertions[i])
  OBVIOUS
<1> HIDE DEF items
<1>2. \A i \in DOMAIN items : /\ \A path : assertionFault(items[i], path) = NoFault
                              /\ Assertion(items[i], default) = assertions[i]
  BY <1>1, AssertionWritten
<1>3. assertionsFault(n) = NoFault
  BY <1>2, NoAssertionFails
<1>4. n.content = items
  BY SequenceIs
<1>5. [i \in DOMAIN n.content |-> Assertion(n.content[i], default)] = assertions
  <2>1. assertions = [i \in DOMAIN assertions |-> assertions[i]]
    BY DEF IsList
  <2> HIDE DEF n
  <2> QED
    BY <1>1, <1>2, <1>4, <2>1
<1> QED
  BY <1>3, <1>5 DEF n, items

(* Every check passes: so does Parse. *)
LEMMA NoCheckFails ==
  ASSUME NEW doc, NEW worst, doc # Absent,
         mapping(doc, <<>>, {"version", "name", "project", "device", "execution", "steps",
                             "assertions"}) = NoFault,
         At(doc, "version") = Scalar("1"),
         NEW name, Solid(name), At(doc, "name") = Scalar(name),
         projectFault(At(doc, "project")) = NoFault,
         deviceFault(At(doc, "device")) = NoFault,
         executionFault(At(doc, "execution"), worst) = NoFault,
         stepsFault(At(doc, "steps")) = NoFault,
         assertionsFault(At(doc, "assertions")) = NoFault,
         configFault(Config(doc)) = NoFault
  PROVE  Fault(doc, worst) = NoFault
<1> DEFINE child == At(doc, "name")
           f1 == When(doc = Absent, <<>>, "file is empty")
           f2 == mapping(doc, <<>>, {"version", "name", "project", "device", "execution", "steps",
                                     "assertions"})
           f3 == When(At(doc, "version") = Absent, <<"version">>, "is required")
           f4 == scalarIn(At(doc, "version"), Atoi, <<"version">>)
           f5 == When(Atoi[At(doc, "version").value] # 1, <<"version">>, "unsupported schema version")
           f6 == When(child = Absent, <<"name">>, "is required")
           f7 == stringScalar(child, <<"name">>)
           f8 == When(TrimSpace(child.value) = "", <<"name">>, "must not be empty")
           f9 == projectFault(At(doc, "project"))
           f10 == deviceFault(At(doc, "device"))
           f11 == executionFault(At(doc, "execution"), worst)
           f12 == stepsFault(At(doc, "steps"))
           f13 == assertionsFault(At(doc, "assertions"))
           f14 == configFault(Config(doc))
<1>1. Fault(doc, worst)
        = (f1 ?? f2 ?? f3 ?? f4 ?? f5 ?? f6 ?? f7 ?? f8 ?? f9 ?? f10 ?? f11 ?? f12 ?? f13 ?? f14)
  BY DEF Fault
<1>2. f1 = NoFault
  BY DEF When
<1>3. f3 = NoFault /\ f4 = NoFault /\ f5 = NoFault
  <2>1. /\ At(doc, "version") # Absent /\ At(doc, "version").kind = "scalar"
        /\ At(doc, "version").value = "1"
    BY ScalarIs
  <2>2. "1" \in DOMAIN Atoi /\ Atoi["1"] = 1
    BY TestFileAssumption
  <2>3. f3 = NoFault
    BY <2>1 DEF When
  <2>4. f4 = NoFault
    BY <2>1, <2>2 DEF When, scalarIn
  <2>5. f5 = NoFault
    BY <2>1, <2>2 DEF When
  <2> QED
    BY <2>3, <2>4, <2>5
<1>4. f6 = NoFault /\ f7 = NoFault /\ f8 = NoFault
  BY ScalarIs DEF When, stringScalar, Solid
<1>5. /\ f2 = NoFault /\ f9 = NoFault /\ f10 = NoFault /\ f11 = NoFault /\ f12 = NoFault
      /\ f13 = NoFault /\ f14 = NoFault
  OBVIOUS
<1> HIDE DEF f1, f2, f3, f4, f5, f6, f7, f8, f9, f10, f11, f12, f13, f14
<1> QED
  BY <1>1, <1>2, <1>3, <1>4, <1>5, OrFault

(* A document of seven sections. *)
Document(v1, v2, v3, v4, v5, v6, v7) ==
  MappingOf(<<<<"version", v1>>, <<"name", v2>>, <<"project", v3>>, <<"device", v4>>,
              <<"execution", v5>>, <<"steps", v6>>, <<"assertions", v7>>>>)

LEMMA SectionsFound ==
  ASSUME NEW v1, NEW v2, NEW v3, NEW v4, NEW v5, NEW v6, NEW v7
  PROVE  LET doc == Document(v1, v2, v3, v4, v5, v6, v7)
         IN  /\ At(doc, "version") = v1 /\ At(doc, "name") = v2 /\ At(doc, "project") = v3
             /\ At(doc, "device") = v4 /\ At(doc, "execution") = v5 /\ At(doc, "steps") = v6
             /\ At(doc, "assertions") = v7
             /\ mapping(doc, <<>>, {"version", "name", "project", "device", "execution", "steps",
                                   "assertions"}) = NoFault
             /\ doc # Absent
<1> DEFINE pairs == <<<<"version", v1>>, <<"name", v2>>, <<"project", v3>>, <<"device", v4>>,
                      <<"execution", v5>>, <<"steps", v6>>, <<"assertions", v7>>>>
           doc == MappingOf(pairs)
           allowed == {"version", "name", "project", "device", "execution", "steps", "assertions"}
<1>1. /\ DOMAIN pairs = 1..7
      /\ pairs \in Seq({pairs[1], pairs[2], pairs[3], pairs[4], pairs[5], pairs[6], pairs[7]})
  OBVIOUS
<1>2. /\ pairs[1][1] = "version" /\ pairs[1][2] = v1
      /\ pairs[2][1] = "name" /\ pairs[2][2] = v2
      /\ pairs[3][1] = "project" /\ pairs[3][2] = v3
      /\ pairs[4][1] = "device" /\ pairs[4][2] = v4
      /\ pairs[5][1] = "execution" /\ pairs[5][2] = v5
      /\ pairs[6][1] = "steps" /\ pairs[6][2] = v6
      /\ pairs[7][1] = "assertions" /\ pairs[7][2] = v7
  OBVIOUS
<1>3. doc = Document(v1, v2, v3, v4, v5, v6, v7)
  BY DEF Document
<1> HIDE DEF pairs
<1>4. IsList(pairs) /\ \A i, j \in DOMAIN pairs : pairs[i][1] = pairs[j][1] => i = j
  BY <1>1, <1>2, SeqIsList
<1>5. /\ At(doc, pairs[1][1]) = pairs[1][2] /\ At(doc, pairs[2][1]) = pairs[2][2]
      /\ At(doc, pairs[3][1]) = pairs[3][2] /\ At(doc, pairs[4][1]) = pairs[4][2]
      /\ At(doc, pairs[5][1]) = pairs[5][2] /\ At(doc, pairs[6][1]) = pairs[6][2]
      /\ At(doc, pairs[7][1]) = pairs[7][2]
  BY <1>1, <1>4, FieldsOf
<1>6. mapping(doc, <<>>, allowed) = NoFault
  <2>1. \A i \in DOMAIN pairs : pairs[i][1] \in allowed
    BY <1>1, <1>2
  <2> HIDE DEF allowed
  <2> QED
    BY <1>4, <2>1, FieldsOf
<1>7. doc # Absent
  BY <1>6, MappingIs
<1> HIDE DEF doc
<1> QED
  BY <1>2, <1>3, <1>5, <1>6, <1>7

(* What ResolvedYAML writes is read back as what it was written from.      *)
LEMMA ResolvedIsReadBack ==
  ASSUME NEW cfg, Proper(cfg)
  PROVE  /\ \A worst \in Timeouts : Fault(ResolvedYAML(cfg), worst) = NoFault
         /\ Config(ResolvedYAML(cfg)) = cfg
<1> DEFINE doc == ResolvedYAML(cfg)
           project == ProjectYAML(cfg.project)
           device == DeviceYAML(cfg.device)
           execution == ExecutionYAML(cfg.execution)
           steps == SequenceOf([i \in DOMAIN cfg.steps |-> StepYAML(cfg.steps[i])])
           assertions == SequenceOf([i \in DOMAIN cfg.assertions |-> AssertionYAML(cfg.assertions[i])])
           allowed == {"version", "name", "project", "device", "execution", "steps", "assertions"}
<1>1. doc = Document(Scalar("1"), Scalar(cfg.name), project, device, execution, steps, assertions)
  BY DEF ResolvedYAML, ProjectYAML, DeviceYAML, Document
<1>2. /\ cfg = [name |-> cfg.name, project |-> cfg.project, device |-> cfg.device,
                execution |-> cfg.execution, steps |-> cfg.steps, assertions |-> cfg.assertions]
      /\ Solid(cfg.name) /\ ProperProject(cfg.project) /\ ProperDevice(cfg.device)
      /\ ProperExecution(cfg.execution)
      /\ IsList(cfg.steps) /\ \A i \in DOMAIN cfg.steps : ProperStep(cfg.steps[i])
      /\ IsList(cfg.assertions)
      /\ \A i \in DOMAIN cfg.assertions : ProperAssertion(cfg.assertions[i])
      /\ cfg.steps # <<>>
      /\ cfg.assertions # <<>> => \E j \in DOMAIN cfg.steps : cfg.steps[j].type = "monitor"
  BY DEF Proper
<1>3. projectFault(project) = NoFault /\ Project(project) = cfg.project
  BY <1>2, ProjectWritten
<1>4. deviceFault(device) = NoFault /\ Device(device) = cfg.device
  BY <1>2, DeviceWritten
<1>5. /\ \A worst \in Timeouts : executionFault(execution, worst) = NoFault
      /\ Execution(execution) = cfg.execution
  BY <1>2, ExecutionWritten
<1>6. /\ stepsFault(steps) = NoFault
      /\ [i \in DOMAIN steps.content |-> Step(steps.content[i])] = cfg.steps
  BY <1>2, StepsWritten
<1> DEFINE default == cfg.execution.timeout["test_timeout"]
<1>7. /\ assertionsFault(assertions) = NoFault
      /\ [i \in DOMAIN assertions.content |-> Assertion(assertions.content[i], default)]
           = cfg.assertions
  <2>1. /\ IsList(cfg.assertions)
        /\ \A i \in DOMAIN cfg.assertions : ProperAssertion(cfg.assertions[i])
    BY <1>2
  <2> DEFINE list == cfg.assertions
             given == default
  <2> HIDE DEF list, given
  <2>2. LET n == SequenceOf([i \in DOMAIN list |-> AssertionYAML(list[i])])
        IN  /\ assertionsFault(n) = NoFault
            /\ [i \in DOMAIN n.content |-> Assertion(n.content[i], given)] = list
    BY <2>1, AssertionsWritten DEF list
  <2> QED
    BY <2>2 DEF list, given
<1> HIDE DEF doc, project, device, execution, steps, assertions
<1>8. /\ At(doc, "version") = Scalar("1") /\ At(doc, "name") = Scalar(cfg.name)
      /\ At(doc, "project") = project /\ At(doc, "device") = device
      /\ At(doc, "execution") = execution /\ At(doc, "steps") = steps
      /\ At(doc, "assertions") = assertions
      /\ mapping(doc, <<>>, allowed) = NoFault
  BY <1>1, SectionsFound
<1>9. Config(doc) = cfg
  <2>1. Config(doc) = [name |-> Scalar(cfg.name).value, project |-> Project(project),
                       device |-> Device(device), execution |-> Execution(execution),
                       steps |-> [i \in DOMAIN steps.content |-> Step(steps.content[i])],
                       assertions |-> [i \in DOMAIN assertions.content |->
                          Assertion(assertions.content[i], Execution(execution).timeout["test_timeout"])]]
    BY <1>8 DEF Config
  <2>2. Scalar(cfg.name).value = cfg.name
    BY ScalarIs
  <2> QED
    BY <1>2, <1>3, <1>4, <1>5, <1>6, <1>7, <2>1, <2>2
<1>10. configFault(cfg) = NoFault
  <2> DEFINE f1 == When(cfg.steps = <<>>, <<"steps">>, "must include a step")
             unjudged == /\ cfg.assertions # <<>>
                         /\ \A i \in DOMAIN cfg.steps : cfg.steps[i].type # "monitor"
             f2 == When(unjudged, <<"steps">>, "must include monitor")
  <2>1. configFault(cfg) = (f1 ?? f2)
    BY DEF configFault
  <2>2. f1 = NoFault
    BY <1>2 DEF When
  <2>3. ~unjudged
    BY <1>2
  <2>4. f2 = NoFault
    <3> HIDE DEF unjudged
    <3> QED
      BY <2>3 DEF When
  <2> HIDE DEF f1, f2
  <2> QED
    BY <2>1, <2>2, <2>4, OrFault
<1>11. doc # Absent
  BY <1>8, MappingIs
<1>12. ASSUME NEW worst \in Timeouts PROVE Fault(doc, worst) = NoFault
  BY <1>2, <1>3, <1>4, <1>5, <1>6, <1>7, <1>8, <1>9, <1>10, <1>11, NoCheckFails
<1> QED
  BY <1>9, <1>12 DEF doc

-----------------------------------------------------------------------------
(* What init writes *)

LEMMA TwoFields ==
  ASSUME NEW k1, NEW v1, NEW k2, NEW v2, k1 # k2
  PROVE  LET n == MappingOf(<<<<k1, v1>>, <<k2, v2>>>>)
         IN  /\ At(n, k1) = v1 /\ At(n, k2) = v2
             /\ \A key : key \notin {k1, k2} => At(n, key) = Absent
             /\ \A path, allowed : {k1, k2} \subseteq allowed => mapping(n, path, allowed) = NoFault
<1> DEFINE pairs == <<<<k1, v1>>, <<k2, v2>>>>
           n == MappingOf(pairs)
<1>1. pairs \in Seq({pairs[1], pairs[2]}) /\ DOMAIN pairs = 1..2
  OBVIOUS
<1>2. pairs[1][1] = k1 /\ pairs[1][2] = v1 /\ pairs[2][1] = k2 /\ pairs[2][2] = v2
  OBVIOUS
<1> HIDE DEF pairs
<1>3. IsList(pairs) /\ \A i, j \in DOMAIN pairs : pairs[i][1] = pairs[j][1] => i = j
  BY <1>1, <1>2, SeqIsList
<1>4. At(n, pairs[1][1]) = pairs[1][2] /\ At(n, pairs[2][1]) = pairs[2][2]
  BY <1>1, <1>3, FieldsOf
<1>5. ASSUME NEW key, key \notin {k1, k2} PROVE At(n, key) = Absent
  <2>1. \A i \in DOMAIN pairs : pairs[i][1] # key
    BY <1>1, <1>2, <1>5
  <2> QED
    BY <1>3, <2>1, FieldsOf
<1>6. ASSUME NEW path, NEW allowed, {k1, k2} \subseteq allowed PROVE mapping(n, path, allowed) = NoFault
  <2>1. \A i \in DOMAIN pairs : pairs[i][1] \in allowed
    BY <1>1, <1>2, <1>6
  <2> QED
    BY <1>3, <2>1, FieldsOf
<1> QED
  BY <1>2, <1>4, <1>5, <1>6 DEF n, pairs

LEMMA StarterExecution ==
  ASSUME NEW worst \in Timeouts
  PROVE  executionFault(MappingOf(<<
           <<"build_timeout", Scalar("120s")>>, <<"upload_timeout", Scalar("60s")>>,
           <<"boot_timeout", Scalar("15s")>>, <<"test_timeout", Scalar("30s")>>>>), worst) = NoFault
<1> DEFINE pairs == <<<<"build_timeout", Scalar("120s")>>, <<"upload_timeout", Scalar("60s")>>,
                      <<"boot_timeout", Scalar("15s")>>, <<"test_timeout", Scalar("30s")>>>>
           n == MappingOf(pairs)
           path == <<"execution">>
           allowed == Timeouts \cup {"reset_after_upload"}
           given == {"120s", "60s", "15s", "30s"}
<1>1. Timeouts = {"build_timeout", "upload_timeout", "boot_timeout", "test_timeout"}
  BY DEF Timeouts, DefaultTimeout
<1>2. pairs \in Seq({pairs[1], pairs[2], pairs[3], pairs[4]}) /\ DOMAIN pairs = 1..4
  OBVIOUS
<1>3. /\ pairs[1][1] = "build_timeout" /\ pairs[1][2] = Scalar("120s")
      /\ pairs[2][1] = "upload_timeout" /\ pairs[2][2] = Scalar("60s")
      /\ pairs[3][1] = "boot_timeout" /\ pairs[3][2] = Scalar("15s")
      /\ pairs[4][1] = "test_timeout" /\ pairs[4][2] = Scalar("30s")
  OBVIOUS
<1> HIDE DEF pairs, path
<1>4. IsList(pairs) /\ \A i, j \in DOMAIN pairs : pairs[i][1] = pairs[j][1] => i = j
  BY <1>2, <1>3, SeqIsList
<1>5. /\ At(n, "build_timeout") = pairs[1][2] /\ At(n, "upload_timeout") = pairs[2][2]
      /\ At(n, "boot_timeout") = pairs[3][2] /\ At(n, "test_timeout") = pairs[4][2]
      /\ At(n, "reset_after_upload") = Absent
  BY <1>2, <1>3, <1>4, FieldsOf
<1>6. mapping(n, path, allowed) = NoFault
  <2>1. \A i \in DOMAIN pairs : pairs[i][1] \in allowed
    BY <1>1, <1>2, <1>3
  <2> HIDE DEF allowed
  <2> QED
    BY <1>4, <2>1, FieldsOf
<1> HIDE DEF n
<1>7. ASSUME NEW t \in Timeouts
      PROVE  /\ optional(n, t, path, ParseDuration) = NoFault
             /\ ValueOf(n, t, ParseDuration, DefaultTimeout[t]) \in Int
             /\ ValueOf(n, t, ParseDuration, DefaultTimeout[t]) > 0
  <2>1. PICK token \in given : At(n, t) = Scalar(token)
    BY <1>1, <1>3, <1>5
  <2>2. token \in DOMAIN ParseDuration /\ ParseDuration[token] > 0
    BY StarterAssumption
  <2>3. ParseDuration[token] \in Int
    BY <2>2, TestFileAssumption
  <2> HIDE DEF given
  <2>4. /\ optional(n, t, path, ParseDuration) = NoFault
        /\ ValueOf(n, t, ParseDuration, DefaultTimeout[t]) = ParseDuration[token]
    BY <2>1, <2>2, TokenFound
  <2> QED
    BY <2>2, <2>3, <2>4
<1>8. optional(n, "reset_after_upload", path, ParseBool) = NoFault
  BY <1>5, NothingFound
<1> DEFINE f1 == mapping(n, path, Timeouts \cup {"reset_after_upload"})
           f2 == optional(n, "build_timeout", path, ParseDuration)
           f3 == optional(n, "upload_timeout", path, ParseDuration)
           f4 == optional(n, "boot_timeout", path, ParseDuration)
           f5 == optional(n, "test_timeout", path, ParseDuration)
           f6 == optional(n, "reset_after_upload", path, ParseBool)
           f7 == timeoutFault(Execution(n), worst)
<1>9. n # Absent
  BY <1>6, MappingIs
<1>10. executionFault(n, worst) = (f1 ?? f2 ?? f3 ?? f4 ?? f5 ?? f6 ?? f7)
  BY <1>9 DEF executionFault, path
<1>11. f7 = NoFault
  <2>1. \A t \in Timeouts : Execution(n).timeout[t] = ValueOf(n, t, ParseDuration, DefaultTimeout[t])
    BY DEF Execution
  <2>2. {t \in Timeouts : Execution(n).timeout[t] <= 0} = {}
    BY <1>7, <2>1
  <2> QED
    BY <2>2 DEF timeoutFault, When
<1>12. f1 = NoFault /\ f2 = NoFault /\ f3 = NoFault /\ f4 = NoFault /\ f5 = NoFault /\ f6 = NoFault
  BY <1>1, <1>6, <1>7, <1>8
<1>13. executionFault(n, worst) = NoFault
  <2> HIDE DEF f1, f2, f3, f4, f5, f6, f7
  <2> QED
    BY <1>10, <1>11, <1>12, OrFault
<1> QED
  BY <1>13 DEF n, pairs

LEMMA StarterSteps ==
  stepsFault(SequenceOf(<<Scalar("build"), Scalar("upload"),
                          Body("monitor", <<<<"duration", Scalar("10s")>>>>)>>)) = NoFault
<1> DEFINE monitor == MappingOf(<<<<"duration", Scalar("10s")>>>>)
           item == MappingOf(<<<<"monitor", monitor>>>>)
           steps == <<Scalar("build"), Scalar("upload"), item>>
<1>1. "10s" \in DOMAIN ParseDuration
  BY StarterAssumption
<1>2. At(monitor, "duration") = Scalar("10s") /\ monitor # Absent
      /\ \A path : mapping(monitor, path, {"duration"}) = NoFault
  BY OneField
<1> HIDE DEF monitor
<1>3. At(item, "monitor") = monitor /\ item.kind = "mapping"
      /\ \A path : mapping(item, path, {"monitor"}) = NoFault
  BY OneField
<1>4. steps = <<Scalar("build"), Scalar("upload"),
                Body("monitor", <<<<"duration", Scalar("10s")>>>>)>>
  BY DEF Body, monitor
<1> HIDE DEF item
<1>5. ASSUME NEW path PROVE stepFault(item, path) = NoFault
  <2> DEFINE here == Append(path, "monitor")
             f1 == mapping(item, path, {"monitor"})
             f2 == When(monitor = Absent, path, "must contain exactly one supported step")
             f3 == mapping(monitor, here, {"duration"})
             f4 == When(Scalar("10s") = Absent, Append(here, "duration"), "is required")
             f5 == scalarIn(Scalar("10s"), ParseDuration, Append(here, "duration"))
  <2>1. stepFault(item, path) = (f1 ?? f2 ?? f3 ?? f4 ?? f5)
    BY <1>2, <1>3 DEF stepFault, monitorFault
  <2>2. f1 = NoFault /\ f2 = NoFault /\ f3 = NoFault
    BY <1>2, <1>3 DEF When
  <2>3. f4 = NoFault /\ f5 = NoFault
    BY <1>1, ScalarIs DEF When, scalarIn
  <2> HIDE DEF f1, f2, f3, f4, f5
  <2> QED
    BY <2>1, <2>2, <2>3, OrFault
<1>6. ASSUME NEW type \in {"build", "upload"}, NEW path PROVE stepFault(Scalar(type), path) = NoFault
  BY ScalarIs DEF stepFault, When
<1>7. DOMAIN steps = 1..3 /\ steps[1] = Scalar("build") /\ steps[2] = Scalar("upload")
      /\ steps[3] = item
  OBVIOUS
<1> HIDE DEF steps
<1>8. \A i \in DOMAIN steps : \A path : stepFault(steps[i], path) = NoFault
  BY <1>5, <1>6, <1>7
<1> QED
  BY <1>4, <1>8, NoStepFails

(* An assertion whose fields are known and well-formed is accepted.        *)
LEMMA AssertionAccepted ==
  ASSUME NEW type \in {"serial_contains", "serial_not_contains"}, NEW body, NEW path, NEW value,
         Solid(value), At(body, "value") = Scalar(value),
         \A here : mapping(body, here, AssertionFields[type]) = NoFault,
         \/ At(body, "within") = Absent
         \/ \E t \in DOMAIN ParseDuration : At(body, "within") = Scalar(t) /\ ParseDuration[t] > 0,
         \/ At(body, "case_sensitive") = Absent
         \/ \E t \in DOMAIN ParseBool : At(body, "case_sensitive") = Scalar(t)
  PROVE  assertionFault(MappingOf(<<<<type, body>>>>), path) = NoFault
<1> DEFINE pairs == <<<<type, body>>>>
           item == MappingOf(pairs)
           here == Append(path, type)
           f1 == When(item.kind # "mapping", path, "must be a mapping")
           f2 == When(Len(item.content) # 1, path, "must contain exactly one assertion")
           f3 == When(type \notin DOMAIN AssertionFields, here, "unsupported assertion")
           f4 == mapping(body, here, AssertionFields[type])
           f5 == requiredString(body, "value", here)
           f6 == optional(body, "within", here, ParseDuration)
           f7 == positive(ValueOf(body, "within", ParseDuration, 1), Append(here, "within"))
           f8 == optional(body, "case_sensitive", here, ParseBool)
<1>1. item.content = pairs /\ item.kind = "mapping"
  <2> HIDE DEF pairs
  <2> QED
    BY DEF MappingOf
<1>2. Len(pairs) = 1 /\ pairs[1][1] = type /\ pairs[1][2] = body /\ DOMAIN pairs = 1..1
  OBVIOUS
<1> HIDE DEF item, pairs
<1>3. Keys(item)[1] = type /\ item.content[1][2] = body
  BY <1>1, <1>2 DEF Keys
<1>4. assertionFault(item, path) = (f1 ?? f2 ?? f3 ?? f4 ?? f5 ?? f6 ?? f7 ?? f8)
  BY <1>3 DEF assertionFault
<1>5. f1 = NoFault /\ f2 = NoFault
  BY <1>1, <1>2 DEF When
<1>6. f3 = NoFault
  <2>1. DOMAIN AssertionFields = {"serial_contains", "serial_not_contains"}
    BY DEF AssertionFields
  <2> QED
    BY <2>1 DEF When
<1>7. f4 = NoFault /\ f5 = NoFault
  BY StringFound
<1> HIDE DEF here
<1>8. f6 = NoFault /\ f7 = NoFault
  <2>1. CASE At(body, "within") = Absent
    <3>1. f6 = NoFault /\ ValueOf(body, "within", ParseDuration, 1) = 1
      BY <2>1, NothingFound
    <3> QED
      BY <3>1, PositiveIs
  <2>2. ASSUME NEW t \in DOMAIN ParseDuration, At(body, "within") = Scalar(t), ParseDuration[t] > 0
        PROVE  f6 = NoFault /\ f7 = NoFault
    <3>1. f6 = NoFault /\ ValueOf(body, "within", ParseDuration, 1) = ParseDuration[t]
      BY <2>2, TokenFound
    <3>2. ParseDuration[t] \in Int
      BY TestFileAssumption
    <3> QED
      BY <2>2, <3>1, <3>2, PositiveIs
  <2> QED
    BY <2>1, <2>2
<1>9. f8 = NoFault
  BY TokenFound, NothingFound
<1> HIDE DEF f1, f2, f3, f4, f5, f6, f7, f8
<1>10. assertionFault(item, path) = NoFault
  BY <1>4, <1>5, <1>6, <1>7, <1>8, <1>9, OrFault
<1> QED
  BY <1>10 DEF item, pairs

LEMMA StarterAssertions ==
  assertionsFault(SequenceOf(<<
    Body("serial_contains", <<<<"value", Scalar("System ready")>>, <<"within", Scalar("10s")>>>>),
    Body("serial_not_contains", <<<<"value", Scalar("panic")>>,
                                  <<"case_sensitive", Scalar("false")>>>>)>>)) = NoFault
<1> DEFINE contains == MappingOf(<<<<"value", Scalar("System ready")>>, <<"within", Scalar("10s")>>>>)
           absent == MappingOf(<<<<"value", Scalar("panic")>>,
                                 <<"case_sensitive", Scalar("false")>>>>)
           first == MappingOf(<<<<"serial_contains", contains>>>>)
           second == MappingOf(<<<<"serial_not_contains", absent>>>>)
           items == <<first, second>>
<1>1. /\ "10s" \in DOMAIN ParseDuration /\ ParseDuration["10s"] > 0
      /\ "false" \in DOMAIN ParseBool
      /\ Solid("System ready") /\ Solid("panic")
  BY StarterAssumption, TestFileAssumption DEF Solid
<1>2. items = <<
    Body("serial_contains", <<<<"value", Scalar("System ready")>>, <<"within", Scalar("10s")>>>>),
    Body("serial_not_contains", <<<<"value", Scalar("panic")>>,
                                  <<"case_sensitive", Scalar("false")>>>>)>>
  BY DEF Body
<1>3. /\ At(contains, "value") = Scalar("System ready") /\ At(contains, "within") = Scalar("10s")
      /\ At(contains, "case_sensitive") = Absent
      /\ \A here : mapping(contains, here, AssertionFields["serial_contains"]) = NoFault
  <2>1. {"value", "within"} \subseteq AssertionFields["serial_contains"]
    BY DEF AssertionFields
  <2> DEFINE ready == Scalar("System ready")
             soon == Scalar("10s")
             n == MappingOf(<<<<"value", ready>>, <<"within", soon>>>>)
  <2>2. n = contains
    OBVIOUS
  <2> HIDE DEF ready, soon, contains
  <2>3. /\ At(n, "value") = ready /\ At(n, "within") = soon
        /\ \A key : key \notin {"value", "within"} => At(n, key) = Absent
        /\ \A here, allowed :
             {"value", "within"} \subseteq allowed => mapping(n, here, allowed) = NoFault
    BY TwoFields
  <2> QED
    BY <2>1, <2>2, <2>3 DEF ready, soon
<1>4. /\ At(absent, "value") = Scalar("panic") /\ At(absent, "case_sensitive") = Scalar("false")
      /\ At(absent, "within") = Absent
      /\ \A here : mapping(absent, here, AssertionFields["serial_not_contains"]) = NoFault
  <2>1. {"value", "case_sensitive"} \subseteq AssertionFields["serial_not_contains"]
    BY DEF AssertionFields
  <2> QED
    BY <2>1, TwoFields
<1> HIDE DEF contains, absent
<1>5. ASSUME NEW path PROVE assertionFault(first, path) = NoFault
  BY <1>1, <1>3, AssertionAccepted
<1>6. ASSUME NEW path PROVE assertionFault(second, path) = NoFault
  BY <1>1, <1>4, AssertionAccepted
<1> HIDE DEF first, second
<1>7. DOMAIN items = 1..2 /\ items[1] = first /\ items[2] = second
  OBVIOUS
<1> HIDE DEF items
<1>8. \A i \in DOMAIN items : \A path : assertionFault(items[i], path) = NoFault
  BY <1>5, <1>6, <1>7
<1>9. assertionsFault(SequenceOf(items)) = NoFault
  BY <1>8, NoAssertionFails
<1> QED
  BY <1>2, <1>9

-----------------------------------------------------------------------------
(* The directories that files name *)

\* joining it to a place leaves it
Absolute(d) == Solid(d) /\ \A p \in Place : Join(p, d) = d

\* joining it to a place makes it absolute
Joinable(d) == Solid(d) => \A p \in Place : Absolute(Join(p, d))

LEMMA AbsoluteIsJoinable ==
  ASSUME NEW d, Absolute(d)
  PROVE  Joinable(d)
BY DEF Absolute, Joinable

LEMMA NoDirectory == Joinable("")
BY CliAssumption DEF Joinable, Solid

LEMMA GivenIsJoinable ==
  ASSUME NEW d \in Given
  PROVE  Joinable(d)
BY CliAssumption DEF Joinable, Absolute, Solid

(* A document of the seven sections names what its project section names.  *)
LEMMA DirectoryNamed ==
  ASSUME NEW v1, NEW v2, NEW d, NEW v, NEW v4, NEW v5, NEW v6, NEW v7
  PROVE  LET project == MappingOf(<<<<"directory", Scalar(d)>>, <<"environment", v>>>>)
         IN  Directory(Document(v1, v2, project, v4, v5, v6, v7)) = d
<1> DEFINE project == MappingOf(<<<<"directory", Scalar(d)>>, <<"environment", v>>>>)
<1>1. At(project, "directory") = Scalar(d)
  BY TwoFields
<1> HIDE DEF project
<1>2. At(Document(v1, v2, project, v4, v5, v6, v7), "project") = project
  BY SectionsFound
<1>3. Directory(Document(v1, v2, project, v4, v5, v6, v7)) = d
  BY <1>1, <1>2, ScalarIs DEF Directory
<1> QED
  BY <1>3 DEF project

LEMMA NothingNamed ==
  ASSUME NEW doc, doc.content = <<>>
  PROVE  Directory(doc) = ""
<1>1. DOMAIN doc.content = {}
  OBVIOUS
<1>2. At(doc, "project") = Absent
  BY <1>1 DEF At
<1>3. At(Absent, "directory") = Absent
  BY AtOfAbsent
<1>4. Absent.value = ""
  BY DEF Absent
<1> QED
  BY <1>2, <1>3, <1>4 DEF Directory

(* What a part of a file names, the file names, or nothing is named.       *)
LEMMA PartNames ==
  ASSUME NEW v1, NEW v2, NEW d, NEW v, NEW v4, NEW v5, NEW v6, NEW items, IsList(items),
         NEW project, project = MappingOf(<<<<"directory", Scalar(d)>>, <<"environment", v>>>>),
         NEW f \in PartOf(Document(v1, v2, project, v4, v5, v6, SequenceOf(items)))
  PROVE  Directory(f) \in {d, ""}
<1>1. CASE f = Torn
  <2>1. Torn.content = <<>>
    BY DEF Torn
  <2> QED
    BY <1>1, <2>1, NothingNamed
<1> DEFINE cut(part) == Document(v1, v2, project, v4, v5, v6, SequenceOf(part))
<1>2. ASSUME NEW part PROVE Directory(cut(part)) = d
  BY DirectoryNamed
<1>3. f = Torn \/ \E part : IsList(part) /\ f = cut(part)
  <2> DEFINE e1 == <<"version", v1>>
             e2 == <<"name", v2>>
             e3 == <<"project", project>>
             e4 == <<"device", v4>>
             e5 == <<"execution", v5>>
             e6 == <<"steps", v6>>
             whole(part) == MappingOf(<<e1, e2, e3, e4, e5, e6, <<"assertions", SequenceOf(part)>>>>)
  <2>1. \A part : cut(part) = whole(part)
    BY DEF Document
  <2>2. f \in PartOf(whole(items))
    BY <2>1
  <2> HIDE DEF e1, e2, e3, e4, e5, e6, cut
  <2>3. f = Torn \/ \E part : IsList(part) /\ f = whole(part)
    BY <2>2, PartsAre
  <2> QED
    BY <2>1, <2>3
<1> HIDE DEF cut
<1> QED
  BY <1>1, <1>2, <1>3

LEMMA StarterNames ==
  ASSUME NEW name, NEW environment, NEW port, NEW baud
  PROVE  LET doc == starterYAML(name, environment, port, baud)
         IN  Directory(doc) = "." /\ \A f \in PartOf(doc) : Directory(f) \in {".", ""}
<1> DEFINE steps == SequenceOf(<<Scalar("build"), Scalar("upload"),
                      Body("monitor", <<<<"duration", Scalar("10s")>>>>)>>)
           assertions == <<Body("serial_contains", <<<<"value", Scalar("System ready")>>,
                                                     <<"within", Scalar("10s")>>>>),
                           Body("serial_not_contains", <<<<"value", Scalar("panic")>>,
                                                         <<"case_sensitive", Scalar("false")>>>>)>>
           project == MappingOf(<<<<"directory", Scalar(".")>>,
                                  <<"environment", yamlString(environment)>>>>)
           device == MappingOf(<<<<"platform", Scalar("esp32")>>,
                       <<"port", yamlString(OrElse(port, "auto"))>>,
                       <<"baud", Scalar(FormatInt[IF baud <= 0 THEN DefaultBaud ELSE baud])>>>>)
           execution == MappingOf(<<
             <<"build_timeout", Scalar("120s")>>, <<"upload_timeout", Scalar("60s")>>,
             <<"boot_timeout", Scalar("15s")>>, <<"test_timeout", Scalar("30s")>>>>)
           doc == starterYAML(name, environment, port, baud)
<1>1. doc = Document(Scalar("1"), yamlString(name), project, device, execution, steps,
                     SequenceOf(assertions))
  BY DEF starterYAML, Document
<1>2. IsList(assertions)
  <2>1. assertions \in Seq({assertions[1], assertions[2]})
    OBVIOUS
  <2> HIDE DEF assertions
  <2> QED
    BY <2>1, SeqIsList
<1> HIDE DEF device, execution, steps, assertions, doc
<1>3. Directory(doc) = "."
  BY <1>1, DirectoryNamed
<1>4. ASSUME NEW f \in PartOf(doc) PROVE Directory(f) \in {".", ""}
  BY <1>1, <1>2, <1>4, PartNames
<1> QED
  BY <1>3, <1>4 DEF doc

LEMMA ResolvedNames ==
  ASSUME NEW cfg, IsList(cfg.assertions)
  PROVE  LET doc == ResolvedYAML(cfg)
         IN  /\ Directory(doc) = cfg.project.directory
             /\ \A f \in PartOf(doc) : Directory(f) \in {cfg.project.directory, ""}
<1> DEFINE items == [i \in DOMAIN cfg.assertions |-> AssertionYAML(cfg.assertions[i])]
           directory == cfg.project.directory
           project == MappingOf(<<<<"directory", Scalar(directory)>>,
                                  <<"environment", Scalar(cfg.project.environment)>>>>)
           device == DeviceYAML(cfg.device)
           execution == ExecutionYAML(cfg.execution)
           steps == SequenceOf([i \in DOMAIN cfg.steps |-> StepYAML(cfg.steps[i])])
           doc == ResolvedYAML(cfg)
<1>1. doc = Document(Scalar("1"), Scalar(cfg.name), project, device, execution, steps,
                     SequenceOf(items))
  BY DEF ResolvedYAML, DeviceYAML, Document
<1>2. IsList(items)
  <2>1. Len(cfg.assertions) \in Nat /\ DOMAIN cfg.assertions = 1..Len(cfg.assertions)
    BY ListIs
  <2>2. items = [i \in 1..Len(cfg.assertions) |-> items[i]]
    BY <2>1
  <2> HIDE DEF items
  <2> QED
    BY <2>1, <2>2, FunctionIsList
<1> HIDE DEF items, device, execution, steps, directory, doc
<1>3. Directory(doc) = directory
  BY <1>1, DirectoryNamed
<1>4. ASSUME NEW f \in PartOf(doc) PROVE Directory(f) \in {directory, ""}
  BY <1>1, <1>2, <1>4, PartNames
<1> QED
  BY <1>3, <1>4 DEF directory, doc

(* What `init` writes is accepted when YAML reads the name, the environment *)
(* and the port as text that is not blank.                                  *)
LEMMA StarterAccepted ==
  ASSUME NEW name, NEW environment, NEW port,
         NEW baud \in Int, baud > 0 => baud \in DOMAIN FormatInt,
         Solid(ReadBack(name)), Solid(ReadBack(environment)), Solid(ReadBack(OrElse(port, "auto"))),
         NEW worst \in Timeouts
  PROVE  Fault(starterYAML(name, environment, port, baud), worst) = NoFault
<1> DEFINE doc == starterYAML(name, environment, port, baud)
           chosen == IF baud <= 0 THEN DefaultBaud ELSE baud
           p == [directory |-> ".", environment |-> ReadBack(environment)]
           d == [platform |-> "esp32", port |-> ReadBack(OrElse(port, "auto")), baud |-> chosen]
           project == ProjectYAML(p)
           device == DeviceYAML(d)
           execution == MappingOf(<<
             <<"build_timeout", Scalar("120s")>>, <<"upload_timeout", Scalar("60s")>>,
             <<"boot_timeout", Scalar("15s")>>, <<"test_timeout", Scalar("30s")>>>>)
           third == Body("monitor", <<<<"duration", Scalar("10s")>>>>)
           list == <<Scalar("build"), Scalar("upload"), third>>
           steps == SequenceOf(list)
           assertions == SequenceOf(<<
             Body("serial_contains", <<<<"value", Scalar("System ready")>>,
                                       <<"within", Scalar("10s")>>>>),
             Body("serial_not_contains", <<<<"value", Scalar("panic")>>,
                                           <<"case_sensitive", Scalar("false")>>>>)>>)
<1>1. doc = Document(Scalar("1"), Scalar(ReadBack(name)), project, device, execution, steps,
                     assertions)
  BY DEF starterYAML, Document, yamlString, ProjectYAML, DeviceYAML
<1>2. projectFault(project) = NoFault
  <2>1. ProperProject(p)
    BY StarterAssumption DEF ProperProject, Solid
  <2> HIDE DEF p
  <2> QED
    BY <2>1, ProjectWritten
<1>3. deviceFault(device) = NoFault
  <2>1. chosen \in Int /\ chosen > 0 /\ chosen \in DOMAIN FormatInt
    BY DefaultsAssumption DEF DefaultBaud
  <2> HIDE DEF chosen
  <2>2. ProperDevice(d)
    BY <2>1 DEF ProperDevice
  <2> HIDE DEF d
  <2> QED
    BY <2>2, DeviceWritten
<1>4. executionFault(execution, worst) = NoFault
  BY StarterExecution
<1>5. stepsFault(steps) = NoFault
  BY StarterSteps
<1>6. assertionsFault(assertions) = NoFault
  BY StarterAssertions
<1>7. configFault(Config(doc)) = NoFault
  <2>1. At(doc, "steps") = steps
    <3> HIDE DEF doc, project, device, execution, steps, assertions
    <3> QED
      BY <1>1, SectionsFound
  <2>2. third.kind = "mapping"
    BY DEF Body, MappingOf
  <2> HIDE DEF third
  <2>3. DOMAIN list = 1..3 /\ list[3] = third
    OBVIOUS
  <2> HIDE DEF list, doc
  <2>4. steps.content = list
    BY SequenceIs
  <2> HIDE DEF steps
  <2> DEFINE cfg == Config(doc)
  <2>5. cfg.steps = [i \in DOMAIN list |-> Step(list[i])]
    BY <2>1, <2>4 DEF Config
  <2> HIDE DEF cfg
  <2>6. Step(third).type = "monitor"
    BY <2>2 DEF Step
  <2>7. 3 \in DOMAIN cfg.steps /\ cfg.steps[3].type = "monitor"
    BY <2>3, <2>5, <2>6
  <2>8. cfg.steps # <<>>
    BY <2>7
  <2> DEFINE unjudged == /\ cfg.assertions # <<>>
                         /\ \A i \in DOMAIN cfg.steps : cfg.steps[i].type # "monitor"
             f1 == When(cfg.steps = <<>>, <<"steps">>, "must include a step")
             f2 == When(unjudged, <<"steps">>, "must include monitor")
  <2>9. ~unjudged
    BY <2>7
  <2>10. f1 = NoFault /\ f2 = NoFault
    <3> HIDE DEF unjudged
    <3> QED
      BY <2>8, <2>9 DEF When
  <2>11. configFault(cfg) = (f1 ?? f2)
    BY DEF configFault
  <2> HIDE DEF f1, f2
  <2> QED
    BY <2>10, <2>11, OrFault DEF cfg
<1> HIDE DEF doc, project, device, execution, steps, assertions
<1>8. /\ At(doc, "version") = Scalar("1") /\ At(doc, "name") = Scalar(ReadBack(name))
      /\ At(doc, "project") = project /\ At(doc, "device") = device
      /\ At(doc, "execution") = execution /\ At(doc, "steps") = steps
      /\ At(doc, "assertions") = assertions /\ doc # Absent
      /\ mapping(doc, <<>>, {"version", "name", "project", "device", "execution", "steps",
                            "assertions"}) = NoFault
  BY <1>1, SectionsFound
<1>9. Fault(doc, worst) = NoFault
  BY <1>2, <1>3, <1>4, <1>5, <1>6, <1>7, <1>8, NoCheckFails
<1> QED
  BY <1>9 DEF doc

-----------------------------------------------------------------------------
(* The fields of a document *)

\* the field with key `key` of the i-th section, at j
IsField(f, doc, i) ==
  LET n == doc.content[i][2]
  IN  \/ n.kind = "mapping" /\ \E j \in DOMAIN n.content :
           f = <<<<doc.content[i][1], n.content[j][1]>>, i, j>>
      \/ n.kind # "mapping" /\ f = <<<<doc.content[i][1], "">>, i, 1>>

LEMMA FieldsAre ==
  ASSUME NEW doc, NEW f
  PROVE  f \in Fields(doc) <=> \E i \in DOMAIN doc.content : IsField(f, doc, i)
<1> DEFINE n(i) == doc.content[i][2]
           Within(i) == IF n(i).kind = "mapping"
                        THEN [j \in DOMAIN n(i).content |-> <<doc.content[i][1], Keys(n(i))[j]>>]
                        ELSE <<<<doc.content[i][1], "">>>>
           At_(i) == {<<Within(i)[j], i, j>> : j \in DOMAIN Within(i)}
<1>1. Fields(doc) = UNION {At_(i) : i \in DOMAIN doc.content}
  BY DEF Fields
<1>2. ASSUME NEW i \in DOMAIN doc.content PROVE f \in At_(i) <=> IsField(f, doc, i)
  <2>1. CASE n(i).kind = "mapping"
    <3>1. /\ DOMAIN Within(i) = DOMAIN n(i).content
          /\ \A j \in DOMAIN n(i).content : Within(i)[j] = <<doc.content[i][1], n(i).content[j][1]>>
      BY <2>1 DEF Keys
    <3> HIDE DEF Within
    <3> QED
      BY <2>1, <3>1 DEF IsField
  <2>2. CASE n(i).kind # "mapping"
    <3> DEFINE field == <<doc.content[i][1], "">>
    <3>1. DOMAIN Within(i) = {1} /\ Within(i)[1] = field
      <4>1. Within(i) = <<field>>
        BY <2>2
      <4> HIDE DEF field, Within
      <4>2. DOMAIN <<field>> = {1} /\ <<field>>[1] = field
        OBVIOUS
      <4> QED
        BY <4>1, <4>2
    <3> HIDE DEF Within
    <3> QED
      BY <2>2, <3>1 DEF IsField
  <2> QED
    BY <2>1, <2>2
<1> HIDE DEF At_
<1> QED
  BY <1>1, <1>2

\* the names of fields that a test file may have
FieldNames ==
  {<<"version", "">>, <<"name", "">>, <<"project", "directory">>, <<"project", "environment">>,
   <<"device", "platform">>, <<"device", "port">>, <<"device", "baud">>, <<"steps", "">>,
   <<"assertions", "">>, <<"execution", "reset_after_upload">>}
  \cup {<<"execution", t>> : t \in Timeouts}

\* the sections that are lists, and those that are mappings
LEMMA ListSectionIs ==
  ASSUME NEW n, stepsFault(n) = NoFault \/ assertionsFault(n) = NoFault
  PROVE  n.kind = "sequence"
<1>1. CASE stepsFault(n) = NoFault
  <2> DEFINE f1 == When(n = Absent, <<"steps">>, "is required")
             f2 == When(n.kind # "sequence", <<"steps">>, "must be a sequence")
             f3 == FirstOf(n, <<"steps">>, stepFault)
  <2>1. (f1 ?? f2 ?? f3) = NoFault
    BY <1>1 DEF stepsFault
  <2>2. f2 = NoFault
    <3> HIDE DEF f1, f2, f3
    <3> QED
      BY <2>1, OrFault
  <2> QED
    BY <2>2 DEF When, NoFault
<1>2. CASE assertionsFault(n) = NoFault
  <2> DEFINE f1 == When(n = Absent, <<"assertions">>, "is required")
             f2 == When(n.kind # "sequence", <<"assertions">>, "must be a sequence")
             f3 == FirstOf(n, <<"assertions">>, assertionFault)
  <2>1. (f1 ?? f2 ?? f3) = NoFault
    BY <1>2 DEF assertionsFault
  <2>2. f2 = NoFault
    <3> HIDE DEF f1, f2, f3
    <3> QED
      BY <2>1, OrFault
  <2> QED
    BY <2>2 DEF When, NoFault
<1> QED
  BY <1>1, <1>2

LEMMA SectionIsMapping ==
  ASSUME NEW n
  PROVE  /\ projectFault(n) = NoFault => mapping(n, <<"project">>, {"directory", "environment"}) = NoFault
         /\ deviceFault(n) = NoFault => mapping(n, <<"device">>, {"platform", "port", "baud"}) = NoFault
         /\ \A worst : executionFault(n, worst) = NoFault =>
              n = Absent \/ mapping(n, <<"execution">>, Timeouts \cup {"reset_after_upload"}) = NoFault
<1>1. ASSUME projectFault(n) = NoFault PROVE mapping(n, <<"project">>, {"directory", "environment"}) = NoFault
  <2> DEFINE path == <<"project">>
             f1 == mapping(n, path, {"directory", "environment"})
             f2 == requiredString(n, "directory", path)
             f3 == requiredString(n, "environment", path)
  <2>1. (f1 ?? f2 ?? f3) = NoFault
    BY <1>1 DEF projectFault
  <2>2. f1 = NoFault
    <3> HIDE DEF f1, f2, f3
    <3> QED
      BY <2>1, OrFault
  <2> QED
    BY <2>2
<1>2. ASSUME deviceFault(n) = NoFault PROVE mapping(n, <<"device">>, {"platform", "port", "baud"}) = NoFault
  <2> DEFINE path == <<"device">>
             f1 == mapping(n, path, {"platform", "port", "baud"})
             f2 == requiredString(n, "platform", path)
             f3 == When(Device(n).platform # "esp32", Append(path, "platform"), "must be esp32")
             f4 == requiredString(n, "port", path)
             f5 == optional(n, "baud", path, Atoi)
             f6 == positive(Device(n).baud, Append(path, "baud"))
  <2>1. (f1 ?? f2 ?? f3 ?? f4 ?? f5 ?? f6) = NoFault
    BY <1>2 DEF deviceFault
  <2>2. f1 = NoFault
    <3> HIDE DEF f1, f2, f3, f4, f5, f6
    <3> QED
      BY <2>1, OrFault
  <2> QED
    BY <2>2
<1>3. ASSUME NEW worst, executionFault(n, worst) = NoFault, n # Absent
      PROVE  mapping(n, <<"execution">>, Timeouts \cup {"reset_after_upload"}) = NoFault
  <2> DEFINE path == <<"execution">>
             f1 == mapping(n, path, Timeouts \cup {"reset_after_upload"})
             f2 == optional(n, "build_timeout", path, ParseDuration)
             f3 == optional(n, "upload_timeout", path, ParseDuration)
             f4 == optional(n, "boot_timeout", path, ParseDuration)
             f5 == optional(n, "test_timeout", path, ParseDuration)
             f6 == optional(n, "reset_after_upload", path, ParseBool)
             f7 == timeoutFault(Execution(n), worst)
  <2>1. (f1 ?? f2 ?? f3 ?? f4 ?? f5 ?? f6 ?? f7) = NoFault
    BY <1>3 DEF executionFault
  <2>2. f1 = NoFault
    <3> HIDE DEF f1, f2, f3, f4, f5, f6, f7
    <3> QED
      BY <2>1, OrFault
  <2> QED
    BY <2>2
<1> QED
  BY <1>1, <1>2, <1>3

(* What an accepted file has in each section. *)
LEMMA SectionsAre ==
  ASSUME NEW doc, Decoded(doc), NEW worst \in Timeouts, Fault(doc, worst) = NoFault,
         NEW i \in DOMAIN doc.content
  PROVE  LET key == doc.content[i][1]
             n == doc.content[i][2]
         IN  /\ \A j \in DOMAIN doc.content : doc.content[j][1] = key => j = i
             /\ n.kind = "mapping" => IsList(n.content) /\ Unique(n)
             /\ \/ n.kind # "mapping" /\ <<key, "">> \in FieldNames
                \/ /\ n.kind = "mapping"
                   /\ \A j \in DOMAIN n.content : <<key, n.content[j][1]>> \in FieldNames
<1> DEFINE key == doc.content[i][1]
           n == doc.content[i][2]
<1>1. doc.kind = "mapping" /\ IsList(doc.content) /\ IsList(n.content)
  BY ChecksAreMade, MappingIs DEF Decoded
<1>2. Unique(doc)
  BY <1>1, ChecksAreMade, MappingIsUnique
<1>3. key \in {"version", "name", "project", "device", "execution", "steps", "assertions"}
  BY ChecksAreMade, MappingIs
<1>4. At(doc, key) = n
  BY <1>1, <1>2, AtOfUnique
<1> HIDE DEF key, n
<1>5. CASE key \in {"version", "name"}
  <2>1. n.kind = "scalar"
    BY <1>4, <1>5, ChecksAreMade
  <2> QED
    BY <1>2, <1>5, <2>1 DEF FieldNames, key, n, Unique
<1>6. CASE key \in {"steps", "assertions"}
  <2>1. n.kind = "sequence"
    BY <1>4, <1>6, ChecksAreMade, ListSectionIs
  <2> QED
    BY <1>2, <1>6, <2>1 DEF FieldNames, key, n, Unique
<1>7. CASE key = "project"
  <2>1. mapping(n, <<"project">>, {"directory", "environment"}) = NoFault
    BY <1>4, <1>7, ChecksAreMade, SectionIsMapping
  <2> QED
    BY <1>1, <1>2, <1>7, <2>1, MappingIs, MappingIsUnique DEF FieldNames, key, n, Unique
<1>8. CASE key = "device"
  <2>1. mapping(n, <<"device">>, {"platform", "port", "baud"}) = NoFault
    BY <1>4, <1>8, ChecksAreMade, SectionIsMapping
  <2> QED
    BY <1>1, <1>2, <1>8, <2>1, MappingIs, MappingIsUnique DEF FieldNames, key, n, Unique
<1>9. CASE key = "execution"
  <2>1. n = Absent \/ mapping(n, <<"execution">>, Timeouts \cup {"reset_after_upload"}) = NoFault
    BY <1>4, <1>9, ChecksAreMade, SectionIsMapping
  <2>2. n # Absent
    <3>1. n.kind # "absent" /\ Absent.kind = "absent"
      BY <1>1 DEF Decoded, n, Absent
    <3> QED
      BY <3>1
  <2>3. n.kind = "mapping" /\ Unique(n)
    BY <1>1, <2>1, <2>2, MappingIs, MappingIsUnique
  <2>4. \A j \in DOMAIN n.content : n.content[j][1] \in Timeouts \cup {"reset_after_upload"}
    BY <2>1, <2>2, MappingIs
  <2>5. \A j \in DOMAIN n.content : <<key, n.content[j][1]>> \in FieldNames
    BY <1>9, <2>4 DEF FieldNames
  <2>6. \A j \in DOMAIN doc.content : doc.content[j][1] = key => j = i
    BY <1>2 DEF Unique, key
  <2> QED
    BY <1>1, <2>3, <2>5, <2>6 DEF key, n
<1> QED
  BY <1>3, <1>5, <1>6, <1>7, <1>8, <1>9

\* the key of a field in a section that is a mapping, and "" in another
Holds(n, key) ==
  \/ n.kind # "mapping" /\ key = ""
  \/ n.kind = "mapping" /\ \E j \in DOMAIN n.content : n.content[j][1] = key

LEMMA FieldFound ==
  ASSUME NEW doc, NEW i \in DOMAIN doc.content, NEW key, Holds(doc.content[i][2], key)
  PROVE  \E f \in Fields(doc) : f[1] = <<doc.content[i][1], key>>
<1> DEFINE n == doc.content[i][2]
           name == <<doc.content[i][1], key>>
<1>1. CASE n.kind # "mapping" /\ key = ""
  <2> DEFINE f == <<name, i, 1>>
  <2>1. IsField(f, doc, i) /\ f[1] = name
    BY <1>1 DEF IsField
  <2> HIDE DEF f, name
  <2>2. f \in Fields(doc)
    BY <2>1, FieldsAre
  <2> QED
    BY <2>1, <2>2 DEF name
<1>2. ASSUME n.kind = "mapping", NEW j \in DOMAIN n.content, n.content[j][1] = key
      PROVE  \E f \in Fields(doc) : f[1] = name
  <2> DEFINE f == <<name, i, j>>
  <2>1. IsField(f, doc, i) /\ f[1] = name
    BY <1>2 DEF IsField
  <2> HIDE DEF f, name
  <2>2. f \in Fields(doc)
    BY <2>1, FieldsAre
  <2> QED
    BY <2>1, <2>2
<1> QED
  BY <1>1, <1>2 DEF Holds

(* The written configuration has every field, but that of the reset.       *)
LEMMA ResolvedHas ==
  ASSUME NEW cfg, NEW name \in FieldNames, name # <<"execution", "reset_after_upload">>
  PROVE  \E f \in Fields(ResolvedYAML(cfg)) : f[1] = name
<1> DEFINE doc == ResolvedYAML(cfg)
           project == ProjectYAML(cfg.project)
           device == DeviceYAML(cfg.device)
           execution == ExecutionYAML(cfg.execution)
           steps == SequenceOf([i \in DOMAIN cfg.steps |-> StepYAML(cfg.steps[i])])
           assertions == SequenceOf([i \in DOMAIN cfg.assertions |-> AssertionYAML(cfg.assertions[i])])
           sections == <<<<"version", Scalar("1")>>, <<"name", Scalar(cfg.name)>>,
                      <<"project", project>>, <<"device", device>>, <<"execution", execution>>,
                      <<"steps", steps>>, <<"assertions", assertions>>>>
<1>1. doc.content = sections
  BY DEF ResolvedYAML, ProjectYAML, DeviceYAML, MappingOf
<1>2. Holds(project, "directory") /\ Holds(project, "environment")
  <2> DEFINE pairs == <<<<"directory", Scalar(cfg.project.directory)>>,
                        <<"environment", Scalar(cfg.project.environment)>>>>
  <2>1. {1, 2} \subseteq DOMAIN pairs /\ pairs[1][1] = "directory" /\ pairs[2][1] = "environment"
    OBVIOUS
  <2>2. project.kind = "mapping" /\ project.content = pairs
    BY DEF ProjectYAML, MappingOf
  <2> HIDE DEF pairs, project
  <2> QED
    BY <2>1, <2>2 DEF Holds
<1>3. Holds(device, "platform") /\ Holds(device, "port") /\ Holds(device, "baud")
  <2> DEFINE pairs == <<<<"platform", Scalar(cfg.device.platform)>>,
                        <<"port", Scalar(cfg.device.port)>>,
                        <<"baud", Scalar(FormatInt[cfg.device.baud])>>>>
  <2>1. {1, 2, 3} \subseteq DOMAIN pairs /\ pairs[1][1] = "platform" /\ pairs[2][1] = "port"
        /\ pairs[3][1] = "baud"
    OBVIOUS
  <2>2. device.kind = "mapping" /\ device.content = pairs
    BY DEF DeviceYAML, MappingOf
  <2> HIDE DEF pairs, device
  <2> QED
    BY <2>1, <2>2 DEF Holds
<1>4. \A t \in Timeouts : Holds(execution, t)
  <2> DEFINE Entry(t) == <<t, Scalar(FormatDuration[cfg.execution.timeout[t]])>>
             four == <<Entry("build_timeout"), Entry("upload_timeout"), Entry("boot_timeout"),
                       Entry("test_timeout")>>
             reset == <<"reset_after_upload", Scalar("true")>>
             rest == IF cfg.execution.reset_after_upload THEN <<reset>> ELSE <<>>
             S == {four[1], four[2], four[3], four[4], reset}
  <2>1. execution = MappingOf(four \o rest)
    BY DEF ExecutionYAML
  <2>2. four \in Seq(S) /\ Len(four) = 4
    OBVIOUS
  <2>3. rest \in Seq(S)
    <3> HIDE DEF four
    <3> QED
      OBVIOUS
  <2>4. /\ four[1][1] = "build_timeout" /\ four[2][1] = "upload_timeout"
        /\ four[3][1] = "boot_timeout" /\ four[4][1] = "test_timeout"
    OBVIOUS
  <2> HIDE DEF four, rest, S, execution
  <2>5. /\ DOMAIN (four \o rest) = 1..(4 + Len(rest)) /\ Len(rest) \in Nat
        /\ \A i \in 1..4 : (four \o rest)[i] = four[i]
    <3>1. Len(rest) \in Nat
      BY <2>3
    <3>2. four \o rest \in Seq(S)
      BY <2>2, <2>3, ConcatProperties
    <3>3. Len(four \o rest) = 4 + Len(rest)
      <4>1. Len(four \o rest) = Len(four) + Len(rest)
        BY <2>2, <2>3, ConcatProperties, Zenon
      <4> QED
        BY <2>2, <4>1
    <3>4. ASSUME NEW i \in 1..4 PROVE (four \o rest)[i] = four[i]
      <4>1. \A k \in 1..Len(four) + Len(rest) : (four \o rest)[k] =
               IF k <= Len(four) THEN four[k] ELSE rest[k - Len(four)]
        BY <2>2, <2>3, ConcatProperties, Zenon
      <4>2. i \in 1..Len(four) + Len(rest) /\ i <= Len(four)
        BY <2>2, <3>1
      <4> QED
        BY <4>1, <4>2, Zenon
    <3>5. DOMAIN (four \o rest) = 1..(4 + Len(rest))
      BY <3>2, <3>3
    <3> QED
      BY <3>1, <3>4, <3>5
  <2>6. {1, 2, 3, 4} \subseteq DOMAIN (four \o rest) /\ {1, 2, 3, 4} \subseteq 1..4
    BY <2>5
  <2>7. Timeouts = {"build_timeout", "upload_timeout", "boot_timeout", "test_timeout"}
    BY DEF Timeouts, DefaultTimeout
  <2>8. execution.kind = "mapping" /\ execution.content = four \o rest
    BY <2>1 DEF MappingOf
  <2> QED
    BY <2>4, <2>5, <2>6, <2>7, <2>8 DEF Holds
<1>5. /\ Holds(Scalar("1"), "") /\ Holds(Scalar(cfg.name), "")
      /\ Holds(steps, "") /\ Holds(assertions, "")
  BY DEF Holds, Scalar, SequenceOf
<1>6. DOMAIN sections = 1..7
  OBVIOUS
<1>7. /\ sections[1][1] = "version" /\ sections[1][2] = Scalar("1")
      /\ sections[2][1] = "name" /\ sections[2][2] = Scalar(cfg.name)
      /\ sections[3][1] = "project" /\ sections[3][2] = project
      /\ sections[4][1] = "device" /\ sections[4][2] = device
      /\ sections[5][1] = "execution" /\ sections[5][2] = execution
      /\ sections[6][1] = "steps" /\ sections[6][2] = steps
      /\ sections[7][1] = "assertions" /\ sections[7][2] = assertions
  OBVIOUS
<1> HIDE DEF doc, project, device, execution, steps, assertions, sections
<1>8. \E f \in Fields(doc) : f[1] = name
  <2>1. /\ \E f \in Fields(doc) : f[1] = <<"version", "">>
        /\ \E f \in Fields(doc) : f[1] = <<"name", "">>
        /\ \E f \in Fields(doc) : f[1] = <<"project", "directory">>
        /\ \E f \in Fields(doc) : f[1] = <<"project", "environment">>
        /\ \E f \in Fields(doc) : f[1] = <<"device", "platform">>
        /\ \E f \in Fields(doc) : f[1] = <<"device", "port">>
        /\ \E f \in Fields(doc) : f[1] = <<"device", "baud">>
        /\ \A t \in Timeouts : \E f \in Fields(doc) : f[1] = <<"execution", t>>
        /\ \E f \in Fields(doc) : f[1] = <<"steps", "">>
        /\ \E f \in Fields(doc) : f[1] = <<"assertions", "">>
    <3> DEFINE Has(section, key) == \E f \in Fields(doc) : f[1] = <<section, key>>
    <3>1. ASSUME NEW i \in 1..7, NEW key, Holds(sections[i][2], key)
          PROVE  Has(sections[i][1], key)
      <4>1. i \in DOMAIN doc.content /\ Holds(doc.content[i][2], key)
        BY <1>1, <1>6, <3>1
      <4>2. \E f \in Fields(doc) : f[1] = <<doc.content[i][1], key>>
        BY <4>1, FieldFound
      <4> QED
        BY <1>1, <4>2
    <3>2. /\ Has("version", "") /\ Has("name", "") /\ Has("steps", "") /\ Has("assertions", "")
          /\ Has("project", "directory") /\ Has("project", "environment")
          /\ Has("device", "platform") /\ Has("device", "port") /\ Has("device", "baud")
          /\ \A t \in Timeouts : Has("execution", t)
      <4> HIDE DEF Has
      <4> QED
        <5>1. {1, 2, 3, 4, 5, 6, 7} \subseteq 1..7
          OBVIOUS
        <5> QED
          BY <3>1, <5>1, <1>2, <1>3, <1>4, <1>5, <1>7
    <3> QED
      BY <3>2
  <2> QED
    BY <2>1 DEF FieldNames
<1> QED
  BY <1>8 DEF doc

(* Each field of an accepted file is given once and has an effect.         *)
LEMMA FieldsCount ==
  ASSUME NEW doc, Decoded(doc), NEW worst \in Timeouts, Fault(doc, worst) = NoFault
  PROVE  /\ \A f, g \in Fields(doc) : f[1] = g[1] => f = g
         /\ \A f \in Fields(doc) :
              \/ f[1] = <<"execution", "reset_after_upload">>
              \/ \E g \in Fields(ResolvedYAML(Config(doc))) : f[1] = g[1]
<1>1. ASSUME NEW f \in Fields(doc)
      PROVE  \E i \in DOMAIN doc.content :
               /\ IsField(f, doc, i)
               /\ f[1] \in FieldNames /\ f[1][1] = doc.content[i][1]
  <2>1. PICK i \in DOMAIN doc.content : IsField(f, doc, i)
    BY FieldsAre
  <2> DEFINE n == doc.content[i][2]
             key == doc.content[i][1]
  <2>2. \/ n.kind # "mapping" /\ <<key, "">> \in FieldNames
        \/ n.kind = "mapping" /\ \A j \in DOMAIN n.content : <<key, n.content[j][1]>> \in FieldNames
    BY SectionsAre
  <2>3. CASE n.kind # "mapping"
    <3>1. f = <<<<key, "">>, i, 1>>
      BY <2>1, <2>3 DEF IsField
    <3>2. f[1] = <<key, "">> /\ f[1][1] = key
      BY <3>1
    <3> QED
      BY <2>1, <2>2, <2>3, <3>2
  <2>4. CASE n.kind = "mapping"
    <3>1. PICK j \in DOMAIN n.content : f = <<<<key, n.content[j][1]>>, i, j>>
      BY <2>1, <2>4 DEF IsField
    <3>2. f[1] = <<key, n.content[j][1]>> /\ f[1][1] = key
      BY <3>1
    <3> QED
      BY <2>1, <2>2, <2>4, <3>2
  <2> QED
    BY <2>3, <2>4
<1>2. ASSUME NEW f \in Fields(doc), NEW g \in Fields(doc), f[1] = g[1]
      PROVE  f = g
  <2>1. PICK i \in DOMAIN doc.content : IsField(f, doc, i) /\ f[1][1] = doc.content[i][1]
    BY <1>1
  <2>2. PICK k \in DOMAIN doc.content : IsField(g, doc, k) /\ g[1][1] = doc.content[k][1]
    BY <1>1
  <2>3. i = k
    <3>1. \A j \in DOMAIN doc.content : doc.content[j][1] = doc.content[i][1] => j = i
      BY SectionsAre
    <3> QED
      BY <1>2, <2>1, <2>2, <3>1
  <2> DEFINE n == doc.content[i][2]
             key == doc.content[i][1]
  <2>4. CASE n.kind # "mapping"
    BY <2>1, <2>2, <2>3, <2>4 DEF IsField
  <2>5. CASE n.kind = "mapping"
    <3>1. PICK j \in DOMAIN n.content : f = <<<<key, n.content[j][1]>>, i, j>>
      BY <2>1, <2>5 DEF IsField
    <3>2. PICK l \in DOMAIN n.content : g = <<<<key, n.content[l][1]>>, i, l>>
      BY <2>2, <2>3, <2>5 DEF IsField
    <3>3. f[1] = <<key, n.content[j][1]>> /\ g[1] = <<key, n.content[l][1]>>
      BY <3>1, <3>2
    <3>4. n.content[j][1] = n.content[l][1]
      <4>1. \A a, b, c : <<a, b>> = <<a, c>> => b = c
        OBVIOUS
      <4>2. <<key, n.content[j][1]>> = <<key, n.content[l][1]>>
        BY <1>2, <3>3
      <4> HIDE DEF key, n
      <4> QED
        BY <4>1, <4>2
    <3>5. Unique(n)
      BY <2>5, SectionsAre
    <3>6. j = l
      BY <3>4, <3>5 DEF Unique
    <3> QED
      BY <3>1, <3>2, <3>6
  <2> QED
    BY <2>4, <2>5
<1>3. ASSUME NEW f \in Fields(doc), f[1] # <<"execution", "reset_after_upload">>
      PROVE  \E g \in Fields(ResolvedYAML(Config(doc))) : f[1] = g[1]
  BY <1>1, <1>3, ResolvedHas
<1> QED
  BY <1>2, <1>3

-----------------------------------------------------------------------------
(* What becomes of a file that is repaired where its fault was found *)

LEMMA SetInduction ==
  ASSUME NEW S, 0 \in S, \A n \in Nat : n \in S => n + 1 \in S
  PROVE  \A n \in Nat : n \in S
<1> SUFFICES ASSUME NEW n \in Nat, n \notin S PROVE FALSE
  OBVIOUS
<1>1. PICK m \in Nat \ S : \A y \in Nat \ S : m <= y
  BY LeastIndex
<1>2. m # 0 /\ m - 1 \in Nat
  BY <1>1
<1>3. m - 1 \in S
  BY <1>1, <1>2
<1>4. (m - 1) + 1 \in S
  BY <1>2, <1>3
<1> QED
  BY <1>1, <1>4

(* What is left of a list of entries has no entry of the key. *)
LEMMA WithoutIs ==
  ASSUME NEW T, NEW s \in Seq(T), NEW key
  PROVE  Without(s, key) \in Seq({e \in T : e[1] # key})
<1> DEFINE N == Len(s)
           Left == {e \in T : e[1] # key}
           Kept(i, f) == IF i = 0 THEN <<>>
                         ELSE IF s[i][1] = key THEN f[i - 1] ELSE Append(f[i - 1], s[i])
           Partial(f, n) == f = [i \in 0..n |-> Kept(i, f)]
           built == {n \in Nat : \E f : Partial(f, n)}
<1>1. N \in Nat /\ \A i \in 1..N : s[i] \in T
  OBVIOUS
<1>2. 0 \in built
  <2> DEFINE f == [i \in 0..0 |-> <<>>]
  <2>1. \A i \in 0..0 : Kept(i, f) = <<>>
    OBVIOUS
  <2>2. Partial(f, 0)
    BY <2>1
  <2> HIDE DEF Partial, f
  <2> QED
    BY <2>2
<1>3. ASSUME NEW n \in Nat, n \in built PROVE n + 1 \in built
  <2>1. PICK f : Partial(f, n)
    <3> HIDE DEF Partial
    <3> QED
      BY <1>3
  <2> DEFINE last == Kept(n + 1, f)
             g == [i \in 0..(n + 1) |-> IF i <= n THEN f[i] ELSE last]
  <2>2. \A i \in 0..(n + 1) : g[i] = IF i <= n THEN f[i] ELSE last
    OBVIOUS
  <2>3. DOMAIN g = 0..(n + 1) /\ g = [i \in 0..(n + 1) |-> g[i]]
    OBVIOUS
  <2>4. \A i \in 0..n : f[i] = Kept(i, f)
    BY <2>1
  <2> HIDE DEF g
  <2>5. ASSUME NEW i \in 0..(n + 1) PROVE g[i] = Kept(i, g)
    <3>1. CASE i = 0
      BY <2>2, <2>4, <3>1
    <3>2. CASE i \in 1..n
      <4>1. i - 1 \in 0..n /\ i \in 0..n /\ i # 0
        BY <3>2
      <4>2. g[i] = f[i] /\ g[i - 1] = f[i - 1]
        BY <2>2, <4>1
      <4>3. f[i] = Kept(i, f)
        BY <2>4, <4>1
      <4> QED
        BY <4>1, <4>2, <4>3
    <3>3. CASE i = n + 1
      <4>1. (n + 1) - 1 = n /\ n + 1 # 0 /\ n \in 0..n
        OBVIOUS
      <4>2. g[n + 1] = last /\ g[n] = f[n]
        BY <2>2, <4>1
      <4> QED
        BY <3>3, <4>1, <4>2
    <3> QED
      BY <3>1, <3>2, <3>3
  <2>6. Partial(g, n + 1)
    BY <2>3, <2>5
  <2> HIDE DEF Partial
  <2> QED
    BY <2>6
<1>4. \E f : Partial(f, N)
  <2>1. N \in built
    <3> HIDE DEF built
    <3> QED
      BY <1>1, <1>2, <1>3, SetInduction
  <2> HIDE DEF Partial
  <2> QED
    BY <2>1
<1> DEFINE kept == CHOOSE f : Partial(f, N)
<1>5. Without(s, key) = kept[N]
  BY DEF Without
<1>6. Partial(kept, N)
  <2> HIDE DEF Partial
  <2> QED
    BY <1>4
<1> HIDE DEF kept
<1>7. \A i \in 0..N : kept[i] = Kept(i, kept)
  BY <1>6
<1> DEFINE fine == {n \in Nat : n <= N => kept[n] \in Seq(Left)}
<1>8. 0 \in fine
  <2>1. kept[0] = <<>>
    BY <1>1, <1>7
  <2>2. <<>> \in Seq(Left)
    <3> HIDE DEF Left
    <3> QED
      OBVIOUS
  <2> HIDE DEF Left
  <2> QED
    BY <2>1, <2>2
<1>9. ASSUME NEW n \in Nat, n \in fine PROVE n + 1 \in fine
  <2> SUFFICES ASSUME n + 1 <= N PROVE kept[n + 1] \in Seq(Left)
    OBVIOUS
  <2>1. n + 1 \in 0..N /\ n + 1 # 0 /\ (n + 1) - 1 = n /\ n + 1 \in 1..N
    BY <1>1
  <2>2. kept[n] \in Seq(Left)
    BY <1>1, <1>9
  <2>3. kept[n + 1] = IF s[n + 1][1] = key THEN kept[n] ELSE Append(kept[n], s[n + 1])
    BY <1>7, <2>1
  <2>4. s[n + 1][1] # key => s[n + 1] \in Left
    BY <1>1, <2>1
  <2> HIDE DEF Left
  <2> QED
    BY <2>2, <2>3, <2>4
<1>10. N \in fine
  <2> HIDE DEF fine
  <2> QED
    BY <1>1, <1>8, <1>9, SetInduction
<1> QED
  BY <1>1, <1>5, <1>10

(* The node of a repaired field is the good one, and there is no other. *)
LEMMA ReplacedIs ==
  ASSUME NEW n, IsList(n.content), NEW key, NEW node
  PROVE  LET r == Replace(n, key, node)
         IN  /\ r.kind = "mapping" /\ r # Absent
             /\ IsList(r.content)
             /\ At(r, key) = node
             /\ \A i, j \in DOMAIN r.content :
                  r.content[i][1] = key /\ r.content[j][1] = key => i = j
             /\ node = Absent => \A i \in DOMAIN r.content : r.content[i][1] # key
<1> DEFINE s == n.content
           T == {s[i] : i \in DOMAIN s}
           Left == {e \in T : e[1] # key}
           w == Without(s, key)
           entry == <<key, node>>
           pairs == IF node = Absent THEN w ELSE Append(w, entry)
           r == Replace(n, key, node)
<1>1. w \in Seq(Left)
  BY WithoutIs DEF IsList
<1>2. r = MappingOf(pairs)
  BY DEF Replace
<1> HIDE DEF pairs, r
<1>3. r.kind = "mapping" /\ r.content = pairs
  BY <1>2 DEF MappingOf
<1>4. r # Absent
  <2>1. Absent.kind = "absent"
    BY DEF Absent
  <2> QED
    BY <1>3, <2>1
<1>5. entry[1] = key /\ entry[2] = node
  OBVIOUS
<1> HIDE DEF w, T, entry
<1>6. \A i \in DOMAIN w : w[i][1] # key
  <2>1. \A i \in DOMAIN w : w[i] \in Left
    <3> HIDE DEF Left
    <3> QED
      BY <1>1
  <2> QED
    BY <2>1
<1>7. CASE node = Absent
  <2>1. r.content = w
    BY <1>3, <1>7 DEF pairs
  <2>2. IsList(r.content)
    BY <1>1, <2>1, SeqIsList
  <2>3. At(r, key) = Absent
    BY <1>6, <2>1, <2>2, AtIs
  <2> QED
    BY <1>3, <1>4, <1>6, <1>7, <2>1, <2>2, <2>3 DEF r
<1>8. CASE node # Absent
  <2> DEFINE m == Len(w)
  <2>1. r.content = Append(w, entry)
    BY <1>3, <1>8 DEF pairs
  <2> HIDE DEF Left
  <2>2. /\ m \in Nat /\ DOMAIN w = 1..m
        /\ Append(w, entry) \in Seq(Left \cup {entry})
        /\ DOMAIN Append(w, entry) = 1..(m + 1)
        /\ \A i \in 1..m : Append(w, entry)[i] = w[i]
        /\ Append(w, entry)[m + 1] = entry
    BY <1>1
  <2>3. IsList(r.content)
    BY <2>1, <2>2, SeqIsList
  <2>4. \A i \in DOMAIN r.content : r.content[i][1] = key => i = m + 1
    <3> SUFFICES ASSUME NEW i \in 1..(m + 1), i # m + 1
                 PROVE  Append(w, entry)[i][1] # key
      BY <2>1, <2>2
    <3>1. i \in 1..m
      BY <2>2
    <3> QED
      BY <1>6, <2>2, <3>1
  <2>5. m + 1 \in DOMAIN r.content /\ r.content[m + 1] = entry
    BY <2>1, <2>2
  <2>6. At(r, key) = node
    BY <1>5, <2>3, <2>4, <2>5, AtIs
  <2>7. \A i, j \in DOMAIN r.content : r.content[i][1] = key /\ r.content[j][1] = key => i = j
    BY <2>4
  <2> QED
    BY <1>3, <1>4, <1>8, <2>3, <2>6, <2>7 DEF r
<1> QED
  BY <1>7, <1>8

\* a fault of a mapping, but none of its field `key`
SparesField(f, path, key) == f.path = <<>> \/ \E k : k # key /\ f.path = Append(path, k)

(* The fields of a repaired mapping are checked without a complaint about  *)
(* the repaired one.                                                       *)
LEMMA MappingSpares ==
  ASSUME NEW n, IsList(n.content), NEW key, NEW node, NEW path, NEW allowed,
         node = Absent \/ key \in allowed
  PROVE  SparesField(mapping(Replace(n, key, node), path, allowed), path, key)
<1> DEFINE r == Replace(n, key, node)
           s == r.content
           Unknown(i) == Keys(r)[i] \notin allowed
           Repeated(i) == \E j \in 1..i - 1 : Keys(r)[j] = Keys(r)[i]
           bad == {i \in DOMAIN s : Unknown(i) \/ Repeated(i)}
           at == CHOOSE i \in bad : \A j \in bad : i <= j
           required == When(r = Absent, path, "is required")
           kind == When(r.kind # "mapping", path, "must be a mapping")
           why == IF Unknown(at) THEN "unsupported field" ELSE "duplicate field"
           field == IF bad = {} THEN NoFault ELSE When(TRUE, Append(path, Keys(r)[at]), why)
           f == mapping(r, path, allowed)
<1>1. /\ r.kind = "mapping" /\ r # Absent /\ IsList(s)
      /\ \A i, j \in DOMAIN s : s[i][1] = key /\ s[j][1] = key => i = j
      /\ node = Absent => \A i \in DOMAIN s : s[i][1] # key
  BY ReplacedIs
<1> HIDE DEF r
<1>2. f = (required ?? kind ?? field)
  BY DEF mapping
<1>3. required = NoFault /\ kind = NoFault
  BY <1>1 DEF When
<1>4. f = field
  <2> HIDE DEF required, kind, field
  <2> QED
    BY <1>2, <1>3 DEF ??
<1>5. \A i \in DOMAIN s : Keys(r)[i] = s[i][1]
  BY DEF Keys
<1>6. bad \subseteq Nat /\ DOMAIN s = 1..Len(s) /\ Len(s) \in Nat
  BY <1>1, ListIs
<1>7. CASE bad = {}
  <2>1. f = NoFault
    <3> HIDE DEF bad, f
    <3> QED
      BY <1>4, <1>7
  <2> HIDE DEF f
  <2> QED
    BY <2>1 DEF NoFault, f, r, SparesField
<1>8. CASE bad # {}
  <2>1. at \in bad
    <3> HIDE DEF bad
    <3> QED
      BY <1>6, <1>8, LeastIndex
  <2>2. Keys(r)[at] # key
    <3> HIDE DEF at
    <3> SUFFICES ASSUME s[at][1] = key PROVE FALSE
      BY <1>5, <2>1
    <3>1. CASE Unknown(at)
      BY <1>1, <1>5, <2>1, <3>1
    <3>2. CASE Repeated(at)
      <4>1. PICK j \in 1..at - 1 : Keys(r)[j] = Keys(r)[at]
        BY <3>2
      <4>2. at \in DOMAIN s /\ j \in DOMAIN s /\ j # at
        BY <1>6, <2>1
      <4>3. s[j][1] = key
        BY <1>5, <4>1, <4>2
      <4> QED
        BY <1>1, <4>2, <4>3
    <3> QED
      BY <2>1, <3>1, <3>2
  <2>3. f = [path |-> Append(path, Keys(r)[at]), why |-> why]
    <3> HIDE DEF at, bad, why
    <3> QED
      BY <1>4, <1>8 DEF When
  <2> HIDE DEF at, bad, why, f
  <2> QED
    BY <2>2, <2>3 DEF f, r, SparesField
<1> QED
  BY <1>7, <1>8 DEF r, f

-----------------------------------------------------------------------------
(* Each section is checked under its own key *)

\* a path that begins with a key, and what is found under it
Starts(path, key) == \E X : path \in Seq(X) /\ Len(path) > 0 /\ path[1] = key

Under(f, key) == f.path = <<>> \/ Starts(f.path, key)

LEMMA StartsAlone == ASSUME NEW key PROVE Starts(<<key>>, key)
<1>1. <<key>> \in Seq({key}) /\ Len(<<key>>) > 0 /\ <<key>>[1] = key
  OBVIOUS
<1> QED
  BY <1>1 DEF Starts

LEMMA StartsLonger ==
  ASSUME NEW path, NEW key, NEW e, Starts(path, key)
  PROVE  Starts(Append(path, e), key) /\ Starts(path \o <<e>>, key)
<1>1. PICK X : path \in Seq(X) /\ Len(path) > 0 /\ path[1] = key
  BY DEF Starts
<1> DEFINE Y == X \cup {e}
<1>2. path \in Seq(Y) /\ e \in Y /\ <<e>> \in Seq(Y) /\ Len(path) \in Nat
  BY <1>1
<1> HIDE DEF Y
<1>3. Append(path, e) \in Seq(Y) /\ Len(Append(path, e)) > 0 /\ Append(path, e)[1] = key
  BY <1>1, <1>2, AppendProperties
<1>4. path \o <<e>> = Append(path, e)
  BY <1>2, AppendIsConcat
<1> QED
  BY <1>3, <1>4 DEF Starts

LEMMA UnderOr ==
  ASSUME NEW a, NEW b, NEW key, Under(a, key), Under(b, key)
  PROVE  Under(a ?? b, key)
BY DEF ??

LEMMA UnderNothing == ASSUME NEW key PROVE Under(NoFault, key)
BY DEF Under, NoFault

LEMMA UnderWhen ==
  ASSUME NEW bad, NEW path, NEW why, NEW key, Starts(path, key)
  PROVE  Under(When(bad, path, why), key)
<1>1. When(bad, path, why).path \in {path, <<>>}
  BY DEF When, NoFault
<1> QED
  BY <1>1 DEF Under

LEMMA UnderRequired ==
  ASSUME NEW n, NEW field, NEW path, NEW key, Starts(path, key)
  PROVE  Under(requiredString(n, field, path), key)
<1> DEFINE child == At(n, field)
           here == Append(path, field)
           f1 == When(child = Absent, here, "is required")
           f2 == When(child.kind # "scalar", here, "must be a scalar")
           f3 == When(TrimSpace(child.value) = "", here, "must not be empty")
<1>1. requiredString(n, field, path) = (f1 ?? f2 ?? f3)
  BY DEF requiredString, stringScalar
<1>2. Starts(here, key)
  BY StartsLonger
<1> HIDE DEF here
<1>3. Under(f1, key) /\ Under(f2, key) /\ Under(f3, key)
  BY <1>2, UnderWhen
<1> HIDE DEF f1, f2, f3
<1> QED
  BY <1>1, <1>3, UnderOr

LEMMA UnderScalarIn ==
  ASSUME NEW n, NEW table, NEW path, NEW key, Starts(path, key)
  PROVE  Under(scalarIn(n, table, path), key)
BY UnderWhen DEF scalarIn

LEMMA UnderOptional ==
  ASSUME NEW n, NEW field, NEW path, NEW table, NEW key, Starts(path, key)
  PROVE  Under(optional(n, field, path, table), key)
<1>1. Under(scalarIn(At(n, field), table, Append(path, field)), key)
  BY StartsLonger, UnderScalarIn
<1> QED
  BY <1>1, UnderNothing DEF optional

LEMMA UnderMapping ==
  ASSUME NEW n, NEW path, NEW allowed, NEW key, Starts(path, key)
  PROVE  Under(mapping(n, path, allowed), key)
<1> DEFINE Unknown(i) == Keys(n)[i] \notin allowed
           Repeated(i) == \E j \in 1..i - 1 : Keys(n)[j] = Keys(n)[i]
           bad == {i \in DOMAIN n.content : Unknown(i) \/ Repeated(i)}
           at == CHOOSE i \in bad : \A j \in bad : i <= j
           f1 == When(n = Absent, path, "is required")
           f2 == When(n.kind # "mapping", path, "must be a mapping")
           why == IF Unknown(at) THEN "unsupported field" ELSE "duplicate field"
           f3 == When(TRUE, Append(path, Keys(n)[at]), why)
           f4 == IF bad = {} THEN NoFault ELSE f3
<1>1. mapping(n, path, allowed) = (f1 ?? f2 ?? f4)
  BY DEF mapping
<1> HIDE DEF at, bad, why
<1>2. Under(f1, key) /\ Under(f2, key)
  BY UnderWhen
<1>3. Under(f3, key)
  BY StartsLonger, UnderWhen
<1> HIDE DEF f1, f2, f3
<1>4. Under(f4, key)
  BY <1>3, UnderNothing
<1> HIDE DEF f4
<1> QED
  BY <1>1, <1>2, <1>4, UnderOr

LEMMA ProjectUnder == ASSUME NEW n PROVE Under(projectFault(n), "project")
<1> DEFINE path == <<"project">>
           f1 == mapping(n, path, {"directory", "environment"})
           f2 == requiredString(n, "directory", path)
           f3 == requiredString(n, "environment", path)
<1>1. projectFault(n) = (f1 ?? f2 ?? f3)
  BY DEF projectFault
<1>2. Starts(path, "project")
  BY StartsAlone
<1> HIDE DEF path
<1>3. Under(f1, "project") /\ Under(f2, "project") /\ Under(f3, "project")
  BY <1>2, UnderMapping, UnderRequired
<1> HIDE DEF f1, f2, f3
<1> QED
  BY <1>1, <1>3, UnderOr

LEMMA DeviceUnder == ASSUME NEW n PROVE Under(deviceFault(n), "device")
<1> DEFINE path == <<"device">>
           f1 == mapping(n, path, {"platform", "port", "baud"})
           f2 == requiredString(n, "platform", path)
           f3 == When(Device(n).platform # "esp32", Append(path, "platform"), "must be esp32")
           f4 == requiredString(n, "port", path)
           f5 == optional(n, "baud", path, Atoi)
           f6 == positive(Device(n).baud, Append(path, "baud"))
<1>1. deviceFault(n) = (f1 ?? f2 ?? f3 ?? f4 ?? f5 ?? f6)
  BY DEF deviceFault
<1>2. Starts(path, "device")
  BY StartsAlone
<1> HIDE DEF path
<1>3. Starts(Append(path, "platform"), "device") /\ Starts(Append(path, "baud"), "device")
  BY <1>2, StartsLonger
<1>4. Under(f1, "device") /\ Under(f2, "device") /\ Under(f4, "device") /\ Under(f5, "device")
  BY <1>2, UnderMapping, UnderRequired, UnderOptional
<1>5. Under(f3, "device") /\ Under(f6, "device")
  BY <1>3, UnderWhen DEF positive
<1> HIDE DEF f1, f2, f3, f4, f5, f6
<1> QED
  BY <1>1, <1>4, <1>5, UnderOr

LEMMA ExecutionUnder == ASSUME NEW n, NEW worst PROVE Under(executionFault(n, worst), "execution")
<1> DEFINE path == <<"execution">>
           f1 == mapping(n, path, Timeouts \cup {"reset_after_upload"})
           f2 == optional(n, "build_timeout", path, ParseDuration)
           f3 == optional(n, "upload_timeout", path, ParseDuration)
           f4 == optional(n, "boot_timeout", path, ParseDuration)
           f5 == optional(n, "test_timeout", path, ParseDuration)
           f6 == optional(n, "reset_after_upload", path, ParseBool)
           f7 == timeoutFault(Execution(n), worst)
<1>1. executionFault(n, worst) \in {NoFault, f1 ?? f2 ?? f3 ?? f4 ?? f5 ?? f6 ?? f7}
  BY DEF executionFault
<1>2. Starts(path, "execution")
  BY StartsAlone
<1>3. Under(f7, "execution")
  <2> DEFINE bad == {t \in Timeouts : Execution(n).timeout[t] <= 0}
             met == IF worst \in bad THEN worst ELSE CHOOSE t \in bad : TRUE
  <2>1. f7 = When(bad # {}, <<"execution", met>>, "must be greater than zero")
    BY DEF timeoutFault
  <2> HIDE DEF met, bad, f7
  <2>2. <<"execution", met>> \in Seq({"execution", met}) /\ Len(<<"execution", met>>) > 0
        /\ <<"execution", met>>[1] = "execution"
    OBVIOUS
  <2>3. Starts(<<"execution", met>>, "execution")
    BY <2>2 DEF Starts
  <2> QED
    BY <2>1, <2>3, UnderWhen
<1> HIDE DEF path
<1>4. /\ Under(f1, "execution") /\ Under(f2, "execution") /\ Under(f3, "execution")
      /\ Under(f4, "execution") /\ Under(f5, "execution") /\ Under(f6, "execution")
  BY <1>2, UnderMapping, UnderOptional
<1> HIDE DEF f1, f2, f3, f4, f5, f6, f7
<1> QED
  BY <1>1, <1>3, <1>4, UnderOr, UnderNothing

LEMMA MonitorUnder ==
  ASSUME NEW item, NEW path, NEW key, Starts(path, key)
  PROVE  Under(monitorFault(item, path), key)
<1> DEFINE monitor == At(item, "monitor")
           duration == At(monitor, "duration")
           here == Append(path, "monitor")
           there == Append(here, "duration")
           f1 == mapping(item, path, {"monitor"})
           f2 == When(monitor = Absent, path, "must contain exactly one supported step")
           f3 == mapping(monitor, here, {"duration"})
           f4 == When(duration = Absent, there, "is required")
           f5 == scalarIn(duration, ParseDuration, there)
<1>1. monitorFault(item, path) = (f1 ?? f2 ?? f3 ?? f4 ?? f5)
  BY DEF monitorFault
<1>2. Starts(here, key)
  BY StartsLonger
<1> HIDE DEF here
<1>3. Starts(there, key)
  BY <1>2, StartsLonger
<1> HIDE DEF there, monitor, duration
<1>4. Under(f1, key) /\ Under(f2, key) /\ Under(f3, key) /\ Under(f4, key) /\ Under(f5, key)
  BY <1>2, <1>3, UnderMapping, UnderWhen, UnderScalarIn
<1> HIDE DEF f1, f2, f3, f4, f5
<1> QED
  BY <1>1, <1>4, UnderOr

LEMMA StepUnder ==
  ASSUME NEW item, NEW path, NEW key, Starts(path, key)
  PROVE  Under(stepFault(item, path), key)
<1>1. /\ Under(When(item.value \notin {"build", "upload"}, path, "unsupported step"), key)
      /\ Under(When(TRUE, path, "must be a step"), key)
      /\ Under(monitorFault(item, path), key)
  BY UnderWhen, MonitorUnder
<1> QED
  BY <1>1 DEF stepFault

LEMMA AssertionUnder ==
  ASSUME NEW item, NEW path, NEW key, Starts(path, key)
  PROVE  Under(assertionFault(item, path), key)
<1> DEFINE type == Keys(item)[1]
           body == item.content[1][2]
           here == Append(path, type)
           there == Append(here, "within")
           f1 == When(item.kind # "mapping", path, "must be a mapping")
           f2 == When(Len(item.content) # 1, path, "must contain exactly one assertion")
           f3 == When(type \notin DOMAIN AssertionFields, here, "unsupported assertion")
           f4 == mapping(body, here, AssertionFields[type])
           f5 == requiredString(body, "value", here)
           f6 == optional(body, "within", here, ParseDuration)
           f7 == positive(ValueOf(body, "within", ParseDuration, 1), there)
           f8 == optional(body, "case_sensitive", here, ParseBool)
<1>1. assertionFault(item, path) = (f1 ?? f2 ?? f3 ?? f4 ?? f5 ?? f6 ?? f7 ?? f8)
  BY DEF assertionFault
<1>2. Starts(here, key)
  BY StartsLonger
<1> HIDE DEF here, type, body
<1>3. Starts(there, key)
  BY <1>2, StartsLonger
<1> HIDE DEF there
<1>4. Under(f1, key) /\ Under(f2, key) /\ Under(f3, key)
  BY <1>2, UnderWhen
<1>5. Under(f4, key) /\ Under(f5, key) /\ Under(f6, key) /\ Under(f8, key)
  BY <1>2, UnderMapping, UnderRequired, UnderOptional
<1>6. Under(f7, key)
  BY <1>3, UnderWhen DEF positive
<1> HIDE DEF f1, f2, f3, f4, f5, f6, f7, f8
<1> QED
  BY <1>1, <1>4, <1>5, <1>6, UnderOr

LEMMA StepsUnder ==
  ASSUME NEW n
  PROVE  Under(stepsFault(n), "steps")
<1> DEFINE path == <<"steps">>
           Here(i) == stepFault(n.content[i], path \o <<ToString(i - 1)>>)
           bad == {i \in DOMAIN n.content : Here(i) # NoFault}
           f1 == When(n = Absent, path, "is required")
           f2 == When(n.kind # "sequence", path, "must be a sequence")
           f3 == FirstOf(n, path, stepFault)
<1>1. stepsFault(n) = (f1 ?? f2 ?? f3)
  BY DEF stepsFault
<1>2. f3 = IF bad = {} THEN NoFault ELSE Here(CHOOSE i \in bad : \A j \in bad : i <= j)
  BY DEF FirstOf
<1>3. Starts(path, "steps")
  BY StartsAlone
<1> HIDE DEF path
<1>4. \A i : Under(Here(i), "steps")
  BY <1>3, StartsLonger, StepUnder
<1>5. Under(f1, "steps") /\ Under(f2, "steps")
  BY <1>3, UnderWhen
<1> HIDE DEF f1, f2, f3, bad, Here
<1>6. Under(f3, "steps")
  BY <1>2, <1>4, UnderNothing
<1> QED
  BY <1>1, <1>5, <1>6, UnderOr

LEMMA AssertionsUnder ==
  ASSUME NEW n
  PROVE  Under(assertionsFault(n), "assertions")
<1> DEFINE path == <<"assertions">>
           Here(i) == assertionFault(n.content[i], path \o <<ToString(i - 1)>>)
           bad == {i \in DOMAIN n.content : Here(i) # NoFault}
           f1 == When(n = Absent, path, "is required")
           f2 == When(n.kind # "sequence", path, "must be a sequence")
           f3 == FirstOf(n, path, assertionFault)
<1>1. assertionsFault(n) = (f1 ?? f2 ?? f3)
  BY DEF assertionsFault
<1>2. f3 = IF bad = {} THEN NoFault ELSE Here(CHOOSE i \in bad : \A j \in bad : i <= j)
  BY DEF FirstOf
<1>3. Starts(path, "assertions")
  BY StartsAlone
<1> HIDE DEF path
<1>4. \A i : Under(Here(i), "assertions")
  BY <1>3, StartsLonger, AssertionUnder
<1>5. Under(f1, "assertions") /\ Under(f2, "assertions")
  BY <1>3, UnderWhen
<1> HIDE DEF f1, f2, f3, bad, Here
<1>6. Under(f3, "assertions")
  BY <1>2, <1>4, UnderNothing
<1> QED
  BY <1>1, <1>5, <1>6, UnderOr

-----------------------------------------------------------------------------
(* Checks that are silent about a path *)

(* A chain of checks that are silent about a path is silent about it. *)
Spares(f, p) == f.path # p

LEMMA OrSpares ==
  ASSUME NEW a, NEW b, NEW p, Spares(a, p), Spares(b, p)
  PROVE  Spares(a ?? b, p)
BY DEF ??, Spares

LEMMA NothingSpares == ASSUME NEW p, p # <<>> PROVE Spares(NoFault, p)
BY DEF Spares, NoFault

LEMMA WhenSpares ==
  ASSUME NEW bad, NEW path, NEW why, NEW p, p # <<>>, path = p => ~bad
  PROVE  Spares(When(bad, path, why), p)
BY DEF Spares, When, NoFault

(* What is found under another key, and what was repaired. *)
LEMMA UnderSpares ==
  ASSUME NEW f, NEW key, NEW p, p # <<>>, Under(f, key), p[1] = key => f = NoFault
  PROVE  Spares(f, p)
<1>1. CASE f = NoFault
  BY <1>1, NothingSpares
<1>2. CASE f # NoFault
  BY <1>2 DEF Spares, Under, Starts
<1> QED
  BY <1>1, <1>2

LEMMA RequiredSpares ==
  ASSUME NEW r, NEW g, NEW key, NEW path, NEW p, p # <<>>,
         requiredString(g, key, path) = NoFault,
         p = Append(path, key) => At(r, key) = At(g, key)
  PROVE  Spares(requiredString(r, key, path), p)
<1> DEFINE child == At(r, key)
           here == Append(path, key)
           f1 == When(child = Absent, here, "is required")
           f2 == When(child.kind # "scalar", here, "must be a scalar")
           f3 == When(TrimSpace(child.value) = "", here, "must not be empty")
<1>1. requiredString(r, key, path) = (f1 ?? f2 ?? f3)
  BY DEF requiredString, stringScalar
<1>2. here = p => child # Absent /\ child.kind = "scalar" /\ TrimSpace(child.value) # ""
  BY RequiredStringIs
<1> HIDE DEF child, here
<1>3. Spares(f1, p) /\ Spares(f2, p) /\ Spares(f3, p)
  BY <1>2 DEF Spares, When, NoFault
<1> HIDE DEF f1, f2, f3
<1> QED
  BY <1>1, <1>3, OrSpares

LEMMA OptionalSpares ==
  ASSUME NEW r, NEW g, NEW key, NEW path, NEW table, NEW p, p # <<>>,
         optional(g, key, path, table) = NoFault,
         p = Append(path, key) => At(r, key) = At(g, key)
  PROVE  Spares(optional(r, key, path, table), p)
<1>1. CASE p = Append(path, key)
  <2>1. optional(r, key, path, table) = optional(g, key, path, table)
    BY <1>1 DEF optional
  <2> QED
    BY <2>1, NothingSpares
<1>2. CASE p # Append(path, key)
  <2> DEFINE here == Append(path, key)
             child == At(r, key)
  <2>1. optional(r, key, path, table) \in {NoFault, scalarIn(child, table, here)}
    BY DEF optional
  <2>2. Spares(scalarIn(child, table, here), p)
    <3> HIDE DEF here, child
    <3>1. here # p
      BY <1>2 DEF here
    <3> QED
      BY <3>1 DEF scalarIn, Spares, When, NoFault
  <2> HIDE DEF here, child
  <2> QED
    BY <2>1, <2>2, NothingSpares
<1> QED
  BY <1>1, <1>2

LEMMA PairIs == ASSUME NEW s, NEW k PROVE Append(<<s>>, k) = <<s, k>>
<1> DEFINE a == Append(<<s>>, k)
           b == <<s, k>>
<1>1. <<s>> \in Seq({s, k}) /\ k \in {s, k} /\ b \in Seq({s, k})
  OBVIOUS
<1>2. Len(<<s>>) = 1 /\ <<s>>[1] = s /\ Len(b) = 2 /\ b[1] = s /\ b[2] = k
  OBVIOUS
<1>3. a \in Seq({s, k}) /\ Len(a) = 2 /\ a[1] = s /\ a[2] = k
  BY <1>1, <1>2
<1>4. a = [i \in 1..2 |-> a[i]] /\ b = [i \in 1..2 |-> b[i]]
  BY <1>1, <1>2, <1>3
<1> HIDE DEF a, b
<1>5. \A i \in 1..2 : a[i] = b[i]
  <2>1. \A i \in 1..2 : i = 1 \/ i = 2
    OBVIOUS
  <2> QED
    BY <1>2, <1>3, <2>1
<1>6. [i \in 1..2 |-> a[i]] = [i \in 1..2 |-> b[i]]
  BY <1>5
<1>7. a = b
  BY <1>4, <1>6
<1> QED
  BY <1>7 DEF a, b

(* Where a mapping is at fault. *)
LEMMA MappingFaultIs ==
  ASSUME NEW n, NEW path, NEW allowed
  PROVE  LET f == mapping(n, path, allowed)
         IN  f.path = <<>> \/ f.path = path \/ \E k : f.path = Append(path, k)
<1> DEFINE Unknown(i) == Keys(n)[i] \notin allowed
           Repeated(i) == \E j \in 1..i - 1 : Keys(n)[j] = Keys(n)[i]
           bad == {i \in DOMAIN n.content : Unknown(i) \/ Repeated(i)}
           at == CHOOSE i \in bad : \A j \in bad : i <= j
           f1 == When(n = Absent, path, "is required")
           f2 == When(n.kind # "mapping", path, "must be a mapping")
           why == IF Unknown(at) THEN "unsupported field" ELSE "duplicate field"
           key == Keys(n)[at]
           f3 == When(TRUE, Append(path, key), why)
           f4 == IF bad = {} THEN NoFault ELSE f3
           f == mapping(n, path, allowed)
<1>1. f = (f1 ?? f2 ?? f4)
  BY DEF mapping
<1>2. f \in {f1, f2, f4}
  <2> HIDE DEF f, f1, f2, f4
  <2> QED
    BY <1>1 DEF ??
<1> HIDE DEF key, bad, why
<1>3. f1.path \in {<<>>, path} /\ f2.path \in {<<>>, path}
  BY DEF When, NoFault
<1>4. f4.path \in {<<>>, Append(path, key)}
  BY DEF When, NoFault
<1> HIDE DEF f1, f2, f4, f
<1>5. f.path = <<>> \/ f.path = path \/ f.path = Append(path, key)
  BY <1>2, <1>3, <1>4
<1>6. f.path = <<>> \/ f.path = path \/ \E k : f.path = Append(path, k)
  BY <1>5
<1> QED
  BY <1>6 DEF f

(* A field that was taken from a good section is not complained about. *)
LEMMA FieldSpares ==
  ASSUME NEW n, IsList(n.content), NEW g, IsList(g.content), NEW s, NEW allowed,
         mapping(g, <<s>>, allowed) = NoFault, NEW p, p # <<>>
  PROVE  LET r == Replace(n, p[2], At(g, p[2]))
         IN  /\ Spares(mapping(r, <<s>>, allowed), p)
             /\ \A key : p = Append(<<s>>, key) => At(r, key) = At(g, key)
<1> DEFINE path == <<s>>
           field == p[2]
           node == At(g, field)
           r == Replace(n, field, node)
           f == mapping(r, path, allowed)
<1>1. node = Absent \/ field \in allowed
  <2> HIDE DEF path, field
  <2>1. \A i \in DOMAIN g.content : g.content[i][1] \in allowed
    BY MappingIs
  <2> QED
    BY <2>1, AtIs
<1>2. \A k : Append(path, k)[2] = k
  OBVIOUS
<1> HIDE DEF path, field, node
<1>3. SparesField(f, path, field)
  BY <1>1, MappingSpares
<1>4. At(r, field) = node
  BY ReplacedIs
<1> HIDE DEF r, f
<1>5. Spares(f, p)
  BY <1>2, <1>3 DEF Spares, SparesField, field
<1>6. \A key : p = Append(path, key) => At(r, key) = At(g, key)
  BY <1>2, <1>4 DEF field, node
<1> QED
  BY <1>5, <1>6 DEF f, r, path, field, node

LEMMA ProjectRepaired ==
  ASSUME NEW n, IsList(n.content), NEW g, IsList(g.content), projectFault(g) = NoFault,
         NEW p, p # <<>>
  PROVE  Spares(projectFault(Replace(n, p[2], At(g, p[2]))), p)
<1> DEFINE path == <<"project">>
           allowed == {"directory", "environment"}
           r == Replace(n, p[2], At(g, p[2]))
           f1 == mapping(r, path, allowed)
           f2 == requiredString(r, "directory", path)
           f3 == requiredString(r, "environment", path)
           g1 == mapping(g, path, allowed)
           g2 == requiredString(g, "directory", path)
           g3 == requiredString(g, "environment", path)
<1>1. projectFault(r) = (f1 ?? f2 ?? f3)
  BY DEF projectFault
<1>2. (g1 ?? g2 ?? g3) = NoFault
  BY DEF projectFault
<1>3. g1 = NoFault /\ g2 = NoFault /\ g3 = NoFault
  <2> HIDE DEF g1, g2, g3
  <2> QED
    BY <1>2, OrFault
<1>4. Spares(f1, p) /\ \A key : p = Append(path, key) => At(r, key) = At(g, key)
  BY <1>3, FieldSpares
<1> HIDE DEF r, path
<1>5. Spares(f2, p) /\ Spares(f3, p)
  BY <1>3, <1>4, RequiredSpares
<1> HIDE DEF f1, f2, f3
<1>6. Spares(projectFault(r), p)
  BY <1>1, <1>4, <1>5, OrSpares
<1> QED
  BY <1>6 DEF r

LEMMA DeviceRepaired ==
  ASSUME NEW n, IsList(n.content), NEW g, IsList(g.content), deviceFault(g) = NoFault,
         NEW p, p # <<>>
  PROVE  Spares(deviceFault(Replace(n, p[2], At(g, p[2]))), p)
<1> DEFINE path == <<"device">>
           allowed == {"platform", "port", "baud"}
           r == Replace(n, p[2], At(g, p[2]))
           f1 == mapping(r, path, allowed)
           f2 == requiredString(r, "platform", path)
           f3 == When(Device(r).platform # "esp32", Append(path, "platform"), "must be esp32")
           f4 == requiredString(r, "port", path)
           f5 == optional(r, "baud", path, Atoi)
           f6 == positive(Device(r).baud, Append(path, "baud"))
           g1 == mapping(g, path, allowed)
           g2 == requiredString(g, "platform", path)
           g3 == When(Device(g).platform # "esp32", Append(path, "platform"), "must be esp32")
           g4 == requiredString(g, "port", path)
           g5 == optional(g, "baud", path, Atoi)
           g6 == positive(Device(g).baud, Append(path, "baud"))
<1>1. deviceFault(r) = (f1 ?? f2 ?? f3 ?? f4 ?? f5 ?? f6)
  BY DEF deviceFault
<1>2. (g1 ?? g2 ?? g3 ?? g4 ?? g5 ?? g6) = NoFault
  BY DEF deviceFault
<1>3. g1 = NoFault /\ g2 = NoFault /\ g4 = NoFault /\ g5 = NoFault
  <2> HIDE DEF g1, g2, g3, g4, g5, g6
  <2> QED
    BY <1>2, OrFault
<1>4. Spares(f1, p) /\ \A key : p = Append(path, key) => At(r, key) = At(g, key)
  BY <1>3, FieldSpares
<1>5. Device(g).platform = "esp32" /\ ~(Device(g).baud <= 0)
  <2>1. ProperDevice(Device(g))
    BY DeviceParsed
  <2>2. Device(g).platform = "esp32" /\ Device(g).baud \in Int /\ Device(g).baud > 0
    BY <2>1 DEF ProperDevice
  <2> QED
    BY <2>2
<1> HIDE DEF r, path
<1>6. Spares(f2, p) /\ Spares(f4, p) /\ Spares(f5, p)
  BY <1>3, <1>4, RequiredSpares, OptionalSpares
<1>7. Spares(f3, p)
  <2>1. p = Append(path, "platform") => Device(r).platform = Device(g).platform
    BY <1>4 DEF Device
  <2> QED
    BY <1>5, <2>1 DEF Spares, When, NoFault
<1>8. Spares(f6, p)
  <2>1. p = Append(path, "baud") => Device(r).baud = Device(g).baud
    BY <1>4 DEF Device, ValueOf
  <2> QED
    BY <1>5, <2>1 DEF Spares, When, NoFault, positive
<1> HIDE DEF f1, f2, f3, f4, f5, f6
<1>9. Spares(deviceFault(r), p)
  BY <1>1, <1>4, <1>6, <1>7, <1>8, OrSpares
<1> QED
  BY <1>9 DEF r

LEMMA ExecutionRepaired ==
  ASSUME NEW n, IsList(n.content), NEW g, IsList(g.content), g # Absent,
         NEW worst \in Timeouts, executionFault(g, worst) = NoFault, NEW p, p # <<>>
  PROVE  Spares(executionFault(Replace(n, p[2], At(g, p[2])), worst), p)
<1> DEFINE path == <<"execution">>
           allowed == Timeouts \cup {"reset_after_upload"}
           r == Replace(n, p[2], At(g, p[2]))
           f1 == mapping(r, path, allowed)
           f2 == optional(r, "build_timeout", path, ParseDuration)
           f3 == optional(r, "upload_timeout", path, ParseDuration)
           f4 == optional(r, "boot_timeout", path, ParseDuration)
           f5 == optional(r, "test_timeout", path, ParseDuration)
           f6 == optional(r, "reset_after_upload", path, ParseBool)
           f7 == timeoutFault(Execution(r), worst)
           g1 == mapping(g, path, allowed)
           g2 == optional(g, "build_timeout", path, ParseDuration)
           g3 == optional(g, "upload_timeout", path, ParseDuration)
           g4 == optional(g, "boot_timeout", path, ParseDuration)
           g5 == optional(g, "test_timeout", path, ParseDuration)
           g6 == optional(g, "reset_after_upload", path, ParseBool)
           g7 == timeoutFault(Execution(g), worst)
<1>1. executionFault(r, worst) \in {NoFault, f1 ?? f2 ?? f3 ?? f4 ?? f5 ?? f6 ?? f7}
  BY DEF executionFault
<1>2. (g1 ?? g2 ?? g3 ?? g4 ?? g5 ?? g6 ?? g7) = NoFault
  BY DEF executionFault
<1>3. /\ g1 = NoFault /\ g2 = NoFault /\ g3 = NoFault /\ g4 = NoFault /\ g5 = NoFault
      /\ g6 = NoFault
  <2> HIDE DEF g1, g2, g3, g4, g5, g6, g7
  <2> QED
    BY <1>2, OrFault
<1>4. Spares(f1, p) /\ \A key : p = Append(path, key) => At(r, key) = At(g, key)
  BY <1>3, FieldSpares
<1>5. Spares(f7, p)
  <2> DEFINE x == Execution(r)
             bad == {t \in Timeouts : x.timeout[t] <= 0}
             met == IF worst \in bad THEN worst ELSE CHOOSE t \in bad : TRUE
  <2>0. \A k : Append(path, k) = <<"execution", k>>
    BY PairIs
  <2>1. f7 = When(bad # {}, <<"execution", met>>, "must be greater than zero")
    BY DEF timeoutFault
  <2>2. ASSUME bad # {}, p = <<"execution", met>> PROVE FALSE
    <3>1. met \in bad
      <4> HIDE DEF bad
      <4> QED
        BY <2>2
    <3> HIDE DEF met
    <3>2. Append(path, met) = <<"execution", met>>
      BY <2>0
    <3> HIDE DEF path
    <3>3. At(r, met) = At(g, met)
      BY <1>4, <2>2, <3>2
    <3> HIDE DEF r
    <3>4. x.timeout[met] = Execution(g).timeout[met]
      BY <3>1, <3>3 DEF Execution, ValueOf
    <3>5. ProperExecution(Execution(g))
      BY ExecutionParsed
    <3>6. Execution(g).timeout[met] \in Int /\ Execution(g).timeout[met] > 0
      BY <3>1, <3>5 DEF ProperExecution, Duration
    <3> QED
      BY <3>1, <3>4, <3>6
  <2> HIDE DEF bad, met, f7
  <2>3. CASE bad = {}
    BY <2>1, <2>3 DEF Spares, When, NoFault
  <2>4. CASE bad # {}
    <3> DEFINE there == <<"execution", met>>
    <3>1. f7 = When(bad # {}, there, "must be greater than zero") /\ p # there
      BY <2>1, <2>2, <2>4
    <3> HIDE DEF there
    <3> QED
      BY <2>4, <3>1 DEF Spares, When
  <2> QED
    BY <2>3, <2>4
<1> HIDE DEF r, path
<1>6. Spares(f2, p) /\ Spares(f3, p) /\ Spares(f4, p) /\ Spares(f5, p) /\ Spares(f6, p)
  BY <1>3, <1>4, OptionalSpares
<1> HIDE DEF f1, f2, f3, f4, f5, f6, f7
<1>7. Spares(executionFault(r, worst), p)
  BY <1>1, <1>4, <1>5, <1>6, OrSpares, NothingSpares
<1> QED
  BY <1>7 DEF r

-----------------------------------------------------------------------------
(* The starter file, and all the checks of a document *)

\* the starter file that a test file is repaired from
Template == starterYAML("name", "environment", "auto", DefaultBaud)

Sections == {"version", "name", "project", "device", "execution", "steps", "assertions"}

LEMMA TemplateAccepted ==
  /\ \A worst \in Timeouts : Fault(Template, worst) = NoFault
  /\ Decoded(Template) /\ Template.kind = "mapping"
<1>1. /\ DefaultBaud \in Int /\ DefaultBaud \in DOMAIN FormatInt
      /\ OrElse("auto", "auto") = "auto"
  BY DefaultsAssumption DEF DefaultBaud, OrElse
<1>2. \A s \in {"name", "environment", "auto"} : ReadBack(s) = s /\ TrimSpace(s) # ""
  BY StarterAssumption
<1>3. /\ Solid(ReadBack("name")) /\ Solid(ReadBack("environment"))
      /\ Solid(ReadBack(OrElse("auto", "auto")))
  BY <1>1, <1>2 DEF Solid
<1>4. \A worst \in Timeouts : Fault(Template, worst) = NoFault
  BY <1>1, <1>3, StarterAccepted DEF Template
<1>5. Decoded(Template)
  BY StarterIsDocument DEF Template
<1>6. Template.kind = "mapping"
  BY DEF Template, starterYAML, MappingOf
<1> QED
  BY <1>4, <1>5, <1>6

(* Its steps are of the kind that the whole configuration is checked for. *)
LEMMA TemplateSteps ==
  /\ DOMAIN At(Template, "steps").content = 1..3
  /\ Step(At(Template, "steps").content[3]).type = "monitor"
  /\ At(Template, "execution") # Absent
<1> DEFINE project == MappingOf(<<<<"directory", Scalar(".")>>,
                                  <<"environment", yamlString("environment")>>>>)
           device == MappingOf(<<
             <<"platform", Scalar("esp32")>>,
             <<"port", yamlString(OrElse("auto", "auto"))>>,
             <<"baud", Scalar(FormatInt[IF DefaultBaud <= 0 THEN DefaultBaud ELSE DefaultBaud])>>>>)
           execution == MappingOf(<<
             <<"build_timeout", Scalar("120s")>>, <<"upload_timeout", Scalar("60s")>>,
             <<"boot_timeout", Scalar("15s")>>, <<"test_timeout", Scalar("30s")>>>>)
           third == Body("monitor", <<<<"duration", Scalar("10s")>>>>)
           list == <<Scalar("build"), Scalar("upload"), third>>
           steps == SequenceOf(list)
           assertions == SequenceOf(<<
             Body("serial_contains", <<<<"value", Scalar("System ready")>>,
                                       <<"within", Scalar("10s")>>>>),
             Body("serial_not_contains", <<<<"value", Scalar("panic")>>,
                                           <<"case_sensitive", Scalar("false")>>>>)>>)
           doc == Template
<1>1. doc = Document(Scalar("1"), yamlString("name"), project, device, execution, steps,
                     assertions)
  BY DEF Template, starterYAML, Document
<1>2. execution # Absent
  <2>1. execution.kind = "mapping" /\ Absent.kind = "absent"
    BY DEF MappingOf, Absent
  <2> HIDE DEF execution
  <2> QED
    BY <2>1
<1>3. At(doc, "steps") = steps /\ At(doc, "execution") = execution
  <2> HIDE DEF doc, project, device, execution, steps, assertions
  <2> QED
    BY <1>1, SectionsFound
<1>4. third.kind = "mapping"
  BY DEF Body, MappingOf
<1> HIDE DEF third
<1>5. DOMAIN list = 1..3 /\ list[3] = third
  OBVIOUS
<1> HIDE DEF list, doc, execution
<1>6. steps.content = list
  BY SequenceIs
<1> HIDE DEF steps
<1>7. Step(third).type = "monitor"
  BY <1>4 DEF Step
<1> QED
  BY <1>2, <1>3, <1>5, <1>6, <1>7 DEF doc

LEMMA MonitorIsEnough ==
  ASSUME NEW cfg, 3 \in DOMAIN cfg.steps, cfg.steps[3].type = "monitor"
  PROVE  configFault(cfg) = NoFault
<1> DEFINE unjudged == /\ cfg.assertions # <<>>
                       /\ \A i \in DOMAIN cfg.steps : cfg.steps[i].type # "monitor"
           f1 == When(cfg.steps = <<>>, <<"steps">>, "must include a step")
           f2 == When(unjudged, <<"steps">>, "must include monitor")
<1>1. cfg.steps # <<>> /\ ~unjudged
  OBVIOUS
<1>2. f1 = NoFault /\ f2 = NoFault
  <2> HIDE DEF unjudged
  <2> QED
    BY <1>1 DEF When
<1>3. configFault(cfg) = (f1 ?? f2)
  BY DEF configFault
<1> HIDE DEF f1, f2
<1> QED
  BY <1>2, <1>3, OrFault

LEMMA ConfigFaultIs ==
  ASSUME NEW cfg
  PROVE  configFault(cfg).path \in {<<>>, <<"steps">>}
<1> DEFINE f1 == When(cfg.steps = <<>>, <<"steps">>, "must include a step")
           f2 == When(/\ cfg.assertions # <<>>
                      /\ \A i \in DOMAIN cfg.steps : cfg.steps[i].type # "monitor",
                      <<"steps">>, "must include monitor")
<1>1. f1.path \in {<<>>, <<"steps">>} /\ f2.path \in {<<>>, <<"steps">>}
  BY DEF When, NoFault
<1>2. configFault(cfg) = (f1 ?? f2)
  BY DEF configFault
<1> HIDE DEF f1, f2
<1> QED
  BY <1>1, <1>2 DEF ??

-----------------------------------------------------------------------------
\* the checks of Parse on two scalars of a document
versionFault(n) ==
  When(n = Absent, <<"version">>, "is required")
  ?? scalarIn(n, Atoi, <<"version">>)
  ?? When(Atoi[n.value] # 1, <<"version">>, "unsupported schema version")

nameFault(n) ==
  When(n = Absent, <<"name">>, "is required")
  ?? stringScalar(n, <<"name">>)
  ?? When(TrimSpace(n.value) = "", <<"name">>, "must not be empty")

LEMMA ScalarChecks ==
  ASSUME NEW n
  PROVE  /\ versionFault(n).path \in {<<>>, <<"version">>}
         /\ nameFault(n).path \in {<<>>, <<"name">>}
         /\ Under(versionFault(n), "version") /\ Under(nameFault(n), "name")
<1> DEFINE v1 == When(n = Absent, <<"version">>, "is required")
           v2 == scalarIn(n, Atoi, <<"version">>)
           v3 == When(Atoi[n.value] # 1, <<"version">>, "unsupported schema version")
           n1 == When(n = Absent, <<"name">>, "is required")
           n2 == stringScalar(n, <<"name">>)
           n3 == When(TrimSpace(n.value) = "", <<"name">>, "must not be empty")
<1>1. versionFault(n) = (v1 ?? v2 ?? v3) /\ nameFault(n) = (n1 ?? n2 ?? n3)
  BY DEF versionFault, nameFault
<1>2. /\ v1.path \in {<<>>, <<"version">>} /\ v2.path \in {<<>>, <<"version">>}
      /\ v3.path \in {<<>>, <<"version">>}
  BY DEF When, scalarIn, NoFault
<1>3. /\ n1.path \in {<<>>, <<"name">>} /\ n2.path \in {<<>>, <<"name">>}
      /\ n3.path \in {<<>>, <<"name">>}
  BY DEF When, stringScalar, NoFault
<1> HIDE DEF v1, v2, v3, n1, n2, n3
<1>4. versionFault(n).path \in {<<>>, <<"version">>}
  BY <1>1, <1>2 DEF ??
<1>5. nameFault(n).path \in {<<>>, <<"name">>}
  BY <1>1, <1>3 DEF ??
<1> QED
  BY <1>4, <1>5, StartsAlone DEF Under

(* The checks of a document, as a chain. *)
LEMMA FaultIs ==
  ASSUME NEW doc, NEW worst
  PROVE  LET fields == mapping(doc, <<>>, Sections)
         IN  /\ Fault(doc, worst).path # <<>> => doc.kind = "mapping"
             /\ Fault(doc, worst) = NoFault =>
                  /\ versionFault(At(doc, "version")) = NoFault
                  /\ nameFault(At(doc, "name")) = NoFault
             /\ \A p : /\ p # <<>>
                       /\ Spares(fields, p)
                       /\ Spares(versionFault(At(doc, "version")), p)
                       /\ Spares(nameFault(At(doc, "name")), p)
                       /\ Spares(projectFault(At(doc, "project")), p)
                       /\ Spares(deviceFault(At(doc, "device")), p)
                       /\ Spares(executionFault(At(doc, "execution"), worst), p)
                       /\ Spares(stepsFault(At(doc, "steps")), p)
                       /\ Spares(assertionsFault(At(doc, "assertions")), p)
                       /\ Spares(configFault(Config(doc)), p)
                       => Spares(Fault(doc, worst), p)
<1> DEFINE version == At(doc, "version")
           name == At(doc, "name")
           f1 == When(doc = Absent, <<>>, "file is empty")
           f2 == mapping(doc, <<>>, {"version", "name", "project", "device", "execution", "steps",
                                     "assertions"})
           f3 == When(version = Absent, <<"version">>, "is required")
           f4 == scalarIn(version, Atoi, <<"version">>)
           f5 == When(Atoi[version.value] # 1, <<"version">>, "unsupported schema version")
           f6 == When(name = Absent, <<"name">>, "is required")
           f7 == stringScalar(name, <<"name">>)
           f8 == When(TrimSpace(name.value) = "", <<"name">>, "must not be empty")
           f9 == projectFault(At(doc, "project"))
           f10 == deviceFault(At(doc, "device"))
           f11 == executionFault(At(doc, "execution"), worst)
           f12 == stepsFault(At(doc, "steps"))
           f13 == assertionsFault(At(doc, "assertions"))
           f14 == configFault(Config(doc))
           v == versionFault(version)
           m == nameFault(name)
           f == Fault(doc, worst)
<1>1. f = (f1 ?? f2 ?? f3 ?? f4 ?? f5 ?? f6 ?? f7 ?? f8 ?? f9 ?? f10 ?? f11 ?? f12 ?? f13 ?? f14)
  BY DEF Fault
<1>2. v = (f3 ?? f4 ?? f5) /\ m = (f6 ?? f7 ?? f8)
  BY DEF versionFault, nameFault
<1>3. f2 = mapping(doc, <<>>, Sections)
  BY DEF Sections
<1>4. ASSUME f.path # <<>> PROVE doc.kind = "mapping"
  <2>1. f1 = NoFault
    <3>1. f1.path = <<>>
      BY DEF When, NoFault
    <3>2. f1 # NoFault => f = f1
      <4> HIDE DEF f, f1, f2, f3, f4, f5, f6, f7, f8, f9, f10, f11, f12, f13, f14
      <4> QED
        BY <1>1 DEF ??
    <3> HIDE DEF f, f1
    <3> QED
      BY <1>4, <3>1, <3>2
  <2>2. f2 # NoFault => f = f2
    <3> HIDE DEF f, f1, f2, f3, f4, f5, f6, f7, f8, f9, f10, f11, f12, f13, f14
    <3> QED
      BY <1>1, <2>1 DEF ??
  <2>3. doc # Absent
    BY <2>1 DEF When, NoFault
  <2>4. SUFFICES ASSUME doc.kind # "mapping" PROVE FALSE
    OBVIOUS
  <2>5. f2.path = <<>> /\ f2 # NoFault
    <3> DEFINE allowed == {"version", "name", "project", "device", "execution", "steps",
                           "assertions"}
               g1 == When(doc = Absent, <<>>, "is required")
               g2 == When(doc.kind # "mapping", <<>>, "must be a mapping")
               bad == {i \in DOMAIN doc.content :
                         \/ Keys(doc)[i] \notin allowed
                         \/ \E j \in 1..(i - 1) : Keys(doc)[j] = Keys(doc)[i]}
               at == CHOOSE i \in bad : \A j \in bad : i <= j
               why == IF Keys(doc)[at] \notin allowed THEN "unsupported field" ELSE "duplicate field"
               g3 == IF bad = {} THEN NoFault ELSE When(TRUE, Append(<<>>, Keys(doc)[at]), why)
    <3>1. f2 = (g1 ?? g2 ?? g3)
      BY DEF mapping
    <3>2. g1 = NoFault /\ g2 = [path |-> <<>>, why |-> "must be a mapping"]
      BY <2>3, <2>4 DEF When
    <3>3. g2 # NoFault /\ g2.path = <<>>
      <4> HIDE DEF g1, g2, g3, f2, f
      <4>1. g2.why = "must be a mapping" /\ NoFault.why = "none"
        BY <3>2 DEF NoFault
      <4> QED
        BY <3>2, <4>1
    <3> HIDE DEF g1, g2, g3, f2
    <3> QED
      BY <3>1, <3>2, <3>3 DEF ??
  <2> HIDE DEF f, f2
  <2> QED
    BY <1>4, <2>2, <2>5
<1>5. ASSUME f = NoFault PROVE v = NoFault /\ m = NoFault
  <2>1. (f1 ?? f2 ?? f3 ?? f4 ?? f5 ?? f6 ?? f7 ?? f8 ?? f9 ?? f10 ?? f11 ?? f12 ?? f13 ?? f14)
          = NoFault
    BY <1>1, <1>5
  <2>2. f3 = NoFault /\ f4 = NoFault /\ f5 = NoFault /\ f6 = NoFault /\ f7 = NoFault /\ f8 = NoFault
    <3> HIDE DEF f, f1, f2, f3, f4, f5, f6, f7, f8, f9, f10, f11, f12, f13, f14, v, m
    <3> QED
      BY <2>1, OrFault
  <2> HIDE DEF f3, f4, f5, f6, f7, f8, v, m
  <2> QED
    BY <1>2, <2>2, OrFault
<1>6. ASSUME NEW p, p # <<>>, Spares(f2, p), Spares(v, p), Spares(m, p), Spares(f9, p), Spares(f10, p),
             Spares(f11, p), Spares(f12, p), Spares(f13, p), Spares(f14, p)
      PROVE  Spares(f, p)
  <2>1. Spares(f1, p)
    BY <1>6 DEF Spares, When, NoFault
  <2> DEFINE rest == f9 ?? f10 ?? f11 ?? f12 ?? f13 ?? f14
  <2>2. f = (f1 ?? f2 ?? v ?? m ?? f9 ?? f10 ?? f11 ?? f12 ?? f13 ?? f14)
    <3> HIDE DEF f, f1, f2, f3, f4, f5, f6, f7, f8, f9, f10, f11, f12, f13, f14, v, m
    <3>1. \A a, b, c : ((a ?? b) ?? c) = (a ?? (b ?? c))
      BY DEF ??
    <3> QED
      BY <1>1, <1>2, <3>1
  <2> HIDE DEF f, f1, f2, f3, f4, f5, f6, f7, f8, f9, f10, f11, f12, f13, f14, v, m
  <2> QED
    BY <1>6, <2>1, <2>2, OrSpares
<1> QED
  BY <1>3, <1>4, <1>5, <1>6

(* A section that was taken from the template is not complained about. *)
LEMMA SectionRepaired ==
  ASSUME NEW doc, IsList(doc.content), NEW worst \in Timeouts, NEW p, p # <<>>
  PROVE  Spares(Fault(Replace(doc, p[1], At(Template, p[1])), worst), p)
<1> DEFINE key == p[1]
           node == At(Template, key)
           r == Replace(doc, key, node)
<1>1. /\ Fault(Template, worst) = NoFault /\ IsList(Template.content)
      /\ mapping(Template, <<>>, Sections) = NoFault
  BY TemplateAccepted, ChecksAreMade DEF Decoded, Sections
<1>2. node = Absent \/ key \in Sections
  <2> HIDE DEF key
  <2>1. \A i \in DOMAIN Template.content : Template.content[i][1] \in Sections
    BY <1>1, MappingIs
  <2> QED
    BY <1>1, <2>1, AtIs
<1> HIDE DEF key, node
<1>3. At(r, key) = node
  BY ReplacedIs
<1>4. Spares(mapping(r, <<>>, Sections), p)
  <2> DEFINE f == mapping(r, <<>>, Sections)
  <2>1. SparesField(f, <<>>, key)
    BY <1>2, MappingSpares
  <2>2. \A k : Append(<<>>, k)[1] = k
    OBVIOUS
  <2> HIDE DEF f
  <2> SUFFICES ASSUME f.path = p PROVE FALSE
    BY DEF Spares, f
  <2>3. PICK k : k # key /\ p = Append(<<>>, k)
    BY <2>1 DEF SparesField
  <2> QED
    BY <2>2, <2>3 DEF key
<1> HIDE DEF r
<1>5. /\ versionFault(At(Template, "version")) = NoFault
      /\ nameFault(At(Template, "name")) = NoFault
  BY <1>1, FaultIs
<1>6. \A k : key = k => At(r, k) = At(Template, k)
  BY <1>3 DEF node
<1>7. Spares(versionFault(At(r, "version")), p) /\ Spares(nameFault(At(r, "name")), p)
  BY <1>5, <1>6, ScalarChecks, UnderSpares DEF key
<1>8. /\ key = "project" => projectFault(At(r, "project")) = NoFault
      /\ key = "device" => deviceFault(At(r, "device")) = NoFault
      /\ key = "execution" => executionFault(At(r, "execution"), worst) = NoFault
      /\ key = "steps" => stepsFault(At(r, "steps")) = NoFault
      /\ key = "assertions" => assertionsFault(At(r, "assertions")) = NoFault
  <2> DEFINE good == Template
  <2>1. /\ projectFault(At(good, "project")) = NoFault
        /\ deviceFault(At(good, "device")) = NoFault
        /\ executionFault(At(good, "execution"), worst) = NoFault
        /\ stepsFault(At(good, "steps")) = NoFault
        /\ assertionsFault(At(good, "assertions")) = NoFault
    BY <1>1, ChecksAreMade
  <2> QED
    BY <1>6, <2>1
<1>9. /\ Under(projectFault(At(r, "project")), "project")
      /\ Under(deviceFault(At(r, "device")), "device")
      /\ Under(executionFault(At(r, "execution"), worst), "execution")
      /\ Under(stepsFault(At(r, "steps")), "steps")
      /\ Under(assertionsFault(At(r, "assertions")), "assertions")
  BY ProjectUnder, DeviceUnder, ExecutionUnder, StepsUnder, AssertionsUnder
<1>10. /\ Spares(projectFault(At(r, "project")), p) /\ Spares(deviceFault(At(r, "device")), p)
       /\ Spares(executionFault(At(r, "execution"), worst), p)
       /\ Spares(stepsFault(At(r, "steps")), p)
       /\ Spares(assertionsFault(At(r, "assertions")), p)
  BY <1>8, <1>9, UnderSpares DEF key
<1>11. Spares(configFault(Config(r)), p)
  <2> DEFINE cfg == Config(r)
             list == At(r, "steps").content
  <2>1. cfg.steps = [i \in DOMAIN list |-> Step(list[i])]
    BY DEF Config
  <2>2. ASSUME key = "steps" PROVE configFault(cfg) = NoFault
    <3>1. DOMAIN list = 1..3 /\ Step(list[3]).type = "monitor"
      BY <1>6, <2>2, TemplateSteps
    <3> HIDE DEF list, cfg
    <3>2. 3 \in DOMAIN cfg.steps /\ cfg.steps[3].type = "monitor"
      BY <2>1, <3>1
    <3> QED
      BY <3>2, MonitorIsEnough
  <2>3. Under(configFault(cfg), "steps")
    BY ConfigFaultIs, StartsAlone DEF Under
  <2> HIDE DEF cfg
  <2> QED
    BY <2>2, <2>3, UnderSpares DEF key, cfg
<1>12. Spares(Fault(r, worst), p)
  BY <1>4, <1>7, <1>10, <1>11, FaultIs
<1> QED
  BY <1>12 DEF r, key, node

(* A list was given where a mapping is: that is found where the list is. *)
LEMMA NotAList ==
  ASSUME NEW n, n.kind = "mapping", n # Absent
  PROVE  stepsFault(n).path = <<"steps">> /\ assertionsFault(n).path = <<"assertions">>
<1> DEFINE s1 == When(n = Absent, <<"steps">>, "is required")
           s2 == When(n.kind # "sequence", <<"steps">>, "must be a sequence")
           s3 == FirstOf(n, <<"steps">>, stepFault)
           a1 == When(n = Absent, <<"assertions">>, "is required")
           a2 == When(n.kind # "sequence", <<"assertions">>, "must be a sequence")
           a3 == FirstOf(n, <<"assertions">>, assertionFault)
<1>1. stepsFault(n) = (s1 ?? s2 ?? s3) /\ assertionsFault(n) = (a1 ?? a2 ?? a3)
  BY DEF stepsFault, assertionsFault
<1>2. s1 = NoFault /\ a1 = NoFault
  BY DEF When
<1>3. /\ s2.path = <<"steps">> /\ s2.why = "must be a sequence"
      /\ a2.path = <<"assertions">> /\ a2.why = "must be a sequence"
  BY DEF When
<1>4. NoFault.why = "none"
  BY DEF NoFault
<1> HIDE DEF s1, s2, s3, a1, a2, a3
<1>5. s2 # NoFault /\ a2 # NoFault
  BY <1>3, <1>4
<1> QED
  BY <1>1, <1>2, <1>3, <1>5 DEF ??

(* A field that was taken from the template is not complained about. *)
LEMMA FieldRepaired ==
  ASSUME NEW doc, IsList(doc.content), NEW worst \in Timeouts, NEW p, Len(p) > 1,
         IsList(At(doc, p[1]).content)
  PROVE  LET field == Replace(At(doc, p[1]), p[2], At(At(Template, p[1]), p[2]))
         IN  Spares(Fault(Replace(doc, p[1], field), worst), p)
<1> DEFINE key == p[1]
           n == At(doc, key)
           g == At(Template, key)
           field == Replace(n, p[2], At(g, p[2]))
           r == Replace(doc, key, field)
<1>1. /\ Fault(Template, worst) = NoFault /\ IsList(g.content)
  BY TemplateAccepted, SectionIsList
<1>2. p # <<>> /\ \A k : p # <<k>>
  <2>1. p # <<>>
    <3>1. Len(<<>>) = 0
      OBVIOUS
    <3> QED
      BY <3>1
  <2>2. ASSUME NEW k, p = <<k>> PROVE FALSE
    <3>1. Len(<<k>>) = 1
      OBVIOUS
    <3> QED
      BY <2>2, <3>1
  <2> QED
    BY <2>1, <2>2
<1> HIDE DEF key, n, g
<1>3. IsList(n.content) /\ field.kind = "mapping" /\ field # Absent
  BY ReplacedIs DEF n, key
<1>4. \A k : key = k => At(r, k) = field
  BY ReplacedIs
<1>5. Spares(mapping(r, <<>>, Sections), p)
  <2> DEFINE f == mapping(r, <<>>, Sections)
  <2>1. f.path = <<>> \/ \E k : f.path = Append(<<>>, k)
    BY MappingFaultIs
  <2> HIDE DEF f
  <2> SUFFICES ASSUME f.path = p PROVE FALSE
    BY DEF Spares, f
  <2>2. PICK k : p = Append(<<>>, k)
    BY <1>2, <2>1
  <2>3. Append(<<>>, k) = <<k>>
    OBVIOUS
  <2> QED
    BY <1>2, <2>2, <2>3
<1> HIDE DEF r
<1>6. /\ Spares(versionFault(At(r, "version")), p) /\ Spares(nameFault(At(r, "name")), p)
      /\ Spares(configFault(Config(r)), p)
  BY <1>2, ScalarChecks, ConfigFaultIs DEF Spares
<1>7. Spares(projectFault(At(r, "project")), p)
  <2>1. CASE key = "project"
    <3>1. projectFault(g) = NoFault
      BY <1>1, <2>1, ChecksAreMade DEF g
    <3>2. Spares(projectFault(field), p)
      BY <1>1, <1>2, <1>3, <3>1, ProjectRepaired
    <3> HIDE DEF field
    <3> QED
      BY <1>4, <2>1, <3>2
  <2>2. CASE key # "project"
    BY <1>2, <2>2, ProjectUnder, UnderSpares DEF key
  <2> QED
    BY <2>1, <2>2
<1>8. Spares(deviceFault(At(r, "device")), p)
  <2>1. CASE key = "device"
    <3>1. deviceFault(g) = NoFault
      BY <1>1, <2>1, ChecksAreMade DEF g
    <3>2. Spares(deviceFault(field), p)
      BY <1>1, <1>2, <1>3, <3>1, DeviceRepaired
    <3> HIDE DEF field
    <3> QED
      BY <1>4, <2>1, <3>2
  <2>2. CASE key # "device"
    BY <1>2, <2>2, DeviceUnder, UnderSpares DEF key
  <2> QED
    BY <2>1, <2>2
<1>9. Spares(executionFault(At(r, "execution"), worst), p)
  <2>1. CASE key = "execution"
    <3>1. executionFault(g, worst) = NoFault /\ g # Absent
      BY <1>1, <2>1, ChecksAreMade, TemplateSteps DEF g
    <3>2. Spares(executionFault(field, worst), p)
      BY <1>1, <1>2, <1>3, <3>1, ExecutionRepaired
    <3> HIDE DEF field
    <3> QED
      BY <1>4, <2>1, <3>2
  <2>2. CASE key # "execution"
    BY <1>2, <2>2, ExecutionUnder, UnderSpares DEF key
  <2> QED
    BY <2>1, <2>2
<1> HIDE DEF field
<1>10. Spares(stepsFault(At(r, "steps")), p)
  <2>1. CASE key = "steps"
    BY <1>2, <1>3, <1>4, <2>1, NotAList DEF Spares
  <2>2. CASE key # "steps"
    BY <1>2, <2>2, StepsUnder, UnderSpares DEF key
  <2> QED
    BY <2>1, <2>2
<1>11. Spares(assertionsFault(At(r, "assertions")), p)
  <2>1. CASE key = "assertions"
    BY <1>2, <1>3, <1>4, <2>1, NotAList DEF Spares
  <2>2. CASE key # "assertions"
    BY <1>2, <2>2, AssertionsUnder, UnderSpares DEF key
  <2> QED
    BY <2>1, <2>2
<1>12. Spares(Fault(r, worst), p)
  BY <1>2, <1>5, <1>6, <1>7, <1>8, <1>9, <1>10, <1>11, FaultIs
<1> QED
  BY <1>12 DEF r, field, n, g, key

-----------------------------------------------------------------------------
(* The invariant *)

\* what the YAML decoder may make of a file, and a directory that can be joined
IsFile(doc) == Decoded(doc) /\ Joinable(Directory(doc))

FilesAreDocuments == DOMAIN file = Place /\ \A p \in Place : IsFile(file[p])

ArgsAreKnown == args.place \in Place /\ args.port \in PortArgs \cup {""}

LoadedIsProper ==
  /\ pc \in {"stat", "run"} => Proper(config) /\ Absolute(config.project.directory)
  /\ pc = "run" => config.project.directory \in Directories

\* the file of the run directory is the one the last run has written, all of it
RanIsWritten ==
  ran # <<>> =>
    /\ Proper(ran[1]) /\ Absolute(ran[1].project.directory)
    /\ file[RunDir] = ResolvedYAML(ran[1])

CliInv == FilesAreDocuments /\ ArgsAreKnown /\ LoadedIsProper /\ RanIsWritten

LEMMA CliInitial == Init => CliInv
<1> SUFFICES ASSUME Init PROVE CliInv
  OBVIOUS
<1>1. PICK f \in Files \cup {Missing} : file = [p \in Place |-> IF p = ProjectDir THEN f ELSE Missing]
  BY DEF Init
<1>2. IsFile(Missing)
  <2>1. Missing.content = <<>> /\ Decoded(Missing)
    BY EmptyIsList DEF Decoded, Missing
  <2> QED
    BY <2>1, NothingNamed, NoDirectory DEF IsFile
<1>3. \A g \in Files \cup Edits : IsFile(g)
  <2>1. \A g \in Files \cup Edits : Directory(g) \in Given
    BY DEF Given
  <2> QED
    BY <2>1, GivenIsJoinable, CliAssumption DEF IsFile
<1>4. DOMAIN file = Place /\ \A p \in Place : file[p] \in {f, Missing}
  BY <1>1
<1>5. FilesAreDocuments
  BY <1>2, <1>3, <1>4 DEF FilesAreDocuments
<1>6. ArgsAreKnown
  BY DEF Init, ArgsAreKnown, NoArgs, Place
<1>7. LoadedIsProper /\ RanIsWritten
  BY DEF Init, LoadedIsProper, RanIsWritten
<1> QED
  BY <1>5, <1>6, <1>7 DEF CliInv

(* Configurations with another directory, and another port. *)
LEMMA DirectoryReplaced ==
  ASSUME NEW cfg, NEW given,
         cfg = [name |-> cfg.name, project |-> cfg.project, device |-> cfg.device,
                execution |-> cfg.execution, steps |-> cfg.steps, assertions |-> cfg.assertions],
         cfg.project = [directory |-> cfg.project.directory,
                        environment |-> cfg.project.environment]
  PROVE  [cfg EXCEPT !.project.directory = given]
           = [name |-> cfg.name,
              project |-> [directory |-> given, environment |-> cfg.project.environment],
              device |-> cfg.device, execution |-> cfg.execution, steps |-> cfg.steps,
              assertions |-> cfg.assertions]
<1>1. \A q : q = [directory |-> given, environment |-> cfg.project.environment] =>
               [cfg.project EXCEPT !.directory = given] = q
  OBVIOUS
<1>2. [cfg.project EXCEPT !.directory = given]
        = [directory |-> given, environment |-> cfg.project.environment]
  BY <1>1
<1> QED
  BY <1>2

LEMMA PortReplaced ==
  ASSUME NEW cfg, NEW given,
         cfg = [name |-> cfg.name, project |-> cfg.project, device |-> cfg.device,
                execution |-> cfg.execution, steps |-> cfg.steps, assertions |-> cfg.assertions],
         cfg.device = [platform |-> cfg.device.platform, port |-> cfg.device.port,
                       baud |-> cfg.device.baud]
  PROVE  [cfg EXCEPT !.device.port = given]
           = [name |-> cfg.name, project |-> cfg.project,
              device |-> [platform |-> cfg.device.platform, port |-> given,
                          baud |-> cfg.device.baud],
              execution |-> cfg.execution, steps |-> cfg.steps, assertions |-> cfg.assertions]
<1>1. [cfg.device EXCEPT !.port = given]
        = [platform |-> cfg.device.platform, port |-> given, baud |-> cfg.device.baud]
  OBVIOUS
<1> QED
  BY <1>1

LEMMA DeviceIs ==
  ASSUME NEW d, ProperDevice(d)
  PROVE  d.platform = "esp32" /\ d = [platform |-> d.platform, port |-> d.port, baud |-> d.baud]
<1>1. d = [platform |-> "esp32", port |-> d.port, baud |-> d.baud]
  BY DEF ProperDevice
<1>2. d.platform = "esp32"
  BY <1>1
<1> DEFINE platform == d.platform
<1>3. platform = "esp32"
  BY <1>2
<1> HIDE DEF platform
<1>4. d = [platform |-> platform, port |-> d.port, baud |-> d.baud]
  BY <1>1, <1>3
<1> QED
  BY <1>2, <1>4 DEF platform

(* The port override changes the port alone, the place of the project its  *)
(* directory alone: the configuration stays proper.                        *)
LEMMA OverrideIsProper ==
  ASSUME NEW cfg, Proper(cfg), Joinable(cfg.project.directory), NEW location \in Place,
         NEW port \in PortArgs \cup {""}
  PROVE  LET over == ApplyPortOverride(Resolved(cfg, location), port)
         IN  Proper(over) /\ Absolute(over.project.directory)
<1> DEFINE over == ApplyPortOverride(Resolved(cfg, location), port)
           joined == Join(location, cfg.project.directory)
           chosen == IF TrimSpace(port) = "" THEN cfg.device.port ELSE TrimSpace(port)
<1>1. /\ cfg = [name |-> cfg.name, project |-> cfg.project, device |-> cfg.device,
                execution |-> cfg.execution, steps |-> cfg.steps, assertions |-> cfg.assertions]
      /\ ProperProject(cfg.project) /\ ProperDevice(cfg.device)
  BY DEF Proper
<1>2. cfg.project = [directory |-> cfg.project.directory, environment |-> cfg.project.environment]
  BY <1>1 DEF ProperProject
<1>3. cfg.device = [platform |-> "esp32", port |-> cfg.device.port, baud |-> cfg.device.baud]
  BY <1>1 DEF ProperDevice
<1> DEFINE project == [directory |-> joined, environment |-> cfg.project.environment]
           device == [platform |-> "esp32", port |-> chosen, baud |-> cfg.device.baud]
<1>4. over = [name |-> cfg.name, project |-> project, device |-> device,
              execution |-> cfg.execution, steps |-> cfg.steps, assertions |-> cfg.assertions]
  <2> DEFINE moved == [name |-> cfg.name, project |-> project, device |-> cfg.device,
                      execution |-> cfg.execution, steps |-> cfg.steps,
                      assertions |-> cfg.assertions]
  <2>1. [cfg EXCEPT !.project.directory = joined] = moved
    <3> HIDE DEF joined
    <3> QED
      BY <1>1, <1>2, DirectoryReplaced
  <2>2. Resolved(cfg, location) = moved
    BY <2>1 DEF Resolved
  <2>3. [moved EXCEPT !.device.port = TrimSpace(port)]
          = [name |-> cfg.name, project |-> project,
             device |-> [platform |-> "esp32", port |-> TrimSpace(port), baud |-> cfg.device.baud],
             execution |-> cfg.execution, steps |-> cfg.steps, assertions |-> cfg.assertions]
    <3> HIDE DEF project
    <3>1. /\ moved.name = cfg.name /\ moved.project = project /\ moved.device = cfg.device
          /\ moved.execution = cfg.execution /\ moved.steps = cfg.steps
          /\ moved.assertions = cfg.assertions
      OBVIOUS
    <3>2. cfg.device.platform = "esp32"
      BY <1>1, DeviceIs
    <3>3. cfg.device = [platform |-> cfg.device.platform, port |-> cfg.device.port,
                        baud |-> cfg.device.baud]
      BY <1>1, DeviceIs
    <3> DEFINE given == TrimSpace(port)
    <3> HIDE DEF moved, given
    <3>4. moved = [name |-> moved.name, project |-> moved.project, device |-> moved.device,
                   execution |-> moved.execution, steps |-> moved.steps,
                   assertions |-> moved.assertions]
      BY <3>1 DEF moved
    <3>5. moved.device = [platform |-> moved.device.platform, port |-> moved.device.port,
                          baud |-> moved.device.baud]
      BY <3>1, <3>3
    <3>6. [moved EXCEPT !.device.port = given]
            = [name |-> moved.name, project |-> moved.project,
               device |-> [platform |-> moved.device.platform, port |-> given,
                           baud |-> moved.device.baud],
               execution |-> moved.execution, steps |-> moved.steps,
               assertions |-> moved.assertions]
      BY <3>4, <3>5, PortReplaced
    <3> QED
      BY <3>1, <3>2, <3>6 DEF given
  <2> HIDE DEF project, moved
  <2>4. CASE TrimSpace(port) = ""
    BY <1>3, <2>2, <2>4 DEF ApplyPortOverride, moved
  <2>5. CASE TrimSpace(port) # ""
    BY <2>2, <2>3, <2>5 DEF ApplyPortOverride
  <2> QED
    BY <2>4, <2>5
<1>5. Absolute(joined)
  BY <1>1 DEF Joinable, ProperProject
<1>6. ProperProject(project)
  BY <1>1, <1>5 DEF ProperProject, Absolute
<1>7. ProperDevice(device)
  BY <1>1, CliAssumption DEF ProperDevice, Solid
<1> HIDE DEF over, project, device
<1>8. Proper(over)
  BY <1>4, <1>6, <1>7 DEF Proper
<1>9. over.project.directory = joined
  BY <1>4 DEF project
<1> QED
  BY <1>5, <1>8, <1>9 DEF over

(* The actions that leave the files alone, write one of them, or end.      *)
LEMMA FilesStay ==
  ASSUME FilesAreDocuments, RanIsWritten, UNCHANGED <<file, ran>>
  PROVE  FilesAreDocuments' /\ RanIsWritten'
BY DEF FilesAreDocuments, RanIsWritten

LEMMA FileWritten ==
  ASSUME FilesAreDocuments, NEW p \in Place, NEW f, IsFile(f), file' = [file EXCEPT ![p] = f]
  PROVE  FilesAreDocuments' /\ file'[p] = f /\ \A q \in Place : q # p => file'[q] = file[q]
<1>1. DOMAIN file' = Place /\ \A q \in Place : file'[q] = IF q = p THEN f ELSE file[q]
  BY DEF FilesAreDocuments
<1>2. \A q \in Place : IsFile(file[q])
  BY DEF FilesAreDocuments
<1> QED
  BY <1>1, <1>2 DEF FilesAreDocuments

\* a file saved in the project leaves that of the run directory
LEMMA SavedInProject ==
  ASSUME FilesAreDocuments, RanIsWritten, NEW f, IsFile(f),
         file' = [file EXCEPT ![ProjectDir] = f], UNCHANGED ran
  PROVE  FilesAreDocuments' /\ RanIsWritten'
<1>1. ProjectDir \in Place /\ RunDir \in Place /\ ProjectDir # RunDir
  BY CliAssumption DEF Place
<1>2. FilesAreDocuments' /\ file'[RunDir] = file[RunDir]
  BY <1>1, FileWritten
<1> QED
  BY <1>2 DEF RanIsWritten

(* A command that ends has no arguments and no configuration.              *)
LEMMA ExitKeeps ==
  ASSUME NEW code, Exit(code)
  PROVE  ArgsAreKnown' /\ LoadedIsProper'
BY DEF Exit, ArgsAreKnown, LoadedIsProper, NoArgs, Place

(* The files that the program writes are files that it can read.           *)
LEMMA StarterIsFile ==
  ASSUME NEW f \in {Starter} \cup PartOf(Starter)
  PROVE  IsFile(f)
<1>1. Decoded(f)
  BY StarterIsDocument DEF Starter
<1>2. Directory(f) \in {".", ""}
  BY StarterNames DEF Starter
<1>3. "." \in Given
  BY DEF Given
<1> QED
  BY <1>1, <1>2, <1>3, GivenIsJoinable, NoDirectory DEF IsFile

LEMMA ResolvedIsFile ==
  ASSUME NEW cfg, Proper(cfg), Absolute(cfg.project.directory),
         NEW f \in {ResolvedYAML(cfg)} \cup PartOf(ResolvedYAML(cfg))
  PROVE  IsFile(f)
<1>1. IsList(cfg.steps) /\ IsList(cfg.assertions)
  BY DEF Proper
<1>2. Decoded(f)
  BY <1>1, ResolvedIsDocument
<1>3. Directory(f) \in {cfg.project.directory, ""}
  BY <1>1, ResolvedNames
<1> QED
  BY <1>2, <1>3, AbsoluteIsJoinable, NoDirectory DEF IsFile

LEMMA CliStep == CliInv /\ [Next]_vars => CliInv'
<1> SUFFICES ASSUME CliInv, [Next]_vars PROVE CliInv'
  OBVIOUS
<1> USE DEF CliInv
<1>0. ProjectDir \in Place /\ RunDir \in Place
  BY DEF Place
<1>1. CASE UNCHANGED vars
  <2>1. UNCHANGED <<file, ran, pc, config, args>>
    BY <1>1 DEF vars
  <2>2. ArgsAreKnown' /\ LoadedIsProper'
    BY <2>1 DEF ArgsAreKnown, LoadedIsProper
  <2> QED
    BY <2>1, <2>2, FilesStay
<1>2. CASE Editor
  <2>1. PICK f \in Edits : file' = [file EXCEPT ![ProjectDir] = f]
    BY <1>2 DEF Editor
  <2>2. IsFile(f)
    <3>1. Directory(f) \in Given
      BY DEF Given
    <3> QED
      BY <3>1, GivenIsJoinable, CliAssumption DEF IsFile
  <2>3. FilesAreDocuments' /\ RanIsWritten'
    BY <1>2, <2>1, <2>2, SavedInProject DEF Editor
  <2>4. ArgsAreKnown' /\ LoadedIsProper'
    BY <1>2 DEF Editor, ArgsAreKnown, LoadedIsProper
  <2> QED
    BY <2>3, <2>4
<1>3. CASE StartInit
  <2>1. PICK a \in Arguments :
          args' = a /\ Run("init", IF a.force THEN "write" ELSE "inspect")
    BY <1>3 DEF StartInit
  <2>2. args'.place \in Place /\ args'.port \in PortArgs
    BY <1>0, <2>1 DEF Arguments
  <2>3. UNCHANGED <<file, ran>> /\ pc' \notin {"stat", "run"}
    BY <2>1 DEF Run
  <2> QED
    BY <2>2, <2>3, FilesStay DEF ArgsAreKnown, LoadedIsProper
<1>4. CASE Inspect
  <2>1. UNCHANGED <<file, ran>>
    BY <1>4 DEF Inspect
  <2>2. CASE \E code : Exit(code)
    BY <2>1, <2>2, FilesStay, ExitKeeps
  <2>3. CASE pc' = "write" /\ UNCHANGED <<command, args, config, exit>>
    BY <2>1, <2>3, FilesStay DEF ArgsAreKnown, LoadedIsProper
  <2> QED
    BY <1>4, <2>2, <2>3 DEF Inspect
<1>5. CASE WriteStarter
  <2>1. ArgsAreKnown' /\ LoadedIsProper'
    BY <1>5, ExitKeeps DEF WriteStarter
  <2>2. IsFile(file[ProjectDir])
    BY <1>0 DEF FilesAreDocuments
  <2>3. PICK f \in {Starter, file[ProjectDir]} \cup PartOf(Starter) :
          file' = [file EXCEPT ![ProjectDir] = f]
    BY <1>5 DEF WriteStarter
  <2>4. IsFile(f)
    BY <2>2, StarterIsFile
  <2>5. UNCHANGED ran
    BY <1>5 DEF WriteStarter
  <2> QED
    BY <2>1, <2>3, <2>4, <2>5, SavedInProject
<1>6. CASE StartValidate
  <2>1. PICK p \in Place : args' = [NoArgs EXCEPT !.place = p] /\ Run("validate", "load")
    BY <1>6 DEF StartValidate
  <2>2. args'.place = p /\ args'.port = ""
    BY <2>1 DEF NoArgs
  <2>3. UNCHANGED <<file, ran>> /\ pc' = "load"
    BY <2>1 DEF Run
  <2> QED
    BY <2>2, <2>3, FilesStay DEF ArgsAreKnown, LoadedIsProper
<1>7. CASE StartTest
  <2>1. PICK p \in Place, port \in PortArgs :
          args' = [NoArgs EXCEPT !.place = p, !.port = port] /\ Run("test", "load")
    BY <1>7 DEF StartTest
  <2>2. args'.place = p /\ args'.port = port
    BY <2>1 DEF NoArgs
  <2>3. UNCHANGED <<file, ran>> /\ pc' = "load"
    BY <2>1 DEF Run
  <2> QED
    BY <2>2, <2>3, FilesStay DEF ArgsAreKnown, LoadedIsProper
<1>8. CASE LoadFile
  <2> DEFINE doc == file[args.place]
             valid(worst) == Readable(doc) /\ Fault(doc, worst) = NoFault
  <2>1. UNCHANGED <<file, ran>>
    BY <1>8 DEF LoadFile
  <2>2. CASE Exit(InvalidConfig)
    BY <2>1, <2>2, FilesStay, ExitKeeps
  <2>3. ASSUME NEW worst \in Timeouts, valid(worst),
               config' = ApplyPortOverride(Resolved(Config(doc), args.place), args.port),
               pc' = "stat", UNCHANGED args
        PROVE  CliInv'
    <3>1. IsFile(doc) /\ args.place \in Place /\ args.port \in PortArgs \cup {""}
      BY DEF FilesAreDocuments, ArgsAreKnown
    <3>2. Proper(config') /\ Absolute(config'.project.directory)
      <4> HIDE DEF doc
      <4>1. Proper(Config(doc))
        BY <2>3, <3>1, ConfigParsed DEF IsFile
      <4>2. Config(doc).project.directory = Directory(doc)
        BY DEF Config, Project, Directory
      <4>3. Joinable(Config(doc).project.directory)
        BY <3>1, <4>2 DEF IsFile
      <4> QED
        BY <2>3, <3>1, <4>1, <4>3, OverrideIsProper
    <3>3. LoadedIsProper'
      BY <2>3, <3>2 DEF LoadedIsProper, Proper, ProperProject, ProperDevice, ProperExecution,
        ProperStep, ProperAssertion, Absolute, Solid, Duration
    <3> QED
      BY <2>1, <2>3, <3>3, FilesStay DEF ArgsAreKnown
  <2> QED
    BY <1>8, <2>2, <2>3 DEF LoadFile
<1>9. CASE ValidateProjectDirectory
  <2>1. UNCHANGED <<file, ran>>
    BY <1>9 DEF ValidateProjectDirectory
  <2>2. CASE \E code : Exit(code)
    BY <2>1, <2>2, FilesStay, ExitKeeps
  <2>3. CASE /\ pc = "stat" /\ config.project.directory \in Directories
             /\ pc' = "run" /\ UNCHANGED <<args, config>>
    BY <2>1, <2>3, FilesStay DEF ArgsAreKnown, LoadedIsProper
  <2> QED
    BY <1>9, <2>2, <2>3 DEF ValidateProjectDirectory
<1>10. CASE RunTest
  <2>1. ArgsAreKnown' /\ LoadedIsProper'
    BY <1>10, ExitKeeps DEF RunTest
  <2>2. Proper(config) /\ Absolute(config.project.directory)
    BY <1>10 DEF RunTest, LoadedIsProper
  <2>3. \A f \in {ResolvedYAML(config)} \cup PartOf(ResolvedYAML(config)) : IsFile(f)
    BY <2>2, ResolvedIsFile
  <2>4. CASE file' = [file EXCEPT ![RunDir] = ResolvedYAML(config)] /\ ran' = <<config>>
    <3>1. FilesAreDocuments' /\ file'[RunDir] = ResolvedYAML(config)
      BY <1>0, <2>3, <2>4, FileWritten
    <3>2. ran'[1] = config
      BY <2>4
    <3>3. RanIsWritten'
      BY <2>2, <3>1, <3>2 DEF RanIsWritten
    <3> QED
      BY <2>1, <3>1, <3>3
  <2>5. CASE UNCHANGED <<file, ran>>
    BY <2>1, <2>5, FilesStay
  <2>6. ASSUME NEW f \in PartOf(ResolvedYAML(config)), file' = [file EXCEPT ![RunDir] = f],
               ran' = <<>>
        PROVE  CliInv'
    <3>1. FilesAreDocuments'
      BY <1>0, <2>3, <2>6, FileWritten
    <3>2. RanIsWritten'
      BY <2>6 DEF RanIsWritten
    <3> QED
      BY <2>1, <3>1, <3>2
  <2> QED
    BY <1>10, <2>4, <2>5, <2>6 DEF RunTest
<1> QED
  BY <1>1, <1>2, <1>3, <1>4, <1>5, <1>6, <1>7, <1>8, <1>9, <1>10 DEF Next, Command

LEMMA CliInvariant == Spec => []CliInv
<1> QED
  BY CliInitial, CliStep, PTL DEF Spec

-----------------------------------------------------------------------------
(* The file of init *)

\* what init may write between quotes, and that YAML reads it as text that is not blank
Texts ==
  {TrimSpace(t) : t \in Names \cup Environments \cup PortArgs
                        \cup {Head(sections) : sections \in Inis \ {<<>>}}}
  \cup {DirName, "esp32-s3-devkitc-1", "auto"}

TextSurvives == \A t \in Texts \ {""} : Solid(ReadBack(t))

\* init's own file is one that it writes from its arguments
StarterIsWritten ==
  author = "init" =>
    \E name, environment \in Texts \ {""}, port \in {TrimSpace(t) : t \in PortArgs}, baud \in Bauds :
      file[ProjectDir] = starterYAML(name, environment, port, baud)

ArgsOfInit == pc \in {"inspect", "write"} => args \in Arguments

StarterInv == ini \in Inis /\ ArgsOfInit /\ StarterIsWritten

LEMMA StarterKept ==
  ASSUME StarterInv, UNCHANGED <<ini, author>>, file'[ProjectDir] = file[ProjectDir], ArgsOfInit'
  PROVE  StarterInv'
BY DEF StarterInv, StarterIsWritten

LEMMA StarterStep == CliInv /\ StarterInv /\ [Next]_vars => StarterInv'
<1> SUFFICES ASSUME CliInv, StarterInv, [Next]_vars PROVE StarterInv'
  OBVIOUS
<1>0. ProjectDir \in Place /\ RunDir \in Place /\ ProjectDir # RunDir /\ DOMAIN file = Place
  BY CliAssumption DEF Place, CliInv, FilesAreDocuments
<1>1. CASE UNCHANGED vars
  <2>1. ArgsOfInit'
    BY <1>1 DEF vars, StarterInv, ArgsOfInit
  <2> QED
    BY <1>1, <2>1, StarterKept DEF vars
<1>2. CASE Editor
  BY <1>2 DEF Editor, StarterInv, StarterIsWritten, ArgsOfInit
<1>3. CASE StartInit
  <2>1. PICK a \in Arguments :
          args' = a /\ Run("init", IF a.force THEN "write" ELSE "inspect")
    BY <1>3 DEF StartInit
  <2> QED
    BY <2>1, StarterKept DEF Run, ArgsOfInit
<1>4. CASE Inspect
  <2>1. ArgsOfInit'
    BY <1>4 DEF Inspect, Exit, StarterInv, ArgsOfInit
  <2> QED
    BY <1>4, <2>1, StarterKept DEF Inspect
<1>5. CASE WriteStarter
  <2>1. ArgsOfInit' /\ ini' = ini
    BY <1>5 DEF WriteStarter, Exit, ArgsOfInit
  <2>2. CASE file' = [file EXCEPT ![ProjectDir] = Starter] /\ author' = "init"
    <3>1. file'[ProjectDir] = starterYAML(testName, pioEnvironment, TrimSpace(args.port), args.baud)
      BY <1>0, <2>2 DEF Starter
    <3>2. args \in Arguments
      BY <1>5 DEF WriteStarter, StarterInv, ArgsOfInit
    <3>3. /\ args.name \in Names /\ args.environment \in Environments
          /\ args.port \in PortArgs /\ args.baud \in Bauds
      BY <3>2 DEF Arguments
    <3>4. testName \in Texts \ {""}
      BY <3>3, StarterAssumption DEF testName, OrElse, Texts
    <3>5. pioEnvironment \in Texts \ {""}
      <4>1. CASE ini = <<>>
        BY <3>3, <4>1 DEF pioEnvironment, detectPlatformIOEnvironment, OrElse, Texts
      <4>2. CASE ini # <<>>
        <5>1. ini \in Inis \ {<<>>}
          BY <4>2 DEF StarterInv
        <5>2. detectPlatformIOEnvironment = TrimSpace(Head(ini))
          BY <4>2 DEF detectPlatformIOEnvironment
        <5> DEFINE first == Head(ini)
        <5>3. first \in {Head(sections) : sections \in Inis \ {<<>>}}
          BY <5>1
        <5> HIDE DEF first
        <5>4. TrimSpace(first) \in Texts /\ TrimSpace(args.environment) \in Texts
              /\ "esp32-s3-devkitc-1" \in Texts
          BY <3>3, <5>3 DEF Texts
        <5> QED
          BY <5>2, <5>4 DEF pioEnvironment, OrElse, first
      <4> QED
        BY <4>1, <4>2
    <3> QED
      BY <2>1, <3>1, <3>3, <3>4, <3>5 DEF StarterInv, StarterIsWritten
  <2>3. CASE author' = IF file' = file THEN author ELSE "nobody"
    <3>1. CASE file' = file
      BY <2>1, <2>3, <3>1, StarterKept
    <3>2. CASE file' # file
      BY <2>1, <2>3, <3>2 DEF StarterInv, StarterIsWritten
    <3> QED
      BY <3>1, <3>2
  <2> QED
    BY <1>5, <2>2, <2>3 DEF WriteStarter
<1>6. CASE StartValidate
  <2>1. ArgsOfInit' /\ UNCHANGED <<ini, author, file>>
    BY <1>6 DEF StartValidate, Run, ArgsOfInit
  <2> QED
    BY <2>1, StarterKept
<1>7. CASE StartTest
  <2>1. ArgsOfInit' /\ UNCHANGED <<ini, author, file>>
    BY <1>7 DEF StartTest, Run, ArgsOfInit
  <2> QED
    BY <2>1, StarterKept
<1>8. CASE LoadFile
  <2>1. ArgsOfInit' /\ UNCHANGED <<ini, author, file>>
    BY <1>8 DEF LoadFile, Exit, ArgsOfInit
  <2> QED
    BY <2>1, StarterKept
<1>9. CASE ValidateProjectDirectory
  <2>1. ArgsOfInit' /\ UNCHANGED <<ini, author, file>>
    BY <1>9 DEF ValidateProjectDirectory, Exit, ArgsOfInit
  <2> QED
    BY <2>1, StarterKept
<1>10. CASE RunTest
  <2>1. ArgsOfInit' /\ UNCHANGED <<ini, author>>
    BY <1>10 DEF RunTest, Exit, ArgsOfInit
  <2>2. file' = file \/ \E f : file' = [file EXCEPT ![RunDir] = f]
    BY <1>10 DEF RunTest
  <2>3. file'[ProjectDir] = file[ProjectDir]
    BY <1>0, <2>2
  <2> QED
    BY <2>1, <2>3, StarterKept
<1> QED
  BY <1>1, <1>2, <1>3, <1>4, <1>5, <1>6, <1>7, <1>8, <1>9, <1>10 DEF Next, Command

LEMMA StarterInvariant == Spec => []StarterInv
<1>1. Init => StarterInv
  BY DEF Init, StarterInv, StarterIsWritten, ArgsOfInit
<1> QED
  BY <1>1, StarterStep, CliInvariant, PTL DEF Spec

-----------------------------------------------------------------------------
(* Theorems *)

(* The runner is never started on a configuration it is not made for,      *)
(* whatever the test file, the edits and the port argument are (Parse,     *)
(* validateConfig, ApplyPortOverride, ValidateProjectDirectory).           *)
THEOREM CliStartsRunnable == Spec => []StartedIsRunnable
<1>1. ASSUME CliInv, pc = "run" PROVE StartedIsRunnable
  <2>1. Proper(config) /\ config.project.directory \in Directories
    BY <1>1 DEF CliInv, LoadedIsProper
  <2>2. config.steps # <<>>
    BY <2>1 DEF Proper
  <2>3. config.device.baud > 0 /\ TrimSpace(config.device.port) # ""
    BY <2>1 DEF Proper, ProperDevice, Solid
  <2>4. \A t \in Timeouts : config.execution.timeout[t] > 0
    BY <2>1 DEF Proper, ProperExecution
  <2>5. ASSUME NEW i \in DOMAIN config.assertions
        PROVE  /\ config.assertions[i].type = "serial_contains" => config.assertions[i].within > 0
               /\ \E j \in DOMAIN config.steps : config.steps[j].type = "monitor"
    <3>1. ProperAssertion(config.assertions[i]) /\ IsList(config.assertions)
      BY <2>1 DEF Proper
    <3>2. config.assertions # <<>>
      OBVIOUS
    <3> QED
      BY <2>1, <3>1, <3>2 DEF Proper, ProperAssertion
  <2> QED
    BY <2>1, <2>2, <2>3, <2>4, <2>5 DEF StartedIsRunnable
<1>2. CliInv => StartedIsRunnable
  BY <1>1 DEF StartedIsRunnable
<1> QED
  BY <1>2, CliInvariant, PTL

(* config.resolved.yaml reproduces the run it was written by, whatever the *)
(* test file, the edits and the port argument were: it is accepted, in     *)
(* whatever order the timeouts are checked, and gives the configuration of *)
(* that run from the place where it lies (ResolvedYAML against Load).      *)
THEOREM CliResolvedReproduces == Spec => []ResolvedReproduces
<1>1. ASSUME CliInv, ran # <<>>
      PROVE  /\ \A worst \in Timeouts : Fault(file[RunDir], worst) = NoFault
             /\ Resolved(Config(file[RunDir]), RunDir) = ran[1]
  <2> DEFINE cfg == ran[1]
  <2>1. Proper(cfg) /\ Absolute(cfg.project.directory) /\ file[RunDir] = ResolvedYAML(cfg)
    BY <1>1 DEF CliInv, RanIsWritten
  <2> HIDE DEF cfg
  <2>2. /\ \A worst \in Timeouts : Fault(file[RunDir], worst) = NoFault
        /\ Config(file[RunDir]) = cfg
    BY <2>1, ResolvedIsReadBack
  <2>3. Join(RunDir, cfg.project.directory) = cfg.project.directory
    BY <2>1 DEF Absolute, Place
  <2>4. Resolved(cfg, RunDir) = cfg
    <3>1. /\ cfg = [name |-> cfg.name, project |-> cfg.project, device |-> cfg.device,
                    execution |-> cfg.execution, steps |-> cfg.steps,
                    assertions |-> cfg.assertions]
          /\ cfg.project = [directory |-> cfg.project.directory,
                            environment |-> cfg.project.environment]
      BY <2>1 DEF Proper, ProperProject
    <3>2. [cfg EXCEPT !.project.directory = cfg.project.directory] = cfg
      BY <3>1, DirectoryReplaced
    <3> QED
      BY <2>3, <3>2 DEF Resolved
  <2> QED
    BY <2>2, <2>4 DEF cfg
<1>2. CliInv => ResolvedReproduces
  BY <1>1 DEF ResolvedReproduces
<1> QED
  BY <1>2, CliInvariant, PTL

(* The fields of an accepted test file may be given in the opposite order: *)
(* it is accepted too and means the same (Parse).                          *)
THEOREM CliOrderIrrelevant == Spec => []OrderOfFieldsIrrelevant
<1>1. FilesAreDocuments => OrderOfFieldsIrrelevant
  BY SameReversed DEF FilesAreDocuments, IsFile, OrderOfFieldsIrrelevant, FilesAtRest
<1> QED
  BY <1>1, CliInvariant, PTL DEF CliInv

(* What `init` has written, `validate` accepts and `test` starts, whatever *)
(* its arguments, platformio.ini and the name of the directory are - as    *)
(* long as YAML reads nothing that strconv.Quote has quoted as blank       *)
(* (starterYAML against Parse).                                            *)
THEOREM CliStarterValid ==
  ASSUME TextSurvives
  PROVE  Spec => []StarterIsValid
<1>1. ASSUME StarterInv, author = "init"
      PROVE  /\ \A worst \in Timeouts : Fault(file[ProjectDir], worst) = NoFault
             /\ Resolved(Config(file[ProjectDir]), ProjectDir).project.directory \in Directories
  <2>1. PICK name \in Texts \ {""}, environment \in Texts \ {""},
             port \in {TrimSpace(t) : t \in PortArgs}, baud \in Bauds :
          file[ProjectDir] = starterYAML(name, environment, port, baud)
    BY <1>1 DEF StarterInv, StarterIsWritten
  <2>2. OrElse(port, "auto") \in Texts \ {""}
    BY DEF OrElse, Texts
  <2>3. /\ Solid(ReadBack(name)) /\ Solid(ReadBack(environment))
        /\ Solid(ReadBack(OrElse(port, "auto")))
    BY <2>2 DEF TextSurvives
  <2>4. \A worst \in Timeouts : Fault(file[ProjectDir], worst) = NoFault
    <3>1. baud \in Int /\ (baud > 0 => baud \in DOMAIN FormatInt)
      BY StarterAssumption
    <3> QED
      BY <2>1, <2>3, <3>1, StarterAccepted
  <2> DEFINE cfg == Config(file[ProjectDir])
  <2>5. Directory(file[ProjectDir]) = "."
    BY <2>1, StarterNames
  <2>6. /\ cfg.project.directory = "."
        /\ cfg = [name |-> cfg.name, project |-> cfg.project, device |-> cfg.device,
                  execution |-> cfg.execution, steps |-> cfg.steps, assertions |-> cfg.assertions]
        /\ cfg.project = [directory |-> cfg.project.directory,
                          environment |-> cfg.project.environment]
    BY <2>5 DEF Config, Project, Directory
  <2> HIDE DEF cfg
  <2>7. Resolved(cfg, ProjectDir).project.directory = Join(ProjectDir, ".")
    BY <2>6, DirectoryReplaced DEF Resolved
  <2> QED
    BY <2>4, <2>7, StarterAssumption DEF cfg
<1>2. StarterInv => StarterIsValid
  BY <1>1 DEF StarterIsValid
<1> QED
  BY <1>2, StarterInvariant, PTL

(* Nothing in an accepted file is without effect: each field is given once *)
(* and has a place in the configuration (mapping; docs/test-format.md:5).  *)
THEOREM CliNothingIgnored == Spec => []NothingIgnored
<1>1. ASSUME FilesAreDocuments, NEW doc \in FilesAtRest,
             \A worst \in Timeouts : Fault(doc, worst) = NoFault
      PROVE  /\ \A f, g \in Fields(doc) : f[1] = g[1] => f = g
             /\ \A f \in Fields(doc) :
                  \/ f[1] = <<"execution", "reset_after_upload">>
                  \/ \E g \in Fields(ResolvedYAML(Config(doc))) : f[1] = g[1]
  <2>1. Decoded(doc)
    BY <1>1 DEF FilesAreDocuments, IsFile, FilesAtRest
  <2>2. "test_timeout" \in Timeouts
    BY DEF Timeouts, DefaultTimeout
  <2> QED
    BY <1>1, <2>1, <2>2, FieldsCount
<1>2. FilesAreDocuments => NothingIgnored
  BY <1>1 DEF NothingIgnored
<1> QED
  BY <1>2, CliInvariant, PTL DEF CliInv

(* The path of a validation error leads to what is wrong: once the node    *)
(* there is repaired, it is not reported again, in whatever order the      *)
(* timeouts are checked (ValidationError; docs/test-format.md:5).          *)
THEOREM CliBlameIsRight == Spec => []BlameIsRight
<1>1. ASSUME NEW doc, Decoded(doc), NEW worst \in Timeouts, Fault(doc, worst).path # <<>>
      PROVE  Fault(Repaired(doc, Fault(doc, worst).path), worst).path # Fault(doc, worst).path
  <2> DEFINE p == Fault(doc, worst).path
             section == At(doc, p[1])
             good == At(Template, p[1])
             field == Replace(section, p[2], At(good, p[2]))
  <2>1. doc.kind = "mapping" /\ IsList(doc.content)
    BY <1>1, FaultIs DEF Decoded
  <2>2. p # <<>>
    BY <1>1
  <2>3. Repaired(doc, p) = Replace(doc, p[1], IF Len(p) > 1 /\ section.kind = "mapping"
                                              THEN field ELSE good)
    BY DEF Repaired, Template
  <2> HIDE DEF p
  <2>4. IsList(section.content)
    BY <1>1, <2>1, SectionIsList
  <2>5. CASE Len(p) > 1 /\ section.kind = "mapping"
    <3>1. Spares(Fault(Replace(doc, p[1], field), worst), p)
      BY <2>1, <2>4, <2>5, FieldRepaired
    <3> HIDE DEF section, field, good
    <3> QED
      BY <2>3, <2>5, <3>1 DEF Spares, p
  <2>6. CASE ~(Len(p) > 1 /\ section.kind = "mapping")
    <3>1. Spares(Fault(Replace(doc, p[1], good), worst), p)
      BY <2>1, <2>2, SectionRepaired
    <3> HIDE DEF section, field, good
    <3> QED
      BY <2>3, <2>6, <3>1 DEF Spares, p
  <2> QED
    BY <2>5, <2>6 DEF p
<1>2. ASSUME FilesAreDocuments, NEW doc \in FilesAtRest PROVE Decoded(doc)
  BY <1>2 DEF FilesAreDocuments, IsFile, FilesAtRest
<1>3. FilesAreDocuments => BlameIsRight
  BY <1>1, <1>2 DEF BlameIsRight
<1> QED
  BY <1>3, CliInvariant, PTL DEF CliInv
=============================================================================
