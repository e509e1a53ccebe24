------------------------------- MODULE MCCli --------------------------------
(***************************************************************************)
(* An instance of Cli for TLC: a valid test file and what comes of it when *)
(* one or two of its sections are replaced by others, right and wrong.     *)
(***************************************************************************)
EXTENDS Cli

MCTrimSpace(s) == CASE s = " " -> "" [] s = " COM3 " -> "COM3" [] OTHER -> s
MCReadBack(s)  == IF s = "caf\\xe9" THEN "cafe-acute" ELSE s
MCJoin(dir, path) ==
  CASE path \in {"/fw", "/fw/firmware", "/gone", "/fw/.architon/runs/r",
                 "/fw/.architon/runs/r/firmware"} -> path
    [] path = "."                -> dir
    [] OTHER                     -> dir \o "/" \o path

MCAtoi == "-9600" :> -9600 @@ "0" :> 0 @@ "1" :> 1 @@ "2" :> 2 @@ "9600" :> 9600 @@ "115200" :> 115200
MCFormatInt == -9600 :> "-9600" @@ 0 :> "0" @@ 1 :> "1" @@ 2 :> "2" @@ 9600 :> "9600" @@ 115200 :> "115200"
MCParseBool == "true" :> TRUE @@ "True" :> TRUE @@ "false" :> FALSE
MCParseDuration ==
  "-1s" :> -1 @@ "0s" :> 0 @@ "10s" :> 10 @@ "15s" :> 15 @@ "30s" :> 30 @@ "60s" :> 60
  @@ "1m" :> 60 @@ "1m0s" :> 60 @@ "120s" :> 120 @@ "2m0s" :> 120
MCFormatDuration ==
  -1 :> "-1s" @@ 0 :> "0s" @@ 10 :> "10s" @@ 15 :> "15s" @@ 30 :> "30s" @@ 60 :> "1m0s"
  @@ 120 :> "2m0s"

S(token) == Scalar(token)
One(key, value) == MappingOf(<<<<key, value>>>>)
Two(k1, v1, k2, v2) == MappingOf(<<<<k1, S(v1)>>, <<k2, S(v2)>>>>)
Monitor(duration) == One("monitor", One("duration", S(duration)))
Contains(within) == One("serial_contains", Two("value", "ready", "within", within))
NotContains == One("serial_not_contains", Two("value", "panic", "case_sensitive", "false"))

Good == [
  version    |-> S("1"),
  name       |-> S("smoke"),
  project    |-> Two("directory", ".", "environment", "esp32"),
  device     |-> Two("platform", "esp32", "port", "auto"),
  execution  |-> Two("boot_timeout", "1m", "test_timeout", "10s"),
  steps      |-> SequenceOf(<<S("build"), S("upload"), Monitor("10s")>>),
  assertions |-> SequenceOf(<<Contains("15s"), NotContains>>)]

Section == <<"version", "name", "project", "device", "execution", "steps", "assertions">>

\* what each section may be instead
Other == [
  version |-> {S("2"), S("one"), SequenceOf(<<>>)},
  name |-> {S(" "), SequenceOf(<<S("smoke")>>)},
  project |-> {S("."), Two("directory", "firmware", "environment", "esp32"),
               Two("directory", "/gone", "environment", "esp32"),
               Two("directory", "/fw", "environment", " "),
               Two("directory", "/fw", "directory", "."),
               One("directory", S("/fw"))},
  device |-> {Two("platform", "avr", "port", "auto"), Two("platform", "esp32", "baud", "9600"),
              MappingOf(<<<<"platform", S("esp32")>>, <<"port", S("COM3")>>, <<"baud", S("9600")>>>>),
              MappingOf(<<<<"platform", S("esp32")>>, <<"port", S("COM3")>>, <<"baud", S("0")>>>>),
              MappingOf(<<<<"platform", S("esp32")>>, <<"port", S("COM3")>>, <<"port", S("auto")>>>>)},
  execution |-> {Two("build_timeout", "0s", "boot_timeout", "-1s"), One("timeout", S("10s")),
                 One("reset_after_upload", S("True")), One("reset_after_upload", S("false")),
                 One("reset_after_upload", S("10s")), One("test_timeout", S("fast")),
                 MappingOf(<<>>)},
  steps |-> {SequenceOf(<<>>), S("build"), SequenceOf(<<S("build"), S("flash")>>),
             SequenceOf(<<S("build")>>), SequenceOf(<<Monitor("0s"), Monitor("1m")>>),
             SequenceOf(<<Monitor("soon")>>), SequenceOf(<<One("monitor", MappingOf(<<>>))>>),
             SequenceOf(<<One("delay", S("10s")), S("flash")>>), SequenceOf(<<SequenceOf(<<>>)>>),
             SequenceOf(<<MappingOf(<<>>)>>)},
  assertions |-> {SequenceOf(<<>>), S("ready"), SequenceOf(<<S("ready")>>),
                  SequenceOf(<<One("serial_contains", One("value", S("ready")))>>),
                  SequenceOf(<<Contains("0s")>>), SequenceOf(<<Contains("soon")>>),
                  SequenceOf(<<One("serial_contains", One("value", S(" ")))>>),
                  SequenceOf(<<One("serial_matches", One("value", S("r.*")))>>),
                  SequenceOf(<<MappingOf(<<>>)>>),
                  SequenceOf(<<One("serial_not_contains", Two("value", "panic", "within", "10s"))>>)}]

Present(entry) == entry[2] # Absent
File(sections) ==
  MappingOf(SelectSeq([i \in DOMAIN Section |-> <<Section[i], sections[Section[i]]>>], Present))

Choices(k) == {Good[k], Absent} \cup Other[k]

\* sections whose checks or defaults meet
Pairs == {<<"version", "name">>, <<"project", "device">>, <<"execution", "assertions">>,
          <<"steps", "assertions">>}

\* one or two sections replaced, or no mapping of sections at all
MCFiles ==
  UNION {{File([Good EXCEPT ![p[1]] = v, ![p[2]] = w]) : v \in Choices(p[1]), w \in Choices(p[2])} :
           p \in Pairs}
  \cup {Absent, S("smoke"),
        MappingOf(Append(File(Good).content, <<"board", S("esp32")>>)),
        MappingOf(Append(File(Good).content, <<"name", S("other")>>))}

GoodFile == {File(Good)}
MCEdits  == {File(Good), Torn}

\* none, or one that YAML reads otherwise than Go has quoted it
MCEnvironments == {"", "caf\\xe9"}

\* a first environment without a name, and one that init finds
MCInis == {<<" ", "esp32">>, <<"esp32", "native">>}
=============================================================================
