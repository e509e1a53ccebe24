--------------------------- MODULE CaptureProofs ----------------------------
(***************************************************************************)
(* Theorems about Capture, for every set of assertions and chunks, every   *)
(* deadline and every window.                                              *)
(***************************************************************************)
EXTENDS Capture, SequenceTheorems, TLAPS

-----------------------------------------------------------------------------
(* Type correctness *)

(* One observation keeps the evaluator's state in its types. *)
LEMMA ObserveType ==
  ASSUME TypeOK, NEW m \in Message, NEW at \in 0..MaxTime, Verdicts!Observe(<<m>>, at)
  PROVE  /\ heard' \in Seq(Message)
         /\ heard' = Append(heard, m)
         /\ results' \subseteq [assertion: Assertion, passed: BOOLEAN, at: Nat]
<1>1. heard' = Append(heard, m) /\ heard' \in Seq(Message)
  BY DEF TypeOK, Verdicts!Observe
<1>2. \A a \in Assertion, p \in BOOLEAN :
        Verdicts!Verdict(a, p, at) \in [assertion: Assertion, passed: BOOLEAN, at: Nat]
  BY CaptureAssumption DEF Verdicts!Verdict
<1>3. Verdicts!ShownVerdicts(heard \o <<m>>, at)
        \subseteq [assertion: Assertion, passed: BOOLEAN, at: Nat]
  BY <1>2 DEF Verdicts!ShownVerdicts, Assertion
<1> QED
  BY <1>1, <1>3 DEF TypeOK, Verdicts!Observe

(* So does the end of the window. *)
LEMMA FinishType ==
  ASSUME TypeOK, NEW at \in 0..MaxTime, Verdicts!Finish(at)
  PROVE  /\ heard' = heard
         /\ results' \subseteq [assertion: Assertion, passed: BOOLEAN, at: Nat]
<1>1. \A a \in Assertion, p \in BOOLEAN, t \in Nat :
        Verdicts!Verdict(a, p, t) \in [assertion: Assertion, passed: BOOLEAN, at: Nat]
  BY DEF Verdicts!Verdict
<1>2. at \in Nat /\ \A a \in Required : Within[a] \in Nat
  BY CaptureAssumption
<1>3. ASSUME NEW r \in Verdicts!AbsentVerdicts(at)
      PROVE  r \in [assertion: Assertion, passed: BOOLEAN, at: Nat]
  <2>1. \/ \E a \in Required : r = Verdicts!Verdict(a, FALSE, Within[a])
        \/ \E a \in Forbidden : r = Verdicts!Verdict(a, TRUE, at)
    BY DEF Verdicts!AbsentVerdicts
  <2>2. CASE \E a \in Required : r = Verdicts!Verdict(a, FALSE, Within[a])
    <3>1. PICK a \in Required : r = Verdicts!Verdict(a, FALSE, Within[a])
      BY <2>2
    <3> QED
      BY <1>2, <3>1 DEF Assertion, Verdicts!Verdict
  <2>3. CASE \E a \in Forbidden : r = Verdicts!Verdict(a, TRUE, at)
    BY <1>1, <1>2, <2>3 DEF Assertion
  <2> QED
    BY <2>1, <2>2, <2>3
<1> QED
  BY <1>3 DEF TypeOK, Verdicts!Finish

LEMMA TypeInit == Init => TypeOK
<1> SUFFICES ASSUME Init PROVE TypeOK
  OBVIOUS
<1>1. <<>> \in AtMostOne /\ <<>> \in Seq(Message) /\ <<>> \in Seq(Event)
  BY DEF AtMostOne
<1>2. heard = <<>> /\ results = {}
  BY DEF Init, Verdicts!Init
<1>3. now \in 0..MaxTime /\ taken \in 0..Len(sent) /\ takenInWindow \in 0..taken
  BY CaptureAssumption DEF Init
<1>4. events \in Seq(Event) /\ Len(events) <= 1 /\ held \in AtMostOne
  BY <1>1 DEF Init
<1>5. heard \in Seq(Message) /\ log \in Seq(Message) /\ sent \in Seq(Message)
  BY <1>1, <1>2 DEF Init
<1>6. results \subseteq [assertion: Assertion, passed: BOOLEAN, at: Nat]
  BY <1>2
<1> QED
  BY <1>3, <1>4, <1>5, <1>6 DEF Init, TypeOK

LEMMA TypeStep == TypeOK /\ [Next]_vars => TypeOK'
<1> SUFFICES ASSUME TypeOK, [Next]_vars PROVE TypeOK'
  OBVIOUS
<1> USE CaptureAssumption
<1>1. CASE Tick
  BY <1>1 DEF TypeOK, Tick, deviceVars, readerVars, mainVars
<1>2. CASE Interrupt
  BY <1>2 DEF TypeOK, Interrupt, deviceVars, readerVars, mainVars
<1>3. CASE Expire
  BY <1>3 DEF TypeOK, Expire, deviceVars, readerVars, mainVars
<1>4. CASE DeviceSends
  <2>1. PICK c \in Chunk : sent' = Append(sent, [chunk |-> c, at |-> now])
    BY <1>4 DEF DeviceSends
  <2>2. [chunk |-> c, at |-> now] \in Message
    BY DEF TypeOK, Message
  <2>3. sent' \in Seq(Message) /\ Len(sent') = Len(sent) + 1
    BY <2>1, <2>2 DEF TypeOK
  <2> QED
    BY <1>4, <2>3 DEF TypeOK, DeviceSends, ctxVars, readerVars, mainVars
<1>5. CASE DeviceEnds
  BY <1>5 DEF TypeOK, DeviceEnds, ctxVars, readerVars, mainVars
<1>6. CASE ReaderTakes
  <2>1. sent[taken + 1] \in Message
    BY <1>6 DEF TypeOK, ReaderTakes
  <2> QED
    BY <1>6, <2>1 DEF TypeOK, ReaderTakes, AtMostOne, deviceVars, ctxVars, mainVars
<1>7. CASE ReaderFails
  BY <1>7 DEF TypeOK, ReaderFails, deviceVars, ctxVars, mainVars
<1>8. CASE ReaderSendsData
  <2>1. [data |-> held, err |-> "none"] \in Event
    BY DEF TypeOK, Event
  <2>2. events' \in Seq(Event) /\ Len(events') = 1
    BY <1>8, <2>1 DEF TypeOK, ReaderSendsData
  <2> QED
    BY <1>8, <2>2 DEF TypeOK, ReaderSendsData, AtMostOne, deviceVars, ctxVars, mainVars
<1>9. CASE ReaderSendsError
  <2>1. [data |-> <<>>, err |-> heldErr] \in Event
    BY DEF TypeOK, Event, AtMostOne
  <2>2. events' \in Seq(Event) /\ Len(events') = 1
    BY <1>9, <2>1 DEF TypeOK, ReaderSendsError
  <2> QED
    BY <1>9, <2>2 DEF TypeOK, ReaderSendsError, deviceVars, ctxVars, mainVars
<1>10. CASE ReaderGivesUp
  BY <1>10 DEF TypeOK, ReaderGivesUp, AtMostOne, deviceVars, ctxVars, mainVars
<1>11. CASE MainTakesDone
  BY <1>11 DEF TypeOK, MainTakesDone, deviceVars, ctxVars, readerVars
<1>12. CASE MainDecides
  <2>1. heard' = heard /\ results' \subseteq [assertion: Assertion, passed: BOOLEAN, at: Nat]
    BY <1>12, FinishType DEF TypeOK, MainDecides
  <2> QED
    BY <1>12, <2>1 DEF TypeOK, MainDecides, Return, deviceVars, readerVars
<1>13. CASE MainTakesData
  <2> DEFINE m == [chunk |-> Head(events).data[1].chunk, at |-> now]
  <2>1. Head(events) \in Event /\ events' \in Seq(Event) /\ Len(events') <= 1
    BY <1>13 DEF TypeOK, MainTakesData
  <2>2. m \in Message
    BY <1>13, <2>1 DEF TypeOK, MainTakesData, Event, AtMostOne, Message
  <2>3. /\ heard' \in Seq(Message)
        /\ results' \subseteq [assertion: Assertion, passed: BOOLEAN, at: Nat]
    <3>1. Verdicts!Observe(<<m>>, now) /\ now \in 0..MaxTime
      BY <1>13 DEF TypeOK, MainTakesData
    <3> QED
      BY <2>2, <3>1, ObserveType
  <2>4. log' \in Seq(Message)
    <3>1. log' = Append(log, m) \/ log' = log
      BY <1>13 DEF MainTakesData
    <3>2. log \in Seq(Message)
      BY DEF TypeOK
    <3> QED
      BY <2>2, <3>1, <3>2
  <2> QED
    BY <1>13, <2>1, <2>3, <2>4 DEF TypeOK, MainTakesData, deviceVars, readerVars, ctxVars
<1>14. CASE MainTakesError
  <2>1. events' \in Seq(Event) /\ Len(events') <= 1
    BY <1>14 DEF TypeOK, MainTakesError
  <2>2. heard' = heard /\ results' \subseteq [assertion: Assertion, passed: BOOLEAN, at: Nat]
    BY <1>14, FinishType DEF TypeOK, MainTakesError
  <2> QED
    BY <1>14, <2>1, <2>2 DEF TypeOK, MainTakesError, Return, deviceVars, readerVars
<1>15. CASE UNCHANGED vars
  BY <1>15 DEF TypeOK, vars, deviceVars, readerVars, mainVars, ctxVars
<1> QED
  BY <1>1, <1>2, <1>3, <1>4, <1>5, <1>6, <1>7, <1>8, <1>9, <1>10, <1>11, <1>12, <1>13,
     <1>14, <1>15 DEF Next, Reader, Main, Returned

(* Every state of the monitor is well typed; in particular the channel     *)
(* never holds more than the one event it was made for (make(chan          *)
(* readEvent, 1)).                                                         *)
THEOREM TypeCorrect == Spec => []TypeOK
<1> QED
  BY TypeInit, TypeStep, PTL DEF Spec

-----------------------------------------------------------------------------
(* The flow of chunks from the port to the evaluator *)

InChannel == IF events # <<>> /\ Head(events).data # <<>> THEN 1 ELSE 0
InHand    == IF held # <<>> THEN 1 ELSE 0

(* What makes HeardInOrder inductive: every chunk taken from the port has  *)
(* been heard, is in the channel or is in the reader's hand, in that       *)
(* order; only a reader that has exited may have dropped the last one.     *)
FlowInv ==
  /\ readerPc = "data" <=> held # <<>>
  /\ \A i \in DOMAIN sent : sent[i].at <= now
  /\ Len(heard) + InChannel + InHand <= taken
  /\ readerPc # "exited" => Len(heard) + InChannel + InHand = taken
  /\ held # <<>> => held[1] = sent[taken]
  /\ InChannel = 1 => /\ Head(events).data[1] = sent[Len(heard) + 1]
                      /\ Head(events).err = "none"
  /\ HeardInOrder

LEMMA Counts ==
  ASSUME TypeOK
  PROVE  /\ now \in Nat /\ Len(sent) \in Nat /\ Len(heard) \in Nat /\ taken \in 0..Len(sent)
         /\ DOMAIN sent = 1..Len(sent) /\ DOMAIN heard = 1..Len(heard)
         /\ \A i \in DOMAIN sent : sent[i].at \in Nat
         /\ InChannel \in 0..1 /\ InHand \in 0..1
         /\ events # <<>> => Tail(events) = <<>> /\ Head(events) \in Event
<1>1. \A i \in 1..Len(sent) : sent[i] \in Message
  BY ElementOfSeq DEF TypeOK
<1>2. /\ now \in Nat /\ Len(sent) \in Nat /\ Len(heard) \in Nat /\ taken \in 0..Len(sent)
      /\ DOMAIN sent = 1..Len(sent) /\ DOMAIN heard = 1..Len(heard)
  BY DEF TypeOK
<1>3. \A i \in DOMAIN sent : sent[i].at \in Nat
  BY <1>1, <1>2 DEF Message
<1>4. InChannel \in 0..1 /\ InHand \in 0..1
  BY DEF InChannel, InHand
<1>5. ASSUME events # <<>> PROVE Tail(events) = <<>> /\ Head(events) \in Event
  <2>1. events \in Seq(Event) /\ Len(events) <= 1
    BY DEF TypeOK
  <2>2. Len(events) = 1
    BY <1>5, <2>1, EmptySeq
  <2>3. Tail(events) \in Seq(Event) /\ Len(Tail(events)) = 0 /\ Head(events) \in Event
    BY <1>5, <2>1, <2>2, HeadTailProperties
  <2> QED
    BY <2>3, EmptySeq
<1> QED
  BY <1>2, <1>3, <1>4, <1>5

LEMMA FlowInit == Init => FlowInv
<1> SUFFICES ASSUME Init PROVE FlowInv
  OBVIOUS
<1>1. heard = <<>> /\ sent = <<>> /\ held = <<>> /\ events = <<>> /\ taken = 0 /\ readerPc = "read"
  BY DEF Init, Verdicts!Init
<1>2. InChannel = 0 /\ InHand = 0 /\ Len(<<>>) = 0
  BY <1>1 DEF InChannel, InHand
<1> QED
  BY <1>1, <1>2 DEF FlowInv, HeardInOrder

(* The flow is undisturbed by a step that moves no chunk. *)
LEMMA FlowFrame ==
  ASSUME FlowInv, TypeOK, now' \in Nat, now <= now',
         UNCHANGED <<sent, taken, held, heard>>,
         InChannel' = InChannel,
         InChannel = 1 => Head(events') = Head(events),
         (readerPc' = "data") = (readerPc = "data"),
         readerPc = "exited" => readerPc' = "exited"
  PROVE  FlowInv'
<1>1. \A i \in DOMAIN sent : sent[i].at <= now'
  BY Counts DEF FlowInv
<1>2. InHand' = InHand
  BY DEF InHand
<1> QED
  BY <1>1, <1>2 DEF FlowInv, HeardInOrder

LEMMA FlowStep == TypeOK /\ TypeOK' /\ FlowInv /\ [Next]_vars => FlowInv'
<1> SUFFICES ASSUME TypeOK, TypeOK', FlowInv, [Next]_vars PROVE FlowInv'
  OBVIOUS
<1>0. now \in Nat /\ now' \in Nat
  BY DEF TypeOK
<1>1. CASE Tick
  BY <1>0, <1>1, FlowFrame DEF Tick, deviceVars, readerVars, mainVars, InChannel
<1>2. CASE Interrupt
  BY <1>0, <1>2, FlowFrame DEF Interrupt, deviceVars, readerVars, mainVars, InChannel
<1>3. CASE Expire
  BY <1>0, <1>3, FlowFrame DEF Expire, deviceVars, readerVars, mainVars, InChannel
<1>4. CASE DeviceSends
  <2>1. PICK c \in Chunk : sent' = Append(sent, [chunk |-> c, at |-> now])
    BY <1>4 DEF DeviceSends
  <2>2. /\ Len(sent') = Len(sent) + 1
        /\ \A i \in 1..Len(sent) : sent'[i] = sent[i]
        /\ sent'[Len(sent) + 1].at = now
        /\ DOMAIN sent' = 1..(Len(sent) + 1)
    BY <2>1 DEF TypeOK
  <2>3. UNCHANGED <<now, taken, readerPc, held, heard, events>>
    BY <1>4 DEF DeviceSends, ctxVars, readerVars, mainVars
  <2>4. InChannel' = InChannel /\ InHand' = InHand
    BY <2>3 DEF InChannel, InHand
  <2>5. \A i \in DOMAIN sent' : sent'[i].at <= now'
    BY <2>2, <2>3, Counts DEF FlowInv
  <2>6. HeardInOrder'
    BY <2>2, <2>3, Counts DEF FlowInv, HeardInOrder
  <2>7. held # <<>> => sent'[taken] = sent[taken]
    <3> SUFFICES ASSUME held # <<>> PROVE taken \in 1..Len(sent)
      BY <2>2
    <3>1. InHand = 1
      BY DEF InHand
    <3> QED
      BY <3>1, Counts DEF FlowInv
  <2>8. InChannel = 1 => sent'[Len(heard) + 1] = sent[Len(heard) + 1]
    BY <2>2, Counts DEF FlowInv
  <2> QED
    BY <2>3, <2>4, <2>5, <2>6, <2>7, <2>8 DEF FlowInv
<1>5. CASE DeviceEnds
  BY <1>0, <1>5, FlowFrame DEF DeviceEnds, ctxVars, readerVars, mainVars, InChannel
<1>6. CASE ReaderTakes
  <2>1. held = <<>> /\ InHand = 0 /\ InHand' = 1 /\ InChannel' = InChannel
    BY <1>6 DEF ReaderTakes, FlowInv, InHand, InChannel
  <2>2. UNCHANGED <<now, sent, heard, events>>
    BY <1>6 DEF ReaderTakes, deviceVars, ctxVars, mainVars
  <2> QED
    BY <1>6, <2>1, <2>2, Counts DEF ReaderTakes, FlowInv, HeardInOrder
<1>7. CASE ReaderFails
  BY <1>0, <1>7, FlowFrame DEF ReaderFails, deviceVars, ctxVars, mainVars, InChannel
<1>8. CASE ReaderSendsData
  <2>1. events = <<>> /\ events' # <<>> /\ Head(events') = [data |-> held, err |-> "none"]
    BY <1>8 DEF TypeOK, ReaderSendsData
  <2>2. held # <<>> /\ held' = <<>>
    BY <1>8 DEF ReaderSendsData, FlowInv
  <2>3. InChannel = 0 /\ InHand = 1 /\ InChannel' = 1 /\ InHand' = 0
    BY <2>1, <2>2 DEF InChannel, InHand
  <2>4. UNCHANGED <<now, taken, sent, heard>>
    BY <1>8 DEF ReaderSendsData, deviceVars, ctxVars, mainVars
  <2>5. Len(heard) + 1 = taken
    BY <1>8, <2>3, Counts DEF ReaderSendsData, FlowInv
  <2>6. readerPc' # "data"
    BY <1>8 DEF ReaderSendsData
  <2> QED
    BY <2>1, <2>2, <2>3, <2>4, <2>5, <2>6 DEF FlowInv, HeardInOrder
<1>9. CASE ReaderSendsError
  <2>1. events = <<>> /\ Head(events').data = <<>>
    BY <1>9 DEF TypeOK, ReaderSendsError
  <2>2. InChannel = 0 /\ InChannel' = 0
    BY <2>1 DEF InChannel
  <2> QED
    BY <1>0, <1>9, <2>2, FlowFrame DEF ReaderSendsError, deviceVars, ctxVars, mainVars
<1>10. CASE ReaderGivesUp
  <2>1. UNCHANGED <<now, taken, sent, heard, events>> /\ held' = <<>> /\ readerPc' = "exited"
    BY <1>10 DEF ReaderGivesUp, deviceVars, ctxVars, mainVars
  <2>2. InHand' = 0 /\ InChannel' = InChannel
    BY <2>1 DEF InHand, InChannel
  <2> QED
    BY <2>1, <2>2, Counts DEF FlowInv, HeardInOrder
<1>11. CASE MainTakesDone
  BY <1>0, <1>11, FlowFrame DEF MainTakesDone, deviceVars, ctxVars, readerVars, InChannel
<1>12. CASE MainDecides
  <2>1. heard' = heard
    BY <1>12 DEF MainDecides, Verdicts!Finish
  <2> QED
    BY <1>0, <1>12, <2>1, FlowFrame DEF MainDecides, deviceVars, readerVars, InChannel
<1>13. CASE MainTakesData
  <2> DEFINE m == [chunk |-> Head(events).data[1].chunk, at |-> now]
  <2>1. events' = <<>> /\ InChannel = 1 /\ InChannel' = 0
    BY <1>13, Counts DEF MainTakesData, InChannel
  <2>2. heard' = heard \o <<m>>
    BY <1>13 DEF MainTakesData, Verdicts!Observe
  <2>3. m \in Message
    BY <1>13, Counts DEF TypeOK, MainTakesData, Event, AtMostOne, Message
  <2>4. /\ Len(heard') = Len(heard) + 1
        /\ DOMAIN heard' = 1..(Len(heard) + 1)
        /\ \A i \in 1..Len(heard) : heard'[i] = heard[i]
        /\ heard'[Len(heard) + 1] = m
    BY <2>2, <2>3 DEF TypeOK
  <2>5. /\ Head(events).data[1] = sent[Len(heard) + 1]
        /\ Len(heard) + 1 \in DOMAIN sent
    BY <2>1, Counts DEF FlowInv
  <2>6. m.chunk = sent[Len(heard) + 1].chunk /\ m.at >= sent[Len(heard) + 1].at
    BY <2>5, Counts DEF FlowInv
  <2>7. UNCHANGED <<now, taken, readerPc, held, sent>> /\ InHand' = InHand
    BY <1>13 DEF MainTakesData, deviceVars, readerVars, ctxVars, InHand
  <2> HIDE DEF m
  <2>8. HeardInOrder'
    BY <2>4, <2>5, <2>6, <2>7, Counts DEF FlowInv, HeardInOrder
  <2> QED
    BY <2>1, <2>4, <2>7, <2>8, Counts DEF FlowInv
<1>14. CASE MainTakesError
  <2>1. heard' = heard /\ events' = <<>>
    BY <1>14, Counts DEF MainTakesError, Verdicts!Finish
  <2>2. UNCHANGED <<now, taken, readerPc, held, sent>> /\ InChannel' = 0 /\ InHand' = InHand
    BY <1>14, <2>1 DEF MainTakesError, deviceVars, readerVars, InChannel, InHand
  <2>3. InChannel = 0
    BY <1>14, Counts DEF MainTakesError, FlowInv
  <2> QED
    BY <1>0, <2>1, <2>2, <2>3, FlowFrame
<1>15. CASE UNCHANGED vars
  BY <1>0, <1>15, FlowFrame DEF vars, deviceVars, readerVars, mainVars, ctxVars, InChannel
<1> QED
  BY <1>1, <1>2, <1>3, <1>4, <1>5, <1>6, <1>7, <1>8, <1>9, <1>10, <1>11, <1>12, <1>13,
     <1>14, <1>15 DEF Next, Reader, Main, Returned

(* The evaluator hears the device's output from its first chunk on, in     *)
(* order and without a gap (reader loop, channel and select of             *)
(* captureSerial).                                                         *)
THEOREM HearsInOrder == Spec => []HeardInOrder
<1>1. FlowInv => HeardInOrder
  BY DEF FlowInv
<1> QED
  BY <1>1, FlowInit, FlowStep, TypeCorrect, PTL DEF Spec

-----------------------------------------------------------------------------
(* Verdicts by absence *)

\* the verdicts of `rs` that a value's presence decided
ByPresence(rs) == {r \in rs : r.passed <=> r.assertion \in Required}

AtDeadline == captureDone = "deadline" /\ now >= Duration
AtEOF      == link = "eof" /\ Len(heard) = Len(sent)

(* What makes AbsenceNeedsWholeWindow inductive: which end of captureCtx   *)
(* and which end of the port each part of the program has seen.            *)
EndInv ==
  /\ captureDone = "deadline" => now >= Duration
  /\ captureDone = "canceled" => interrupted \/ mainPc = "returned"
  /\ mainPc = "deciding" => captureDone # "open"
  /\ outcome # "none" => mainPc = "returned"
  /\ heldErr = "eof" => link = "eof" /\ taken = Len(sent)
  /\ events # <<>> /\ Head(events).err = "eof" => AtEOF /\ InHand = 0 /\ InChannel = 0
  /\ outcome = "finished" => AtDeadline \/ AtEOF
  /\ outcome # "finished" => results = ByPresence(results)

LEMMA EndInit == Init => EndInv
BY DEF Init, Verdicts!Init, EndInv, ByPresence

(* An observation adds no verdict by absence. *)
LEMMA ObserveShows ==
  ASSUME NEW m, NEW at, Verdicts!Observe(<<m>>, at), results = ByPresence(results)
  PROVE  results' = ByPresence(results')
<1>1. ASSUME NEW r \in Verdicts!ShownVerdicts(heard \o <<m>>, at)
      PROVE  r.passed <=> r.assertion \in Required
  <2>1. CASE \E a \in Required : r = Verdicts!Verdict(a, TRUE, at)
    <3>1. PICK a \in Required : r.assertion = a /\ r.passed = TRUE
      BY <2>1 DEF Verdicts!Verdict
    <3> QED
      BY <3>1
  <2>2. CASE \E a \in Forbidden : r = Verdicts!Verdict(a, FALSE, at)
    <3>1. PICK a \in Forbidden : r.assertion = a /\ r.passed = FALSE
      BY <2>2 DEF Verdicts!Verdict
    <3>2. a \notin Required
      BY CaptureAssumption
    <3> QED
      BY <3>1, <3>2
  <2> QED
    BY <2>1, <2>2 DEF Verdicts!ShownVerdicts
<1> QED
  BY <1>1 DEF Verdicts!Observe, ByPresence

LEMMA EndStep == TypeOK /\ TypeOK' /\ FlowInv /\ EndInv /\ [Next]_vars => EndInv'
<1> SUFFICES ASSUME TypeOK, TypeOK', FlowInv, EndInv, [Next]_vars PROVE EndInv'
  OBVIOUS
<1> USE DEF EndInv, AtDeadline, AtEOF, ByPresence
<1>0. now \in Nat /\ Duration \in Nat
  BY CaptureAssumption DEF TypeOK
<1>1. CASE Tick
  BY <1>0, <1>1 DEF Tick, deviceVars, readerVars, mainVars, InHand, InChannel
<1>2. CASE Interrupt
  BY <1>2 DEF Interrupt, deviceVars, readerVars, mainVars, InHand, InChannel
<1>3. CASE Expire
  BY <1>3 DEF Expire, deviceVars, readerVars, mainVars, InHand, InChannel
<1>4. CASE DeviceSends
  BY <1>4 DEF DeviceSends, ctxVars, readerVars, mainVars, InHand, InChannel
<1>5. CASE DeviceEnds
  BY <1>5 DEF DeviceEnds, ctxVars, readerVars, mainVars, InHand, InChannel
<1>6. CASE ReaderTakes
  <2>1. UNCHANGED <<link, sent, ctxVars, mainVars, events>> /\ taken < Len(sent)
    BY <1>6 DEF ReaderTakes, deviceVars
  <2>2. ~(events # <<>> /\ Head(events).err = "eof")
    <3> SUFFICES ASSUME events # <<>>, Head(events).err = "eof" PROVE FALSE
      OBVIOUS
    <3>1. Len(heard) = Len(sent) /\ Len(heard) + InChannel + InHand <= taken
      BY DEF FlowInv
    <3>2. taken < Len(sent)
      BY <2>1
    <3> QED
      BY <3>1, <3>2, Counts
  <2>3. heldErr' = "eof" => link' = "eof" /\ taken' = Len(sent')
    BY <1>6, <2>1, Counts DEF ReaderTakes
  <2> QED
    BY <2>1, <2>2, <2>3 DEF ctxVars, mainVars
<1>7. CASE ReaderFails
  BY <1>7 DEF ReaderFails, deviceVars, ctxVars, mainVars, InHand, InChannel
<1>8. CASE ReaderSendsData
  <2>1. Head(events').err = "none"
    BY <1>8 DEF TypeOK, ReaderSendsData
  <2> QED
    BY <1>8, <2>1 DEF ReaderSendsData, deviceVars, ctxVars, mainVars
<1>9. CASE ReaderSendsError
  <2>1. events = <<>> /\ Head(events') = [data |-> <<>>, err |-> heldErr]
    BY <1>9 DEF TypeOK, ReaderSendsError
  <2>2. held = <<>> /\ held' = <<>>
    BY <1>9 DEF ReaderSendsError, FlowInv
  <2>3. InChannel = 0 /\ InHand = 0 /\ InChannel' = 0 /\ InHand' = 0
    BY <2>1, <2>2 DEF InChannel, InHand
  <2>4. Len(heard) = taken
    BY <1>9, <2>3, Counts DEF ReaderSendsError, FlowInv
  <2> QED
    BY <1>9, <2>1, <2>3, <2>4 DEF ReaderSendsError, deviceVars, ctxVars, mainVars
<1>10. CASE ReaderGivesUp
  BY <1>10 DEF ReaderGivesUp, deviceVars, ctxVars, mainVars, InHand, InChannel
<1>11. CASE MainTakesDone
  BY <1>11 DEF MainTakesDone, deviceVars, ctxVars, readerVars, InHand, InChannel
<1>12. CASE MainDecides
  <2>1. heard' = heard /\ InHand' = InHand /\ InChannel' = InChannel
    BY <1>12 DEF MainDecides, Verdicts!Finish, deviceVars, readerVars, InHand, InChannel
  <2>2. CASE interrupted
    BY <1>12, <2>1, <2>2 DEF MainDecides, Return, deviceVars, readerVars
  <2>3. CASE ~interrupted
    <3>1. captureDone = "deadline"
      BY <1>12, <2>3 DEF TypeOK, MainDecides
    <3> QED
      BY <1>12, <2>1, <2>3, <3>1 DEF MainDecides, Return, deviceVars, readerVars
  <2> QED
    BY <2>2, <2>3
<1>13. CASE MainTakesData
  <2>1. events' = <<>>
    BY <1>13, Counts DEF MainTakesData
  <2>2. outcome # "finished" /\ outcome' # "finished"
    BY <1>13 DEF MainTakesData
  <2>3. results' = ByPresence(results')
    BY <1>13, <2>2, ObserveShows DEF MainTakesData
  <2> QED
    BY <1>13, <2>1, <2>2, <2>3 DEF MainTakesData, deviceVars, readerVars, ctxVars
<1>14. CASE MainTakesError
  <2>1. heard' = heard /\ events' = <<>>
    BY <1>14, Counts DEF MainTakesError, Verdicts!Finish
  <2> QED
    BY <1>14, <2>1 DEF MainTakesError, Return, deviceVars, readerVars
<1>15. CASE UNCHANGED vars
  BY <1>15 DEF vars, deviceVars, readerVars, mainVars, ctxVars, InHand, InChannel
<1> QED
  BY <1>1, <1>2, <1>3, <1>4, <1>5, <1>6, <1>7, <1>8, <1>9, <1>10, <1>11, <1>12, <1>13,
     <1>14, <1>15 DEF Next, Reader, Main, Returned

(* A value is reported absent only when the whole window was heard, or the *)
(* port's output to its very end (case Done with its ctx.Err() check, case *)
(* event.err of captureSerial).                                            *)
THEOREM AbsenceIsFinal == Spec => []AbsenceNeedsWholeWindow
<1>1. EndInv => AbsenceNeedsWholeWindow
  BY DEF EndInv, AbsenceNeedsWholeWindow, AtDeadline, AtEOF, ByPresence
<1> QED
  BY <1>1, FlowInit, FlowStep, EndInit, EndStep, TypeCorrect, PTL DEF Spec

-----------------------------------------------------------------------------
(* Verdicts.  JudgedInv is the inductive invariant: an assertion that has  *)
(* no verdict yet has not been decided by anything heard, and a verdict    *)
(* stays true because a verdict by absence is given only when nothing is   *)
(* heard any more (EndInv).                                                *)

\* the piece of `text` at i shows a required value by its deadline
InTime(a, m) == a \in Shown[m.chunk] /\ m.at <= Within[a]

Met(a, text) == \E i \in DOMAIN text : InTime(a, text[i])

Right(r, text) ==
  IF r.assertion \in Required THEN r.passed <=> Met(r.assertion, text)
  ELSE r.passed <=> ~ShowsIn(r.assertion, text)

JudgedInv ==
  /\ \A i \in DOMAIN heard : heard[i].at <= now
  /\ \A a \in Required : Verdicts!Undecided(a) => ~Met(a, heard)
  /\ \A a \in Forbidden : Verdicts!Undecided(a) => ~ShowsIn(a, heard)
  /\ \A r \in results : Right(r, heard)
  /\ outcome = "finished" => \A a \in Assertion : ~Verdicts!Undecided(a)

LEMMA JudgedInit == Init => JudgedInv
<1> SUFFICES ASSUME Init PROVE JudgedInv
  OBVIOUS
<1>1. heard = <<>> /\ results = {} /\ outcome = "none"
  BY DEF Init, Verdicts!Init
<1>2. \A i \in DOMAIN heard : FALSE
  BY <1>1
<1> QED
  BY <1>1, <1>2 DEF JudgedInv, Met, ShowsIn

\* steps that neither hear nor judge
LEMMA JudgedFrame ==
  ASSUME TypeOK, JudgedInv, now' \in Nat, now <= now', UNCHANGED <<heard, results>>,
         outcome' = outcome \/ outcome' # "finished"
  PROVE  JudgedInv'
<1>1. \A i \in DOMAIN heard : heard[i].at \in Nat
  <2>1. \A i \in 1..Len(heard) : heard[i] \in Message
    BY ElementOfSeq DEF TypeOK
  <2> QED
    BY <2>1, Counts DEF Message
<1>2. \A i \in DOMAIN heard' : heard'[i].at <= now'
  BY <1>1, Counts DEF JudgedInv
<1>3. \A r : Right(r, heard)' = Right(r, heard)
  BY DEF Right, Met, InTime, ShowsIn
<1> QED
  BY <1>2, <1>3 DEF JudgedInv, Met, InTime, ShowsIn, Verdicts!Undecided

(* What the text gains by one observation. *)
LEMMA TextGrows ==
  ASSUME TypeOK, NEW m \in Message, Verdicts!Observe(<<m>>, m.at)
  PROVE  /\ heard' = heard \o <<m>>
         /\ DOMAIN heard' = 1..(Len(heard) + 1) /\ DOMAIN heard = 1..Len(heard)
         /\ \A i \in DOMAIN heard : i \in DOMAIN heard' /\ heard'[i] = heard[i]
         /\ heard'[Len(heard) + 1] = m /\ Len(heard) + 1 \in DOMAIN heard'
         /\ \A i \in DOMAIN heard' : i \in DOMAIN heard \/ i = Len(heard) + 1
<1>1. heard' = heard \o <<m>> /\ heard \in Seq(Message)
  BY DEF Verdicts!Observe, TypeOK
<1> QED
  BY <1>1

(* One observation keeps every verdict right and decides what it shows. *)
LEMMA ObserveJudges ==
  ASSUME TypeOK, JudgedInv, results = ByPresence(results),
         NEW m \in Message, m.at = now, now' = now, outcome' = outcome, outcome # "finished",
         Verdicts!Observe(<<m>>, m.at)
  PROVE  JudgedInv'
<1> DEFINE new == Verdicts!ShownVerdicts(heard \o <<m>>, m.at)
<1>1. heard' = heard \o <<m>> /\ results' = results \cup new
  BY DEF Verdicts!Observe
<1>2. now \in Nat /\ \A a \in Required : Within[a] \in Nat
  BY CaptureAssumption, Counts
<1>3. \A i \in DOMAIN heard' : heard'[i].at <= now'
  BY <1>2, TextGrows DEF JudgedInv
<1>4. \A i \in DOMAIN heard' : heard'[i].at \in Nat
  <2>1. heard' \in Seq(Message)
    BY <1>1 DEF TypeOK
  <2>2. \A i \in 1..Len(heard') : heard'[i] \in Message
    BY <2>1, ElementOfSeq
  <2> QED
    BY <2>1, <2>2 DEF Message
<1>5. ASSUME NEW a, Met(a, heard) PROVE Met(a, heard')
  BY <1>5, TextGrows DEF Met
<1>6. ASSUME NEW a, ShowsIn(a, heard) PROVE ShowsIn(a, heard')
  BY <1>6, TextGrows DEF ShowsIn
<1>7. ASSUME NEW a \in Required, Verdicts!Undecided(a)'
      PROVE  ~Met(a, heard')
  <2>1. Verdicts!Undecided(a)
    BY <1>1, <1>7 DEF Verdicts!Undecided
  <2>2. ~Met(a, heard)
    BY <2>1 DEF JudgedInv
  <2>3. ~InTime(a, m)
    <3> SUFFICES ASSUME InTime(a, m) PROVE FALSE
      OBVIOUS
    <3>1. m.at <= Within[a] /\ ShowsIn(a, heard \o <<m>>)
      BY <1>1, TextGrows DEF InTime, ShowsIn
    <3>2. Verdicts!Verdict(a, TRUE, m.at) \in new
      BY <2>1, <3>1 DEF Verdicts!ShownVerdicts
    <3>3. Verdicts!Verdict(a, TRUE, m.at).assertion = a
      BY DEF Verdicts!Verdict
    <3> QED
      BY <1>1, <1>7, <3>2, <3>3 DEF Verdicts!Undecided
  <2> QED
    BY <2>2, <2>3, TextGrows DEF Met
<1>8. ASSUME NEW a \in Forbidden, Verdicts!Undecided(a)'
      PROVE  ~ShowsIn(a, heard')
  <2> SUFFICES ASSUME ShowsIn(a, heard') PROVE FALSE
    OBVIOUS
  <2>1. Verdicts!Undecided(a)
    BY <1>1, <1>8 DEF Verdicts!Undecided
  <2>2. Verdicts!Verdict(a, FALSE, m.at) \in new
    BY <1>1, <2>1 DEF Verdicts!ShownVerdicts
  <2>3. Verdicts!Verdict(a, FALSE, m.at).assertion = a
    BY DEF Verdicts!Verdict
  <2> QED
    BY <1>1, <1>8, <2>2, <2>3 DEF Verdicts!Undecided
<1>9. ASSUME NEW r \in results PROVE Right(r, heard')
  <2>1. Right(r, heard) /\ (r.passed <=> r.assertion \in Required)
    BY DEF JudgedInv, ByPresence
  <2>2. CASE r.assertion \in Required
    BY <1>5, <2>1, <2>2 DEF Right
  <2>3. CASE r.assertion \notin Required
    BY <1>6, <2>1, <2>3 DEF Right
  <2> QED
    BY <2>2, <2>3
<1>10. ASSUME NEW r \in new PROVE Right(r, heard')
  <2>1. CASE \E a \in Required : /\ m.at <= Within[a] /\ ShowsIn(a, heard')
                                 /\ r = Verdicts!Verdict(a, TRUE, m.at)
    <3>1. PICK a \in Required : /\ m.at <= Within[a] /\ ShowsIn(a, heard')
                                /\ r = Verdicts!Verdict(a, TRUE, m.at)
      BY <2>1
    <3>2. PICK i \in DOMAIN heard' : a \in Shown[heard'[i].chunk]
      BY <3>1 DEF ShowsIn
    <3>3. heard'[i].at <= Within[a]
      BY <1>2, <1>3, <1>4, <3>1, <3>2
    <3>4. Met(a, heard')
      BY <3>2, <3>3 DEF Met, InTime
    <3>5. r.assertion = a /\ r.passed = TRUE
      BY <3>1 DEF Verdicts!Verdict
    <3> QED
      BY <3>4, <3>5 DEF Right
  <2>2. CASE \E a \in Forbidden : ShowsIn(a, heard') /\ r = Verdicts!Verdict(a, FALSE, m.at)
    <3>1. PICK a \in Forbidden : ShowsIn(a, heard') /\ r = Verdicts!Verdict(a, FALSE, m.at)
      BY <2>2
    <3>2. r.assertion = a /\ r.passed = FALSE /\ a \notin Required
      BY <3>1, CaptureAssumption DEF Verdicts!Verdict
    <3> QED
      BY <3>1, <3>2 DEF Right
  <2> QED
    BY <1>1, <2>1, <2>2 DEF Verdicts!ShownVerdicts
<1> QED
  BY <1>1, <1>3, <1>7, <1>8, <1>9, <1>10 DEF JudgedInv

(* The end of the window decides what is left, by absence. *)
LEMMA FinishJudges ==
  ASSUME TypeOK, JudgedInv, NEW at, Verdicts!Finish(at), now' = now
  PROVE  JudgedInv'
<1>1. heard' = heard /\ results' = results \cup Verdicts!AbsentVerdicts(at)
  BY DEF Verdicts!Finish
<1>2. ASSUME NEW a \in Assertion PROVE ~Verdicts!Undecided(a)'
  <2>1. CASE ~Verdicts!Undecided(a)
    BY <1>1, <2>1 DEF Verdicts!Undecided
  <2>2. CASE Verdicts!Undecided(a) /\ a \in Required
    <3>1. Verdicts!Verdict(a, FALSE, Within[a]) \in results'
      BY <1>1, <2>2 DEF Verdicts!AbsentVerdicts
    <3>2. Verdicts!Verdict(a, FALSE, Within[a]).assertion = a
      BY DEF Verdicts!Verdict
    <3> QED
      BY <3>1, <3>2 DEF Verdicts!Undecided
  <2>3. CASE Verdicts!Undecided(a) /\ a \in Forbidden
    <3>1. Verdicts!Verdict(a, TRUE, at) \in results'
      BY <1>1, <2>3 DEF Verdicts!AbsentVerdicts
    <3>2. Verdicts!Verdict(a, TRUE, at).assertion = a
      BY DEF Verdicts!Verdict
    <3> QED
      BY <3>1, <3>2 DEF Verdicts!Undecided
  <2> QED
    BY <2>1, <2>2, <2>3 DEF Assertion
<1>3. ASSUME NEW r \in Verdicts!AbsentVerdicts(at) PROVE Right(r, heard)
  <2>1. CASE \E a \in Required : Verdicts!Undecided(a) /\ r = Verdicts!Verdict(a, FALSE, Within[a])
    <3>1. PICK a \in Required : Verdicts!Undecided(a) /\ r = Verdicts!Verdict(a, FALSE, Within[a])
      BY <2>1
    <3>2. r.assertion = a /\ r.passed = FALSE
      BY <3>1 DEF Verdicts!Verdict
    <3>3. ~Met(a, heard)
      BY <3>1 DEF JudgedInv
    <3> QED
      BY <3>2, <3>3 DEF Right
  <2>2. CASE \E a \in Forbidden : Verdicts!Undecided(a) /\ r = Verdicts!Verdict(a, TRUE, at)
    <3>1. PICK a \in Forbidden : Verdicts!Undecided(a) /\ r = Verdicts!Verdict(a, TRUE, at)
      BY <2>2
    <3>2. r.assertion = a /\ r.passed = TRUE /\ a \notin Required
      BY <3>1, CaptureAssumption DEF Verdicts!Verdict
    <3>3. ~ShowsIn(a, heard)
      BY <3>1 DEF JudgedInv
    <3> QED
      BY <3>2, <3>3 DEF Right
  <2> QED
    BY <2>1, <2>2 DEF Verdicts!AbsentVerdicts
<1>4. \A r \in results' : Right(r, heard')
  BY <1>1, <1>3 DEF JudgedInv
<1>5. \A i \in DOMAIN heard' : heard'[i].at <= now'
  BY <1>1 DEF JudgedInv
<1> QED
  BY <1>2, <1>4, <1>5 DEF JudgedInv, Assertion

LEMMA JudgedStep ==
  TypeOK /\ TypeOK' /\ FlowInv /\ EndInv /\ JudgedInv /\ [Next]_vars => JudgedInv'
<1> SUFFICES ASSUME TypeOK, TypeOK', FlowInv, EndInv, JudgedInv, [Next]_vars PROVE JudgedInv'
  OBVIOUS
<1>0. now \in Nat /\ now' \in Nat
  BY DEF TypeOK
<1>1. CASE Tick
  BY <1>0, <1>1, JudgedFrame DEF Tick, mainVars
<1>2. CASE Interrupt \/ Expire
  BY <1>0, <1>2, JudgedFrame DEF Interrupt, Expire, mainVars
<1>3. CASE DeviceSends \/ DeviceEnds
  BY <1>0, <1>3, JudgedFrame DEF DeviceSends, DeviceEnds, ctxVars, mainVars
<1>4. CASE Reader
  <2>1. UNCHANGED <<ctxVars, mainVars>>
    BY <1>4 DEF Reader, ReaderTakes, ReaderFails, ReaderSendsData, ReaderSendsError, ReaderGivesUp
  <2> QED
    BY <1>0, <2>1, JudgedFrame DEF ctxVars, mainVars
<1>5. CASE MainTakesDone
  BY <1>0, <1>5, JudgedFrame DEF MainTakesDone, ctxVars
<1>6. CASE MainDecides
  <2>1. now' = now
    BY <1>6 DEF MainDecides
  <2>2. CASE interrupted
    <3>1. UNCHANGED <<heard, results>> /\ outcome' # "finished"
      BY <1>6, <2>2 DEF MainDecides, Return
    <3> QED
      BY <1>0, <2>1, <3>1, JudgedFrame
  <2>3. CASE ~interrupted
    <3>1. Verdicts!Finish(now)
      BY <1>6, <2>3 DEF MainDecides
    <3> QED
      BY <2>1, <3>1, FinishJudges
  <2> QED
    BY <2>2, <2>3
<1>7. CASE MainTakesData
  <2>1. PICK m : m = [chunk |-> Head(events).data[1].chunk, at |-> now]
    OBVIOUS
  <2>2. m \in Message /\ m.at = now
    BY <1>7, <2>1, Counts DEF TypeOK, MainTakesData, Event, AtMostOne, Message
  <2>3. Verdicts!Observe(<<m>>, m.at)
    BY <1>7, <2>1, <2>2 DEF MainTakesData
  <2>4. now' = now /\ outcome' = outcome
    BY <1>7 DEF MainTakesData, ctxVars
  <2>5. outcome # "finished"
    BY <1>7 DEF MainTakesData, EndInv
  <2>6. results = ByPresence(results)
    BY <2>5 DEF EndInv
  <2> QED
    BY <2>2, <2>3, <2>4, <2>5, <2>6, ObserveJudges
<1>8. CASE MainTakesError
  <2>1. now' = now
    BY <1>8 DEF MainTakesError
  <2>2. CASE Head(events).err = "eof"
    <3>1. Verdicts!Finish(now)
      BY <1>8, <2>2 DEF MainTakesError
    <3> QED
      BY <2>1, <3>1, FinishJudges
  <2>3. CASE Head(events).err # "eof"
    <3>1. UNCHANGED <<heard, results>> /\ outcome' # "finished"
      BY <1>8, <2>3 DEF MainTakesError, Return
    <3> QED
      BY <1>0, <2>1, <3>1, JudgedFrame
  <2> QED
    BY <2>2, <2>3
<1>9. CASE UNCHANGED vars
  BY <1>0, <1>9, JudgedFrame DEF vars, mainVars, ctxVars
<1> QED
  BY <1>1, <1>2, <1>3, <1>4, <1>5, <1>6, <1>7, <1>8, <1>9 DEF Next, Main, Returned

(* A required value in time was sent in time, too: it is not heard before  *)
(* it is sent.                                                             *)
LEMMA MetMeansSent ==
  ASSUME TypeOK, HeardInOrder, NEW a \in Required
  PROVE  Met(a, heard) <=> \E i \in DOMAIN heard : /\ a \in Shown[heard[i].chunk]
                                                   /\ sent[i].at <= Within[a]
                                                   /\ heard[i].at <= Within[a]
<1>1. ASSUME NEW i \in DOMAIN heard, heard[i].at <= Within[a] PROVE sent[i].at <= Within[a]
  <2>1. heard[i] \in Message /\ i \in DOMAIN sent
    BY Counts, ElementOfSeq DEF TypeOK, HeardInOrder
  <2>2. heard[i].at \in Nat /\ sent[i].at \in Nat /\ Within[a] \in Nat
    BY <2>1, Counts, CaptureAssumption DEF Message
  <2>3. heard[i].at >= sent[i].at
    BY DEF HeardInOrder
  <2> QED
    BY <1>1, <2>2, <2>3
<1> QED
  BY <1>1 DEF Met, InTime

LEMMA JudgedVerdicts == TypeOK /\ HeardInOrder /\ JudgedInv => VerdictsMatchHeard
<1> SUFFICES ASSUME TypeOK, HeardInOrder, JudgedInv PROVE VerdictsMatchHeard
  OBVIOUS
<1>1. ASSUME NEW r \in results
      PROVE  IF r.assertion \in Required
             THEN r.passed <=> \E i \in DOMAIN heard : /\ r.assertion \in Shown[heard[i].chunk]
                                                       /\ sent[i].at <= Within[r.assertion]
                                                       /\ heard[i].at <= Within[r.assertion]
             ELSE r.passed <=> ~ShowsIn(r.assertion, heard)
  <2>1. Right(r, heard)
    BY DEF JudgedInv
  <2> QED
    BY <2>1, MetMeansSent DEF Right
<1>2. outcome = "finished" => \A a \in Assertion : \E r \in results : r.assertion = a
  BY DEF JudgedInv, Verdicts!Undecided
<1> QED
  BY <1>1, <1>2 DEF VerdictsMatchHeard

(* Every verdict matches what was heard: a required value passes exactly   *)
(* if it was sent and heard by its deadline, a forbidden one exactly if    *)
(* nothing heard shows it, and a finished monitor has judged all           *)
(* (captureSerial, evaluator.Observe, evaluator.Finish).                   *)
THEOREM VerdictsAreRight == Spec => []VerdictsMatchHeard
  BY JudgedVerdicts, FlowInit, FlowStep, EndInit, EndStep, JudgedInit, JudgedStep, TypeCorrect,
     HearsInOrder, PTL DEF Spec
=============================================================================
