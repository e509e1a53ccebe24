------------------------------ MODULE Capture -------------------------------
(***************************************************************************)
(* internal/runner, captureSerial: two goroutines, a channel of capacity   *)
(* one and two contexts.  The reader goroutine reads the serial port and   *)
(* passes each read on through `events`; the main goroutine selects        *)
(* between the events and the end of captureCtx, writes serial.log and     *)
(* feeds the assertion evaluator (module SerialVerdicts).                  *)
(*                                                                         *)
(* One action per select branch and per return of Read.  Instants count    *)
(* from the start of the monitor.                                          *)
(***************************************************************************)
EXTENDS Naturals, Sequences

CONSTANTS
  Required,     \* the serial_contains assertions
  Forbidden,    \* the serial_not_contains assertions
  Within,       \* the deadline of each required assertion
  Chunk,        \* the texts one read may return
  Shown,        \* the assertions whose value each chunk shows
  Duration,     \* step.MonitorDuration
  DiskMayFill,  \* whether a write to serial.log may fail
  MaxSent,      \* bound: chunks the device sends
  MaxTime       \* bound: last instant

ASSUME CaptureAssumption ==
  /\ Required \cap Forbidden = {}
  /\ Within \in [Required -> Nat]
  /\ Shown \in [Chunk -> SUBSET (Required \cup Forbidden)]
  /\ Duration \in Nat /\ MaxTime \in Nat /\ MaxSent \in Nat
  /\ Duration <= MaxTime
  /\ DiskMayFill \in BOOLEAN

VARIABLES
  now,           \* Clock.Now()
  interrupted,   \* the caller's ctx has been canceled (SIGINT, SIGTERM)
  captureDone,   \* captureCtx: "open", "deadline" or "canceled"
  link,          \* the port: "up", or ended by "eof" or by an "error"
  sent,          \* history: what the device sent, and when
  taken,         \* how many of them Read has returned
  takenInWindow, \* history: how many before captureCtx was done
  streamClosed,  \* stream.Close() was called
  readerPc,      \* "read"; blocked sending "data" or "error"; "exited"
  held,          \* the chunk the reader wants to send: <<>> or <<m>>
  heldErr,       \* the error Read returned with it
  events,        \* the channel of readEvents
  mainPc,        \* "select", "deciding" (after Done) or "returned"
  outcome,       \* "none", then "finished", "canceled" or "failed"
  heard,         \* what the evaluator was given, with its time stamp
  log,           \* serial.log
  results        \* verdicts of the evaluator

deviceVars == <<link, sent>>
readerVars == <<taken, takenInWindow, readerPc, held, heldErr>>
mainVars   == <<mainPc, outcome, streamClosed, heard, log, results>>
ctxVars    == <<now, interrupted, captureDone>>
vars == <<deviceVars, readerVars, mainVars, ctxVars, events>>

Assertion == Required \cup Forbidden
Message   == [chunk: Chunk, at: 0..MaxTime]
AtMostOne == {<<>>} \cup {<<m>> : m \in Message}
Event     == [data: AtMostOne, err: {"none", "eof", "error"}]

ShowsIn(a, text) == \E i \in DOMAIN text : a \in Shown[text[i].chunk]

\* evaluator.Observe and evaluator.Finish
Verdicts ==
  INSTANCE SerialVerdicts WITH
    Piece <- {<<m>> : m \in Message}, Time <- 0..MaxTime, Shows <- ShowsIn

TypeOK ==
  /\ now \in 0..MaxTime
  /\ interrupted \in BOOLEAN
  /\ captureDone \in {"open", "deadline", "canceled"}
  /\ link \in {"up", "eof", "error"}
  /\ sent \in Seq(Message)
  /\ taken \in 0..Len(sent)
  /\ takenInWindow \in 0..taken
  /\ streamClosed \in BOOLEAN
  /\ readerPc \in {"read", "data", "error", "exited"}
  /\ held \in AtMostOne
  /\ heldErr \in {"none", "eof", "error"}
  /\ events \in Seq(Event) /\ Len(events) <= 1
  /\ mainPc \in {"select", "deciding", "returned"}
  /\ outcome \in {"none", "finished", "canceled", "failed"}
  /\ heard \in Seq(Message)
  /\ log \in Seq(Message)
  /\ results \subseteq [assertion: Assertion, passed: BOOLEAN, at: Nat]

Init ==
  /\ now = 0
  /\ interrupted = FALSE
  /\ captureDone = "open"
  /\ link = "up"
  /\ sent = <<>>
  /\ taken = 0
  /\ takenInWindow = 0
  /\ streamClosed = FALSE
  /\ readerPc = "read"
  /\ held = <<>>
  /\ heldErr = "none"
  /\ events = <<>>
  /\ mainPc = "select"
  /\ outcome = "none"
  /\ log = <<>>
  /\ Verdicts!Init

-----------------------------------------------------------------------------
(* The environment: time, the caller's context, the device *)

Tick ==
  /\ now < MaxTime
  /\ now' = now + 1
  /\ UNCHANGED <<interrupted, captureDone, deviceVars, readerVars, mainVars, events>>

(* captureCtx is a child of ctx. *)
Interrupt ==
  /\ ~interrupted
  /\ interrupted' = TRUE
  /\ captureDone' = IF captureDone = "open" THEN "canceled" ELSE captureDone
  /\ UNCHANGED <<now, deviceVars, readerVars, mainVars, events>>

(* The timer of context.WithTimeout; it may fire late, never early. *)
Expire ==
  /\ captureDone = "open"
  /\ now >= Duration
  /\ captureDone' = "deadline"
  /\ UNCHANGED <<now, interrupted, deviceVars, readerVars, mainVars, events>>

DeviceSends ==
  /\ link = "up"
  /\ Len(sent) < MaxSent
  /\ \E c \in Chunk : sent' = Append(sent, [chunk |-> c, at |-> now])
  /\ UNCHANGED <<link, ctxVars, readerVars, mainVars, events>>

DeviceEnds ==
  /\ link = "up"
  /\ link' \in {"eof", "error"}
  /\ UNCHANGED <<sent, ctxVars, readerVars, mainVars, events>>

-----------------------------------------------------------------------------
(* The reader goroutine *)

(* Read returns n > 0 bytes, with the port's error if they are the last. *)
ReaderTakes ==
  /\ readerPc = "read"
  /\ ~streamClosed
  /\ taken < Len(sent)
  /\ held' = <<sent[taken + 1]>>
  /\ heldErr' \in {"none"} \cup (IF link # "up" /\ taken + 1 = Len(sent) THEN {link} ELSE {})
  /\ taken' = taken + 1
  /\ takenInWindow' = IF captureDone = "open" THEN taken + 1 ELSE takenInWindow
  /\ readerPc' = "data"
  /\ UNCHANGED <<deviceVars, mainVars, ctxVars, events>>

(* Read returns no byte and an error: the stream was closed under it, or   *)
(* the port has ended and is drained.                                      *)
ReaderFails ==
  /\ readerPc = "read"
  /\ \/ streamClosed /\ heldErr' = "error"
     \/ ~streamClosed /\ link # "up" /\ taken = Len(sent) /\ heldErr' = link
  /\ readerPc' = "error"
  /\ UNCHANGED <<taken, takenInWindow, held, deviceVars, mainVars, ctxVars, events>>

(* Seeded fault: a channel that never blocks the sender. *)
ReaderSendsData_Unbounded ==
  /\ readerPc = "data"
  /\ events' = Append(events, [data |-> held, err |-> "none"])
  /\ held' = <<>>
  /\ readerPc' = IF heldErr = "none" THEN "read" ELSE "error"
  /\ UNCHANGED <<taken, takenInWindow, heldErr, deviceVars, mainVars, ctxVars>>

\* case events <- readEvent{data: chunk}
ReaderSendsData ==
  /\ readerPc = "data"
  /\ Len(events) < 1
  /\ events' = Append(events, [data |-> held, err |-> "none"])
  /\ held' = <<>>
  /\ readerPc' = IF heldErr = "none" THEN "read" ELSE "error"
  /\ UNCHANGED <<taken, takenInWindow, heldErr, deviceVars, mainVars, ctxVars>>

\* case events <- readEvent{err: err}
ReaderSendsError ==
  /\ readerPc = "error"
  /\ Len(events) < 1
  /\ events' = Append(events, [data |-> <<>>, err |-> heldErr])
  /\ readerPc' = "exited"
  /\ UNCHANGED <<taken, takenInWindow, held, heldErr, deviceVars, mainVars, ctxVars>>

(* Seeded faults: leaving only the select, so that the reader reads on;    *)
(* a send of data that does not watch captureCtx.                          *)
ReaderGivesUp_ReadsOn ==
  /\ readerPc \in {"data", "error"}
  /\ captureDone # "open"
  /\ readerPc' = IF readerPc = "data" THEN "read" ELSE "exited"
  /\ held' = <<>>
  /\ UNCHANGED <<taken, takenInWindow, heldErr, deviceVars, mainVars, ctxVars, events>>

ReaderGivesUp_ErrorOnly ==
  /\ readerPc = "error"
  /\ captureDone # "open"
  /\ readerPc' = "exited"
  /\ UNCHANGED <<taken, takenInWindow, held, heldErr, deviceVars, mainVars, ctxVars, events>>

\* case <-captureCtx.Done(): the chunk in hand is dropped
ReaderGivesUp ==
  /\ readerPc \in {"data", "error"}
  /\ captureDone # "open"
  /\ readerPc' = "exited"
  /\ held' = <<>>
  /\ UNCHANGED <<taken, takenInWindow, heldErr, deviceVars, mainVars, ctxVars, events>>

Reader ==
  ReaderTakes \/ ReaderFails \/ ReaderSendsData \/ ReaderSendsError \/ ReaderGivesUp

-----------------------------------------------------------------------------
(* The main goroutine *)

(* captureSerial returns: its deferred cancel ends captureCtx and the      *)
(* deferred Close of runMonitor closes the stream.                         *)
Return(o) ==
  /\ mainPc' = "returned"
  /\ outcome' = o
  /\ streamClosed' = TRUE
  /\ captureDone' = IF captureDone = "open" THEN "canceled" ELSE captureDone

(* Seeded fault: the loop goes on after Done. *)
MainTakesDone_NoReturn ==
  /\ mainPc = "select"
  /\ captureDone # "open"
  /\ streamClosed' = TRUE
  /\ UNCHANGED <<mainPc, outcome, heard, log, results, deviceVars, readerVars, ctxVars, events>>

\* case <-captureCtx.Done(): the stream is closed to unblock the reader
MainTakesDone ==
  /\ mainPc = "select"
  /\ captureDone # "open"
  /\ streamClosed' = TRUE
  /\ mainPc' = "deciding"
  /\ UNCHANGED <<outcome, heard, log, results, deviceVars, readerVars, ctxVars, events>>

(* After Done: an interrupted run is not judged, a whole window is. *)
MainDecides ==
  /\ mainPc = "deciding"
  /\ IF interrupted
     THEN UNCHANGED <<heard, results>> /\ Return("canceled")
     ELSE Verdicts!Finish(now) /\ Return("finished")
  /\ UNCHANGED <<now, interrupted, log, deviceVars, readerVars, events>>

(* Seeded fault: chunks are stamped with the start of the monitor. *)
MainTakesData_StaleStamp ==
  /\ mainPc = "select"
  /\ events # <<>> /\ Head(events).data # <<>>
  /\ LET m == [chunk |-> Head(events).data[1].chunk, at |-> 0]
     IN  Verdicts!Observe(<<m>>, 0) /\ log' = Append(log, m)
  /\ events' = Tail(events)
  /\ UNCHANGED <<mainPc, outcome, streamClosed, deviceVars, readerVars, ctxVars>>

(* A chunk is stamped when main takes it, not when it was read; a failed   *)
(* write to serial.log is ignored.                                         *)
MainTakesData ==
  /\ mainPc = "select"
  /\ events # <<>> /\ Head(events).data # <<>>
  /\ LET m == [chunk |-> Head(events).data[1].chunk, at |-> now]
     IN  /\ Verdicts!Observe(<<m>>, now)
         /\ \/ log' = Append(log, m)
            \/ DiskMayFill /\ log' = log
  /\ events' = Tail(events)
  /\ UNCHANGED <<mainPc, outcome, streamClosed, deviceVars, readerVars, ctxVars>>

(* Seeded fault: every read error counts as the end of the stream. *)
MainTakesError_AnyIsEOF ==
  /\ mainPc = "select"
  /\ events # <<>> /\ Head(events).err # "none"
  /\ Verdicts!Finish(now) /\ Return("finished")
  /\ events' = Tail(events)
  /\ UNCHANGED <<now, interrupted, log, deviceVars, readerVars>>

(* io.EOF ends the window early and every assertion is judged; any other   *)
(* error is a serial failure.                                              *)
MainTakesError ==
  /\ mainPc = "select"
  /\ events # <<>> /\ Head(events).err # "none"
  /\ IF Head(events).err = "eof"
     THEN Verdicts!Finish(now) /\ Return("finished")
     ELSE UNCHANGED <<heard, results>> /\ Return("failed")
  /\ events' = Tail(events)
  /\ UNCHANGED <<now, interrupted, log, deviceVars, readerVars>>

Main == MainTakesDone \/ MainDecides \/ MainTakesData \/ MainTakesError

\* the run goes on when the monitor has returned
Returned ==
  /\ mainPc = "returned"
  /\ UNCHANGED vars

Next ==
  \/ Tick \/ Interrupt \/ Expire
  \/ DeviceSends \/ DeviceEnds
  \/ Reader
  \/ Main
  \/ Returned

Spec == Init /\ [][Next]_vars

(* Time passes, the timer fires, and the Go scheduler runs every goroutine *)
(* that is not blocked.  Nothing makes the device send, or the user        *)
(* interrupt.                                                              *)
Fairness == WF_vars(Tick) /\ WF_vars(Expire) /\ WF_vars(Reader) /\ WF_vars(Main)

FairSpec == Spec /\ Fairness

-----------------------------------------------------------------------------
(* Properties *)

(* What the evaluator hears is the device's output from its first chunk    *)
(* on, in order and without a gap, none of it before it was sent: neither  *)
(* goroutine loses, repeats or reorders a chunk before the end             *)
(* (reader loop, `events`, case event).                                    *)
HeardInOrder ==
  /\ Len(heard) <= Len(sent)
  /\ \A i \in DOMAIN heard : /\ heard[i].chunk = sent[i].chunk
                             /\ heard[i].at >= sent[i].at

(* Pass and failure are backed by what was heard: a required value passes  *)
(* only if the device SENT it by its deadline, and fails only if nothing   *)
(* heard by the deadline shows it; a forbidden value passes only if        *)
(* nothing heard shows it.  A finished monitor has judged every assertion  *)
(* (case event, evaluator.Finish).                                         *)
VerdictsMatchHeard ==
  /\ \A r \in results :
       IF r.assertion \in Required
       THEN r.passed <=> \E i \in DOMAIN heard : /\ r.assertion \in Shown[heard[i].chunk]
                                                 /\ sent[i].at <= Within[r.assertion]
                                                 /\ heard[i].at <= Within[r.assertion]
       ELSE r.passed <=> ~ShowsIn(r.assertion, heard)
  /\ outcome = "finished" => \A a \in Assertion : \E r \in results : r.assertion = a

(* A verdict by absence - a required value missing, a forbidden one never  *)
(* seen - is given only at the end of the whole window or when the port's  *)
(* output was heard to its very end; never by an interrupted or failed     *)
(* monitor (case Done with its ctx.Err() check, case event.err).           *)
AbsenceNeedsWholeWindow ==
  (\E r \in results : ~(r.passed <=> r.assertion \in Required)) =>
     /\ outcome = "finished"
     /\ \/ captureDone = "deadline" /\ now >= Duration
        \/ link = "eof" /\ Len(heard) = Len(sent)

(* The monitor returns, whatever the device, the user and the reader do,   *)
(* and then the reader goroutine exits: it is never left blocked on the    *)
(* channel or in Read (select with Done, stream.Close).                    *)
MonitorReturns == <>(mainPc = "returned")
ReaderExits == mainPc = "returned" ~> readerPc = "exited"

(* docs/test-format.md:124: serial_not_contains "Fails if the configured   *)
(* string appears at any point during the monitor period" - a forbidden    *)
(* chunk that was READ within the window fails its assertion.              *)
ForbiddenInWindowFails ==
  outcome = "finished" =>
    \A a \in Forbidden :
      (\E i \in 1..takenInWindow : a \in Shown[sent[i].chunk]) =>
        \E r \in results : r.assertion = a /\ ~r.passed

(* docs/troubleshooting.md:94: "The full timestamped serial capture is     *)
(* stored in" serial.log - a monitor that ends without an error has logged *)
(* everything the evaluator judged.                                        *)
LogIsComplete == outcome = "finished" => log = heard
=============================================================================
