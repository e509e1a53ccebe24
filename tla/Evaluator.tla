----------------------------- MODULE Evaluator ------------------------------
(***************************************************************************)
(* internal/assertion: the evaluator of serial assertions.  It sees the    *)
(* serial text one read at a time, remembers only the last MaxBytes bytes  *)
(* of it, and gives each assertion one verdict.  One action per method:    *)
(* Observe and Finish; NewEvaluator is Init.                               *)
(***************************************************************************)
EXTENDS Text

CONSTANTS
  Specs,              \* the assertions: a sequence of assertion.Spec
  RequestedMaxBytes,  \* argument of NewEvaluator (1024*1024 in the runner)
  DefaultMaxBytes,    \* used when the argument is not positive
  Context,            \* bytes of evidence kept around a match (80)
  Chunk,              \* the reads the evaluator may be given
  MaxHeard,           \* bound: bytes observed in all
  MaxTime             \* bound: last instant, counted from startedAt

Type == {"serial_contains", "serial_not_contains"}

Index == DOMAIN Specs

Required  == {i \in Index : Specs[i].type = "serial_contains"}
Forbidden == {i \in Index : Specs[i].type = "serial_not_contains"}

ASSUME SpecAssumption ==
  /\ Specs \in Seq([type: Type, value: Bytes, within: Nat, caseSensitive: BOOLEAN])
  /\ \A i \in Index : Specs[i].value # <<>>
  /\ Chunk \subseteq Bytes \ {<<>>}
  /\ {RequestedMaxBytes, DefaultMaxBytes} \subseteq Int
  /\ DefaultMaxBytes > 0
  /\ {Context, MaxHeard, MaxTime} \subseteq Nat

LongestValue == Max({0} \cup {Len(Specs[i].value) : i \in Index})

\* the size of the buffer as NewEvaluator settles it
MaxBytes ==
  LET requested == IF RequestedMaxBytes <= 0 THEN DefaultMaxBytes ELSE RequestedMaxBytes
  IN  IF requested < 2 * LongestValue THEN 2 * LongestValue ELSE requested

(* captureSerial reads at most 4096 bytes at a time and asks for 1 MiB, so *)
(* a value that a read completes always ends well inside the buffer.       *)
ASSUME ChunkAssumption == \A c \in Chunk : Len(c) + LongestValue - 1 <= MaxBytes

VARIABLES
  buffer,    \* Evaluator.buffer
  done,      \* Evaluator.done
  results,   \* Evaluator.results, as a set
  now,       \* instant of the last call, since startedAt
  status,    \* "open", "finished", or "panicked" (a slice out of range)
  heard      \* history: every byte observed

vars == <<buffer, done, results, now, status, heard>>

TypeOK ==
  /\ buffer \in Bytes /\ Len(buffer) <= MaxBytes
  /\ done \in [Index -> BOOLEAN]
  /\ results \subseteq [index: Index, passed: BOOLEAN, duration: Nat, evidence: Bytes]
  /\ now \in 0..MaxTime
  /\ status \in {"open", "finished", "panicked"}
  /\ heard \in Bytes

Init ==
  /\ buffer = <<>>
  /\ done = [i \in Index |-> FALSE]
  /\ results = {}
  /\ now = 0
  /\ status = "open"
  /\ heard = <<>>

-----------------------------------------------------------------------------
(* Helpers of Observe *)

\* contains(): both sides are lowered when the assertion ignores case
Fold(i, text) == IF Specs[i].caseSensitive THEN text ELSE ToLower(text)

Found(i, text) == Occurs(Fold(i, text), Fold(i, Specs[i].value))

(* Seeded faults: the buffer cut one byte short, and never cut. *)
Remember_OneShort(text) ==
  IF Len(text) > MaxBytes THEN Drop(text, Len(text) - MaxBytes + 1) ELSE text

Remember_Everything(text) == text

(* The buffer after a read: at most MaxBytes bytes and, once bytes have    *)
(* been cut off, no stray byte either - every byte up to the last stray    *)
(* one is dropped with it.                                                 *)
Remember(text) ==
  IF Len(text) <= MaxBytes THEN text
  ELSE LET cut == Drop(text, Len(text) - MaxBytes)
           n == CHOOSE k \in 0..Len(cut) :
                  /\ ValidString(Drop(cut, k))
                  /\ \A j \in 0..(k - 1) : ~ValidString(Drop(cut, j))
       IN  Drop(cut, n)

(* Seeded fault: the length of the value left out of the window. *)
EvidenceWindow_AtMatch(i, text) ==
  LET at == IndexOf(Fold(i, text), Fold(i, Specs[i].value))
  IN  [from |-> IF at < Context THEN 0 ELSE at - Context,
       to   |-> Min({Len(text), at + Context})]

(* The window of bytes kept as evidence, as offsets [from, to) into text.  *)
(* The match is located in the FOLDED text, the window is cut from the     *)
(* text itself.                                                            *)
EvidenceWindow(i, text) ==
  LET at == IndexOf(Fold(i, text), Fold(i, Specs[i].value))
  IN  [from |-> IF at < Context THEN 0 ELSE at - Context,
       to   |-> Min({Len(text), at + Len(Specs[i].value) + Context})]

\* haystack[start:end] panics when start > end
EvidencePanics(i, text) ==
  LET w == EvidenceWindow(i, text) IN w.from > w.to

SnippetAround(i, text) ==
  LET w == EvidenceWindow(i, text) IN TrimSpace(SubSeq(text, w.from + 1, w.to))

(* Seeded faults: the deadline ignored, a decided assertion judged again. *)
Hits_NoDeadline(text, at) == {i \in Index : ~done[i] /\ Found(i, text)}

Hits_NotDone(text, at) ==
  {i \in Index : (i \in Required => at <= Specs[i].within) /\ Found(i, text)}

\* the assertions that the loop of Observe completes
Hits(text, at) ==
  {i \in Index : /\ ~done[i]
                 /\ i \in Required => at <= Specs[i].within
                 /\ Found(i, text)}

-----------------------------------------------------------------------------
(* Actions *)

Observe(chunk, at) ==
  LET text == Remember(buffer \o chunk)
      hits == Hits(text, at)
      \* the loop runs in index order and stops at the first slice that panics
      completed == {i \in hits : \A j \in hits : EvidencePanics(j, text) => i < j}
  IN
  /\ status = "open"
  /\ Len(heard \o chunk) <= MaxHeard
  /\ buffer' = text
  /\ heard' = heard \o chunk
  /\ now' = at
  /\ done' = [i \in Index |-> done[i] \/ i \in completed]
  /\ results' = results \cup
       {[index |-> i, passed |-> i \in Required, duration |-> at,
         evidence |-> SnippetAround(i, text)] : i \in completed}
  /\ status' = IF completed = hits THEN "open" ELSE "panicked"

Finish(at) ==
  /\ status = "open"
  /\ now' = at
  /\ done' = [i \in Index |-> TRUE]
  /\ results' = results \cup
       {[index |-> i, passed |-> i \in Forbidden,
         duration |-> IF i \in Required THEN Specs[i].within ELSE at,
         evidence |-> <<>>] : i \in {j \in Index : ~done[j]}}
  /\ status' = "finished"
  /\ UNCHANGED <<buffer, heard>>

(* The evaluator is dropped once its run has finished or panicked. *)
Dropped ==
  /\ status # "open"
  /\ UNCHANGED vars

Next ==
  \/ \E at \in now..MaxTime : (\E chunk \in Chunk : Observe(chunk, at)) \/ Finish(at)
  \/ Dropped

Spec == Init /\ [][Next]_vars

(* A value that no U+FFFD which ToLower writes can be mistaken for.        *)
(* Values are YAML strings, so UTF-8; one that holds a U+FFFD itself and   *)
(* ignores case is found wherever a byte is stray.                         *)
PlainValue(i) ==
  \/ Specs[i].caseSensitive
  \/ LET low == ToLower(Specs[i].value)
     IN  \A k \in 1..Len(low) : low[k] \notin {"ef", "bf", "bd"}

-----------------------------------------------------------------------------
(* Properties *)

(* Refinement of SerialVerdicts: whatever the reads and however much the   *)
(* buffer has forgotten, the verdicts are those the whole text decides     *)
(* (Observe, Finish).                                                      *)
Contract ==
  INSTANCE SerialVerdicts WITH
    Within  <- [i \in Required |-> Specs[i].within],
    Piece   <- Chunk,
    Time    <- 0..MaxTime,
    Shows   <- Found,
    results <- {[assertion |-> r.index, passed |-> r.passed, at |-> r.duration] : r \in results}

ImplementsContract == Contract!Spec

(* No assertion is reported twice, and the ones reported are exactly those *)
(* marked done (complete(), the `if e.done[i] continue` of both loops).    *)
OneResultPerAssertion ==
  /\ \A r, s \in results : r.index = s.index => r = s
  /\ \A i \in Index : done[i] <=> \E r \in results : r.index = i

(* A verdict that a match decided is backed by the text: the value was     *)
(* heard, and a serial_contains pass was observed before its deadline -    *)
(* whatever bytes the trimming threw away.                                 *)
VerdictsAreWitnessed ==
  \A r \in results :
    r.passed = (r.index \in Required) =>
      /\ Found(r.index, heard)
      /\ r.index \in Required => r.duration <= Specs[r.index].within

(* The evidence of an observed verdict shows the value it is evidence for  *)
(* (snippetAround; docs/troubleshooting.md:102).                           *)
EvidenceShowsValue ==
  \A r \in results :
    r.passed = (r.index \in Required) =>
      Occurs(Fold(r.index, r.evidence), TrimSpace(Fold(r.index, Specs[r.index].value)))

(* docs/architecture.md:38: "serial_not_contains fails immediately when    *)
(* its exact string appears" - once a forbidden value has been observed,   *)
(* the report holds its failure.                                           *)
ForbiddenTextFails ==
  \A i \in Forbidden :
    Found(i, heard) => \E r \in results : r.index = i /\ ~r.passed
=============================================================================
