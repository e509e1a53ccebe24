-------------------------------- MODULE Text --------------------------------
(***************************************************************************)
(* The text operations of the Go standard library that package assertion   *)
(* calls, on sequences of bytes.  Bytes are abstract: a few ASCII letters  *)
(* (with their lower case), the two halves of a two-byte rune, whose lower *)
(* case may have another length, and Noise, the bytes that no UTF-8 text   *)
(* contains (an ESP32 boot ROM printing at another baud rate).             *)
(***************************************************************************)
EXTENDS Naturals, Integers, Sequences, SequencesExt

CONSTANTS
  Byte,        \* the bytes told apart
  LowerByte,   \* ASCII lower case of each byte (the byte itself if it has none)
  Lead, Cont,  \* first and second byte of a two-byte rune
  Resized,     \* what is written for each byte of a rune whose lower case
               \* has another length (U+0130, two bytes, becomes "i")
  Noise,       \* bytes that are invalid wherever they stand
  Space        \* white space

Bytes == Seq(Byte)

ASSUME ByteAssumption ==
  /\ LowerByte \in [Byte -> Byte]
  /\ Lead \cup Cont \cup Noise \cup Space \subseteq Byte
  /\ Lead \cap Cont = {}
  /\ DOMAIN Resized \subseteq Lead \cup Cont
  /\ \A b \in DOMAIN Resized : Resized[b] \in Bytes
  /\ \A b \in Space : LowerByte[b] \in Space

Drop(s, n) == SubSeq(s, n + 1, Len(s))

(* Positions of s that are not part of any valid rune. *)
Stray(s) ==
  {i \in 1..Len(s) :
     \/ s[i] \in Noise
     \/ s[i] \in Lead /\ (i = Len(s) \/ s[i + 1] \notin Cont)
     \/ s[i] \in Cont /\ (i = 1 \/ s[i - 1] \notin Lead)}

\* utf8.ValidString
ValidString(s) == Stray(s) = {}

(* U+FFFD: the three bytes that strings.ToLower writes for each stray byte *)
(* (strings.Map decodes it as RuneError of width one and encodes it).      *)
RuneError == <<"ef", "bf", "bd">>

\* what the lower case of a rune has in the place of byte b
Lowered(b) == IF b \in DOMAIN Resized THEN Resized[b] ELSE <<LowerByte[b]>>

\* strings.ToLower
ToLower(s) ==
  FlattenSeq([i \in 1..Len(s) |-> IF i \in Stray(s) THEN RuneError ELSE Lowered(s[i])])

OccursAt(h, n, i) == SubSeq(h, i + 1, i + Len(n)) = n

\* the byte offsets at which n starts in h, counted from 0
Offsets(h, n) == {i \in 0..(Len(h) - Len(n)) : OccursAt(h, n, i)}

\* strings.Contains
Occurs(h, n) == Offsets(h, n) # {}

\* strings.Index, for a needle that occurs
IndexOf(h, n) == CHOOSE i \in Offsets(h, n) : \A j \in Offsets(h, n) : i <= j

\* strings.TrimSpace
TrimSpace(s) ==
  LET solid == {i \in 1..Len(s) : s[i] \notin Space}
  IN  IF solid = {} THEN <<>> ELSE SubSeq(s, Min(solid), Max(solid))
=============================================================================
