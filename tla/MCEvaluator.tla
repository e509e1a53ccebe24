---------------------------- MODULE MCEvaluator -----------------------------
(***************************************************************************)
(* Instances of Evaluator for TLC.  Bytes are one-character strings: "p"   *)
(* and "n" are letters, "P" is upper case, "_" is a space, "L" and "C" are *)
(* the halves of a two-byte rune and "?" is noise.                         *)
(***************************************************************************)
EXTENDS Evaluator

MCLowerByte == [b \in Byte |-> IF b = "P" THEN "p" ELSE b]

\* the rune "LC" is lowered to one byte, the letter "p"
MCResized == [b \in Lead \cup Cont |-> IF b \in Lead THEN <<"p">> ELSE <<>>]

ReadsUpTo(n) == UNION {[1..k -> Byte] : k \in 1..n}
ReadsUpTo2 == ReadsUpTo(2)
ReadsUpTo3 == ReadsUpTo(3)

SerialContains(value, within) ==
  [type |-> "serial_contains", value |-> value, within |-> within, caseSensitive |-> TRUE]

SerialNotContains(value, sensitive) ==
  [type |-> "serial_not_contains", value |-> value, within |-> 0, caseSensitive |-> sensitive]

\* a boot banner that must be printed in time, a crash word in any case
TextSpecs == <<SerialContains(<<"p", "n">>, 1), SerialNotContains(<<"n", "p">>, FALSE)>>

\* a rune that must be printed, a word that must not
NoiseSpecs == <<SerialContains(<<"L", "C">>, 1), SerialNotContains(<<"p", "p">>, FALSE)>>

\* exact case, so that only the buffer can lose the word
TrimSpecs == <<SerialNotContains(<<"p", "p">>, TRUE)>>

\* any case, so that the text is folded
FoldSpecs == <<SerialNotContains(<<"p">>, FALSE)>>

\* no value of these instances can be mistaken for the U+FFFD of a stray byte
ASSUME ValuesArePlain == \A i \in Index : PlainValue(i)
=============================================================================
