-------------------------- MODULE EvaluatorProofs ---------------------------
(***************************************************************************)
(* Theorems about Evaluator, for every alphabet, every list of assertions, *)
(* every size of the buffer and every way of cutting the text into reads.  *)
(*                                                                         *)
(* They rest on facts about the text operations.  What a recursive         *)
(* definition computes (FlattenSeq in ToLower) is shown by induction in    *)
(* the form of SetInduction, which speaks of a set of numbers instead of a *)
(* predicate.                                                              *)
(***************************************************************************)
EXTENDS Evaluator, SequenceTheorems, WellFoundedInduction, TLAPS

-----------------------------------------------------------------------------
(* Natural numbers *)

LEMMA LeastNat ==
  ASSUME NEW T, T \subseteq Nat, T # {}
  PROVE  \E x \in T : \A y \in T : x <= y
<1>1. PICK x \in T : \A y \in T : ~ (<<y, x>> \in OpToRel(<, Nat))
  BY NatLessThanWellFounded, WFMin
<1>2. \A y \in T : ~(y < x)
  BY <1>1 DEF OpToRel
<1> QED
  BY <1>2

LEMMA SetInduction ==
  ASSUME NEW S, 0 \in S, \A n \in Nat : n \in S => n + 1 \in S
  PROVE  \A n \in Nat : n \in S
<1> SUFFICES ASSUME NEW n \in Nat, n \notin S PROVE FALSE
  OBVIOUS
<1>1. PICK m \in Nat \ S : \A y \in Nat \ S : m <= y
  BY LeastNat
<1>2. m # 0 /\ m - 1 \in Nat
  BY <1>1
<1>3. m - 1 \in S
  BY <1>1, <1>2
<1>4. (m - 1) + 1 \in S
  BY <1>2, <1>3
<1> QED
  BY <1>1, <1>4

LEMMA MinIs ==
  ASSUME NEW S, S \subseteq Nat, S # {}
  PROVE  Min(S) \in S /\ \A y \in S : Min(S) <= y
BY LeastNat DEF Min

LEMMA MaxIs ==
  ASSUME NEW S, S \subseteq Nat, S # {}, NEW bound \in Nat, \A x \in S : x <= bound
  PROVE  Max(S) \in S /\ \A y \in S : Max(S) >= y
<1>1. PICK d \in {bound - x : x \in S} : \A e \in {bound - x : x \in S} : d <= e
  <2>1. {bound - x : x \in S} \subseteq Nat
    OBVIOUS
  <2> QED
    BY <2>1, LeastNat
<1>2. PICK x \in S : d = bound - x
  BY <1>1
<1>3. \A y \in S : x >= y
  BY <1>1, <1>2
<1> QED
  BY <1>3 DEF Max

LEMMA MinOfTwo ==
  ASSUME NEW a \in Nat, NEW b \in Nat
  PROVE  Min({a, b}) = IF a <= b THEN a ELSE b
<1>1. Min({a, b}) \in {a, b} /\ \A y \in {a, b} : Min({a, b}) <= y
  BY MinIs
<1> QED
  BY <1>1

-----------------------------------------------------------------------------
(* The assertions and the size of the buffer *)

LEMMA SpecFacts ==
  /\ Index = 1..Len(Specs) /\ Len(Specs) \in Nat
  /\ \A i \in Index : /\ Specs[i].type \in Type /\ Specs[i].within \in Nat
                      /\ Specs[i].value \in Bytes /\ Len(Specs[i].value) \in Nat
                      /\ Len(Specs[i].value) > 0
                      /\ Specs[i].caseSensitive \in BOOLEAN
<1>1. Specs \in Seq([type: Type, value: Bytes, within: Nat, caseSensitive: BOOLEAN])
  BY SpecAssumption
<1>2. Index = 1..Len(Specs) /\ Len(Specs) \in Nat
  BY <1>1 DEF Index
<1>3. ASSUME NEW i \in Index
      PROVE  Specs[i] \in [type: Type, value: Bytes, within: Nat, caseSensitive: BOOLEAN]
  BY <1>1, <1>2, ElementOfSeq
<1>4. ASSUME NEW i \in Index PROVE Len(Specs[i].value) \in Nat \ {0}
  <2>1. Specs[i].value \in Seq(Byte) /\ Specs[i].value # <<>>
    BY <1>3, SpecAssumption DEF Bytes
  <2> QED
    BY <2>1, EmptySeq
<1> QED
  BY <1>2, <1>3, <1>4

LEMMA LongestValueIs ==
  /\ LongestValue \in Nat
  /\ \A i \in Index : Len(Specs[i].value) <= LongestValue
<1> DEFINE lengths == {0} \cup {Len(Specs[i].value) : i \in Index}
           bounded == {n \in Nat : \E b \in Nat : \A i \in Index : i <= n => Len(Specs[i].value) <= b}
<1>1. 0 \in bounded
  BY SpecFacts
<1>2. ASSUME NEW n \in Nat, n \in bounded PROVE n + 1 \in bounded
  <2>1. PICK b \in Nat : \A i \in Index : i <= n => Len(Specs[i].value) <= b
    BY <1>2
  <2>2. CASE n + 1 \in Index
    <3> DEFINE l == Len(Specs[n + 1].value)
               c == b + l
    <3>1. l \in Nat /\ c \in Nat
      BY <2>2, SpecFacts
    <3>2. ASSUME NEW i \in Index, i <= n + 1 PROVE Len(Specs[i].value) <= c
      <4>1. Len(Specs[i].value) \in Nat /\ i \in Nat
        BY SpecFacts
      <4>2. CASE i <= n
        BY <2>1, <3>1, <4>1, <4>2
      <4>3. CASE i = n + 1
        BY <3>1, <4>3
      <4> QED
        BY <3>2, <4>1, <4>2, <4>3
    <3> QED
      BY <3>1, <3>2
  <2>3. CASE n + 1 \notin Index
    <3>1. \A i \in Index : i <= n + 1 => i <= n
      BY <2>3, SpecFacts
    <3> QED
      BY <2>1, <3>1
  <2> QED
    BY <2>2, <2>3
<1>3. \A n \in Nat : n \in bounded
  <2> HIDE DEF bounded
  <2> QED
    BY <1>1, <1>2, SetInduction
<1>4. PICK b \in Nat : \A i \in Index : i <= Len(Specs) => Len(Specs[i].value) <= b
  BY <1>3, SpecFacts
<1>5. lengths \subseteq Nat /\ lengths # {} /\ \A x \in lengths : x <= b
  BY <1>4, SpecFacts
<1>6. LongestValue \in lengths /\ \A y \in lengths : LongestValue >= y
  BY <1>5, MaxIs DEF LongestValue
<1> QED
  BY <1>5, <1>6

LEMMA MaxBytesIs == MaxBytes \in Nat /\ MaxBytes > 0 /\ 2 * LongestValue <= MaxBytes
<1> DEFINE requested == IF RequestedMaxBytes <= 0 THEN DefaultMaxBytes ELSE RequestedMaxBytes
<1>1. RequestedMaxBytes \in Int /\ DefaultMaxBytes \in Int /\ DefaultMaxBytes > 0
  BY SpecAssumption
<1>2. requested \in Nat /\ requested > 0
  BY <1>1
<1>3. MaxBytes = IF requested < 2 * LongestValue THEN 2 * LongestValue ELSE requested
  BY DEF MaxBytes
<1> HIDE DEF requested
<1> QED
  BY <1>2, <1>3, LongestValueIs

-----------------------------------------------------------------------------
(* Cutting and trimming *)

LEMMA SubSeqIs ==
  ASSUME NEW s \in Bytes, NEW m \in Nat \ {0}, NEW n \in Nat, n <= Len(s)
  PROVE  /\ SubSeq(s, m, n) \in Bytes
         /\ Len(SubSeq(s, m, n)) = IF m <= n THEN n - m + 1 ELSE 0
         /\ \A i \in 1..(n - m + 1) : SubSeq(s, m, n)[i] = s[m + i - 1]
<1>1. \A i \in m..n : s[i] \in Byte
  BY ElementOfSeq DEF Bytes
<1> QED
  BY <1>1, SubSeqProperties DEF Bytes

LEMMA DropIs ==
  ASSUME NEW s \in Bytes, NEW n \in 0..Len(s)
  PROVE  /\ Drop(s, n) \in Bytes /\ Len(Drop(s, n)) = Len(s) - n
         /\ \A i \in 1..(Len(s) - n) : Drop(s, n)[i] = s[n + i]
<1>1. Len(s) \in Nat /\ n + 1 \in Nat \ {0}
  BY DEF Bytes
<1> QED
  BY <1>1, SubSeqIs DEF Drop

LEMMA DropNone == ASSUME NEW s \in Bytes PROVE Drop(s, 0) = s
BY SubSeqFull DEF Drop, Bytes

LEMMA DropTwice ==
  ASSUME NEW s \in Bytes, NEW m \in 0..Len(s), NEW n \in 0..(Len(s) - m)
  PROVE  Drop(Drop(s, m), n) = Drop(s, m + n)
<1>1. Len(s) \in Nat /\ m + n \in 0..Len(s)
  BY DEF Bytes
<1>2. Drop(s, m) \in Bytes /\ Len(Drop(s, m)) = Len(s) - m
  BY DropIs
<1>3. /\ Drop(Drop(s, m), n) \in Bytes /\ Len(Drop(Drop(s, m), n)) = Len(s) - m - n
      /\ \A i \in 1..(Len(s) - m - n) : Drop(Drop(s, m), n)[i] = Drop(s, m)[n + i]
  BY <1>2, DropIs
<1>4. /\ Drop(s, m + n) \in Bytes /\ Len(Drop(s, m + n)) = Len(s) - (m + n)
      /\ \A i \in 1..(Len(s) - (m + n)) : Drop(s, m + n)[i] = s[m + n + i]
  BY <1>1, DropIs
<1>5. \A i \in 1..(Len(s) - m - n) : Drop(Drop(s, m), n)[i] = Drop(s, m + n)[i]
  BY <1>1, <1>3, <1>4, DropIs
<1> QED
  BY <1>1, <1>3, <1>4, <1>5, SeqEqual DEF Bytes

(* What Remember keeps is the end of the text, not longer than the buffer, *)
(* and all of a text that fits.                                            *)
LEMMA RememberDrops ==
  ASSUME NEW text \in Bytes
  PROVE  \E n \in 0..Len(text) :
           /\ Remember(text) = Drop(text, n)
           /\ Len(text) - n <= MaxBytes
           /\ Len(text) <= MaxBytes => n = 0
           /\ Len(text) > MaxBytes => ValidString(Remember(text))
<1>1. Len(text) \in Nat /\ MaxBytes \in Nat
  BY MaxBytesIs DEF Bytes
<1>2. CASE Len(text) <= MaxBytes
  BY <1>1, <1>2, DropNone DEF Remember
<1>3. CASE Len(text) > MaxBytes
  <2> DEFINE over == Len(text) - MaxBytes
             cut  == Drop(text, over)
             good == {k \in 0..Len(cut) : ValidString(Drop(cut, k))}
  <2>1. over \in 0..Len(text) /\ Len(text) - over = MaxBytes
    BY <1>1, <1>3, MaxBytesIs
  <2> HIDE DEF over
  <2>2. cut \in Bytes /\ Len(cut) = MaxBytes
    BY <2>1, DropIs
  <2> HIDE DEF cut
  <2>3. Len(cut) \in good
    <3>1. Len(cut) \in 0..Len(cut) /\ Len(cut) - Len(cut) = 0
      BY <1>1, <2>2
    <3>2. Len(Drop(cut, Len(cut))) = 0
      BY <2>2, <3>1, DropIs
    <3>3. Stray(Drop(cut, Len(cut))) = {}
      BY <3>2 DEF Stray
    <3> QED
      BY <3>1, <3>3 DEF ValidString
  <2>4. good \subseteq Nat
    BY <1>1, <2>2
  <2>5. PICK k \in good : \A j \in good : k <= j
    BY <2>3, <2>4, LeastNat
  <2> DEFINE n == CHOOSE j \in 0..Len(cut) :
                    /\ ValidString(Drop(cut, j))
                    /\ \A l \in 0..(j - 1) : ~ValidString(Drop(cut, l))
  <2>6. \A l \in 0..(k - 1) : ~ValidString(Drop(cut, l))
    <3> SUFFICES ASSUME NEW l \in 0..(k - 1), ValidString(Drop(cut, l)) PROVE FALSE
      OBVIOUS
    <3>1. k \in 0..MaxBytes /\ l \in 0..Len(cut)
      BY <1>1, <2>2, <2>5
    <3>2. l \in good
      BY <3>1
    <3> QED
      BY <1>1, <2>5, <3>1, <3>2
  <2>7. n \in 0..Len(cut) /\ ValidString(Drop(cut, n))
    BY <2>5, <2>6
  <2>8. Remember(text) = Drop(cut, n)
    BY <1>1, <1>3 DEF Remember, cut, over
  <2> HIDE DEF n, good
  <2>9. n \in 0..(Len(text) - over)
    BY <2>1, <2>2, <2>7
  <2>10. Drop(cut, n) = Drop(text, over + n)
    BY <2>1, <2>9, DropTwice DEF cut
  <2>11. /\ over + n \in 0..Len(text) /\ Len(text) - (over + n) <= MaxBytes
         /\ ~(Len(text) <= MaxBytes)
    BY <1>1, <1>3, <2>1, <2>9
  <2>12. Remember(text) = Drop(text, over + n) /\ ValidString(Remember(text))
    BY <2>7, <2>8, <2>10
  <2> QED
    BY <2>11, <2>12
<1> QED
  BY <1>1, <1>2, <1>3

LEMMA TrimSpaceIs ==
  ASSUME NEW s \in Bytes, NEW solid, solid = {i \in 1..Len(s) : s[i] \notin Space}
  PROVE  /\ TrimSpace(s) \in Bytes
         /\ solid = {} => TrimSpace(s) = <<>>
         /\ solid # {} =>
              /\ TrimSpace(s) = SubSeq(s, Min(solid), Max(solid))
              /\ Min(solid) \in solid /\ Max(solid) \in solid
              /\ \A i \in solid : Min(solid) <= i /\ i <= Max(solid)
<1>1. Len(s) \in Nat /\ solid \subseteq Nat /\ \A x \in solid : x <= Len(s)
  BY DEF Bytes
<1>2. TrimSpace(s) = IF solid = {} THEN <<>> ELSE SubSeq(s, Min(solid), Max(solid))
  BY DEF TrimSpace
<1>3. CASE solid = {}
  BY <1>2, <1>3 DEF Bytes
<1>4. CASE solid # {}
  <2>1. /\ Min(solid) \in solid /\ Max(solid) \in solid
        /\ \A i \in solid : Min(solid) <= i /\ Max(solid) >= i
    BY <1>1, <1>4, MinIs, MaxIs
  <2>2. SubSeq(s, Min(solid), Max(solid)) \in Bytes
    BY <1>1, <2>1, SubSeqIs
  <2> QED
    BY <1>1, <1>2, <1>4, <2>1, <2>2
<1> QED
  BY <1>3, <1>4

-----------------------------------------------------------------------------
(* Lower case *)

\* what a folded text is made of
Folded == Byte \cup {"ef", "bf", "bd"}

(* g lists the partial concatenations of seqs: g[0] = <<>>, g[1] = seqs[1] *)
(* and so on, each of them a prefix of the later ones.                     *)
Partials(g, seqs) ==
  /\ g[0] = <<>>
  /\ g[Len(seqs)] = FlattenSeq(seqs)
  /\ \A i \in 0..(Len(seqs) - 1) : g[i + 1] = g[i] \o seqs[i + 1]
  /\ \A j \in 0..Len(seqs) : \A i \in 0..j :
       /\ Len(g[i]) <= Len(g[j])
       /\ \A p \in 1..Len(g[i]) : g[j][p] = g[i][p]

(* FlattenSeq is the last of the partial concatenations. *)
LEMMA FlattenIs ==
  ASSUME NEW T, NEW seqs \in Seq(Seq(T))
  PROVE  \E g \in [0..Len(seqs) -> Seq(T)] : Partials(g, seqs)
<1> DEFINE N == Len(seqs)
           Partial(g, n) == /\ g \in [0..n -> Seq(T)] /\ g[0] = <<>>
                            /\ \A i \in 0..(n - 1) : g[i + 1] = g[i] \o seqs[i + 1]
           built == {n \in Nat : n <= N => \E g : Partial(g, n)}
<1>1. N \in Nat /\ \A i \in 1..N : seqs[i] \in Seq(T)
  BY ElementOfSeq
<1>2. 0 \in built
  <2>1. Partial([i \in 0..0 |-> <<>>], 0)
    BY EmptySeq
  <2> HIDE DEF Partial
  <2> QED
    BY <2>1
<1>3. ASSUME NEW n \in Nat, n \in built PROVE n + 1 \in built
  <2>1. ASSUME n + 1 <= N PROVE \E g : Partial(g, n + 1)
    <3>1. PICK g : Partial(g, n)
      <4> HIDE DEF Partial
      <4> QED
        BY <1>1, <1>3, <2>1
    <3> DEFINE next == g[n] \o seqs[n + 1]
               h == [i \in 0..(n + 1) |-> IF i <= n THEN g[i] ELSE next]
    <3>2. next \in Seq(T)
      BY <1>1, <2>1, <3>1, ConcatProperties
    <3> HIDE DEF next
    <3>3. h \in [0..(n + 1) -> Seq(T)]
      BY <3>1, <3>2
    <3>4. (\A i \in 0..n : h[i] = g[i]) /\ h[n + 1] = next
      OBVIOUS
    <3> HIDE DEF h
    <3>5. h[0] = <<>>
      BY <3>1, <3>4
    <3>6. ASSUME NEW i \in 0..((n + 1) - 1) PROVE h[i + 1] = h[i] \o seqs[i + 1]
      <4>1. CASE i \in 0..(n - 1)
        <5>1. h[i] = g[i] /\ h[i + 1] = g[i + 1]
          BY <3>4, <4>1
        <5>2. g[i + 1] = g[i] \o seqs[i + 1]
          BY <3>1, <4>1
        <5> QED
          BY <5>1, <5>2
      <4>2. CASE i = n
        <5>1. h[n] = g[n]
          BY <3>4
        <5> QED
          BY <3>4, <4>2, <5>1 DEF next
      <4>3. i \in 0..(n - 1) \/ i = n
        OBVIOUS
      <4> QED
        BY <4>1, <4>2, <4>3
    <3>7. Partial(h, n + 1)
      BY <3>3, <3>5, <3>6
    <3> HIDE DEF Partial
    <3> QED
      BY <3>7
  <2> HIDE DEF Partial
  <2> QED
    BY <2>1
<1>4. PICK g : Partial(g, N)
  <2> HIDE DEF built, Partial
  <2>1. \A n \in Nat : n \in built
    BY <1>2, <1>3, SetInduction
  <2>2. N \in built
    BY <1>1, <2>1
  <2> QED
    BY <1>1, <2>2 DEF built
<1>5. \A j \in 0..N : \A i \in 0..j :
        Len(g[i]) <= Len(g[j]) /\ \A p \in 1..Len(g[i]) : g[j][p] = g[i][p]
  <2> DEFINE IsPrefixOf(i, j) == Len(g[i]) <= Len(g[j]) /\ \A p \in 1..Len(g[i]) : g[j][p] = g[i][p]
             good == {j \in Nat : j <= N => \A i \in 0..j : IsPrefixOf(i, j)}
  <2>1. \A j \in 0..N : g[j] \in Seq(T) /\ Len(g[j]) \in Nat
    BY <1>4, LenProperties
  <2>2. 0 \in good
    BY <1>1, <2>1
  <2>3. ASSUME NEW j \in Nat, j \in good PROVE j + 1 \in good
    <3> SUFFICES ASSUME j + 1 <= N, NEW i \in 0..(j + 1) PROVE IsPrefixOf(i, j + 1)
      OBVIOUS
    <3>1. j + 1 \in 1..N /\ j \in 0..N /\ j + 1 \in 0..N
      BY <1>1
    <3>2. CASE i = j + 1
      BY <2>1, <3>1, <3>2
    <3>3. CASE i <= j
      <4>1. IsPrefixOf(i, j)
        <5> HIDE DEF IsPrefixOf
        <5> QED
          BY <1>1, <2>3, <3>3, <3>1
      <4>2. g[j + 1] = g[j] \o seqs[j + 1]
        <5>1. j \in 0..(N - 1)
          BY <1>1, <3>1
        <5> QED
          BY <1>4, <5>1
      <4>3. seqs[j + 1] \in Seq(T) /\ g[j] \in Seq(T)
        BY <1>1, <2>1, <3>1
      <4> DEFINE a == Len(g[j])
                 b == Len(seqs[j + 1])
      <4>4. a \in Nat /\ b \in Nat
        BY <4>3, LenProperties
      <4>5. /\ Len(g[j + 1]) = a + b
            /\ \A p \in 1..(a + b) :
                 g[j + 1][p] = IF p <= a THEN g[j][p] ELSE seqs[j + 1][p - a]
        <5>1. /\ Len(g[j] \o seqs[j + 1]) = a + b
              /\ \A p \in 1..(a + b) :
                   (g[j] \o seqs[j + 1])[p] = IF p <= a THEN g[j][p] ELSE seqs[j + 1][p - a]
          BY <4>3, ConcatProperties
        <5> HIDE DEF a, b
        <5> QED
          BY <4>2, <5>1
      <4>6. /\ Len(g[i]) \in Nat /\ Len(g[i]) <= a
            /\ \A p \in 1..Len(g[i]) : g[j][p] = g[i][p]
        <5>1. i \in 0..N
          BY <1>1, <3>1, <3>3
        <5> QED
          BY <2>1, <4>1, <5>1
      <4> HIDE DEF a, b
      <4>7. Len(g[i]) <= a + b /\ \A p \in 1..Len(g[i]) : p \in 1..(a + b) /\ p <= a
        BY <4>4, <4>6
      <4> QED
        BY <4>5, <4>6, <4>7
    <3> QED
      BY <3>2, <3>3
  <2> HIDE DEF good
  <2>4. \A j \in Nat : j \in good
    BY <2>2, <2>3, SetInduction
  <2> QED
    BY <1>1, <2>4 DEF good
<1>6. g[N] = FlattenSeq(seqs)
  <2>1. CASE N = 0
    <3>1. seqs = <<>>
      BY <2>1, EmptySeq
    <3> QED
      BY <1>4, <2>1, <3>1 DEF FlattenSeq
  <2>2. CASE N # 0
    <3> DEFINE Step(f) == [i \in 1..N |-> IF i = 1 THEN seqs[i] ELSE f[i - 1] \o seqs[i]]
               flatten == CHOOSE f : f = Step(f)
               h == [i \in 1..N |-> g[i]]
    <3>1. h = Step(h)
      <4>1. ASSUME NEW i \in 1..N PROVE h[i] = IF i = 1 THEN seqs[i] ELSE h[i - 1] \o seqs[i]
        <5>1. PICK k \in 0..(N - 1) : i = k + 1
          <6>1. i - 1 \in 0..(N - 1) /\ i = (i - 1) + 1
            BY <1>1
          <6> QED
            BY <6>1
        <5>2. h[i] = g[k + 1] /\ g[k + 1] = g[k] \o seqs[i] /\ seqs[i] \in Seq(T)
          BY <1>1, <1>4, <5>1
        <5>3. CASE i = 1
          <6>1. g[k] = <<>>
            BY <1>4, <5>1, <5>3
          <6> QED
            BY <5>2, <5>3, <6>1, ConcatEmptySeq
        <5>4. CASE i # 1
          <6>1. k \in 1..N /\ i - 1 = k
            BY <1>1, <5>1, <5>4
          <6>2. h[i - 1] = g[k]
            BY <6>1
          <6> QED
            BY <5>2, <5>4, <6>2
        <5> QED
          BY <5>3, <5>4
      <4> QED
        BY <4>1
    <3>2. flatten = Step(flatten)
      <4> HIDE DEF Step, h
      <4> QED
        BY <3>1
    <3>3. FlattenSeq(seqs) = flatten[N]
      BY <2>2 DEF FlattenSeq
    <3> HIDE DEF flatten
    <3> DEFINE same == {i \in Nat : i \in 1..N => flatten[i] = g[i]}
    <3>4. 0 \in same
      OBVIOUS
    <3>5. ASSUME NEW i \in Nat, i \in same PROVE i + 1 \in same
      <4> SUFFICES ASSUME i + 1 \in 1..N PROVE flatten[i + 1] = g[i + 1]
        OBVIOUS
      <4>1. flatten[i + 1] = IF i + 1 = 1 THEN seqs[i + 1] ELSE flatten[(i + 1) - 1] \o seqs[i + 1]
        BY <3>2
      <4>2. g[i + 1] = g[i] \o seqs[i + 1]
        <5>1. i \in 0..(N - 1)
          BY <1>1
        <5> QED
          BY <1>4, <5>1
      <4>3. (i + 1) - 1 = i /\ (i # 0 => i \in 1..N) /\ seqs[i + 1] \in Seq(T)
        BY <1>1
      <4>4. CASE i = 0
        <5>1. g[i + 1] = <<>> \o seqs[i + 1]
          BY <1>4, <4>2, <4>3, <4>4
        <5> QED
          BY <4>1, <4>3, <4>4, <5>1, ConcatEmptySeq
      <4>5. CASE i # 0
        <5>1. flatten[i] = g[i]
          BY <3>5, <4>3, <4>5
        <5> QED
          <6>1. i + 1 # 1
            BY <4>5
          <6>2. flatten[i + 1] = flatten[i] \o seqs[i + 1]
            BY <4>1, <4>3, <6>1
          <6> QED
            BY <4>2, <5>1, <6>2
      <4> QED
        BY <4>4, <4>5
    <3> HIDE DEF same
    <3>6. \A i \in Nat : i \in same
      BY <3>4, <3>5, SetInduction
    <3>7. flatten[N] = g[N]
      BY <1>1, <2>2, <3>6 DEF same
    <3> QED
      BY <3>3, <3>7
  <2> QED
    BY <2>1, <2>2
<1>7. g \in [0..Len(seqs) -> Seq(T)] /\ Partials(g, seqs)
  BY <1>4, <1>5, <1>6 DEF Partials
<1> QED
  BY <1>7

\* text of one-byte characters (ASCII): no byte of it is stray, nor half of a
\* rune that a read or the trimming may cut
NoiseFree == Lead \cup Cont \cup Noise = {}

LEMMA NoStray ==
  ASSUME NoiseFree, NEW s PROVE Stray(s) = {}
BY DEF NoiseFree, Stray

\* the bytes of U+FFFD
ErrorBytes == {"ef", "bf", "bd"}

\* what ToLower writes for byte i of s
Block(s, i) == IF i \in Stray(s) THEN RuneError ELSE Lowered(s[i])

LEMMA BlockIs ==
  ASSUME NEW s \in Bytes, NEW i \in 1..Len(s)
  PROVE  /\ Block(s, i) \in Seq(Folded) /\ Len(Block(s, i)) \in Nat
         /\ i \in Stray(s) => /\ Len(Block(s, i)) = 3
                              /\ \A p \in 1..3 : Block(s, i)[p] \in ErrorBytes
<1>1. s[i] \in Byte
  BY ElementOfSeq DEF Bytes
<1>2. {"ef", "bf", "bd"} \subseteq Folded /\ Byte \subseteq Folded
  BY DEF Folded
<1>3. RuneError \in Seq(Folded) /\ Len(RuneError) = 3
  BY <1>2 DEF RuneError
<1>4. \A p \in 1..3 : RuneError[p] \in ErrorBytes
  BY DEF RuneError, ErrorBytes
<1>5. Lowered(s[i]) \in Seq(Folded)
  <2>1. CASE s[i] \in DOMAIN Resized
    <3>1. Resized[s[i]] \in Bytes
      BY <2>1, ByteAssumption
    <3>2. Resized[s[i]] \in Seq(Folded)
      BY <1>2, <3>1, SeqMonotonic DEF Bytes
    <3> QED
      BY <2>1, <3>2 DEF Lowered
  <2>2. CASE s[i] \notin DOMAIN Resized
    <3>1. LowerByte[s[i]] \in Folded
      BY <1>1, <1>2, ByteAssumption
    <3> QED
      BY <2>2, <3>1 DEF Lowered
  <2> QED
    BY <2>1, <2>2
<1>6. CASE i \in Stray(s)
  <2>1. Block(s, i) = RuneError
    BY <1>6 DEF Block
  <2> QED
    BY <1>3, <1>4, <2>1
<1>7. CASE i \notin Stray(s)
  <2>1. Block(s, i) = Lowered(s[i])
    BY <1>7 DEF Block
  <2> QED
    BY <1>5, <1>7, <2>1, LenProperties
<1> QED
  BY <1>6, <1>7

(* ToLower writes one block for each byte: its share of the lower case of  *)
(* a rune, or the three bytes of U+FFFD if it is stray.  pos[i] is the     *)
(* length of the first i blocks.                                           *)
Layout(pos, s) ==
  /\ pos \in [0..Len(s) -> Nat] /\ pos[0] = 0
  /\ ToLower(s) \in Seq(Folded) /\ Len(ToLower(s)) = pos[Len(s)]
  /\ \A j \in 0..Len(s) : \A i \in 0..j : pos[i] <= pos[j]
  /\ \A i \in 0..(Len(s) - 1) :
       /\ pos[i + 1] = pos[i] + Len(Block(s, i + 1))
       /\ \A p \in 1..Len(Block(s, i + 1)) : ToLower(s)[pos[i] + p] = Block(s, i + 1)[p]

LEMMA ToLowerIs == ASSUME NEW s \in Bytes PROVE \E pos : Layout(pos, s)
<1> DEFINE N == Len(s)
           blocks == [i \in 1..N |-> Block(s, i)]
<1>1. N \in Nat
  BY DEF Bytes
<1>2. \A i \in 1..N : Block(s, i) \in Seq(Folded)
  BY BlockIs
<1>3. blocks \in Seq(Seq(Folded))
  BY <1>1, <1>2, IsASeq
<1>4. Len(blocks) = N /\ \A i \in 1..N : blocks[i] = Block(s, i)
  BY <1>1
<1>5. ToLower(s) = FlattenSeq(blocks)
  BY DEF ToLower, Block
<1> HIDE DEF blocks
<1>6. PICK g \in [0..N -> Seq(Folded)] :
        /\ g[0] = <<>>
        /\ g[N] = ToLower(s)
        /\ \A i \in 0..(N - 1) : g[i + 1] = g[i] \o blocks[i + 1]
        /\ \A j \in 0..N : \A i \in 0..j :
             /\ Len(g[i]) <= Len(g[j])
             /\ \A p \in 1..Len(g[i]) : g[j][p] = g[i][p]
  <2>1. PICK g \in [0..Len(blocks) -> Seq(Folded)] : Partials(g, blocks)
    BY <1>3, FlattenIs
  <2> HIDE DEF N
  <2> QED
    BY <1>4, <1>5, <2>1 DEF Partials
<1> DEFINE pos == [i \in 0..N |-> Len(g[i])]
<1>7. \A i \in 0..N : pos[i] = Len(g[i]) /\ g[i] \in Seq(Folded) /\ pos[i] \in Nat
  BY <1>6, LenProperties
<1>8. pos \in [0..N -> Nat]
  BY <1>7
<1> HIDE DEF pos
<1>9. pos[0] = 0
  BY <1>1, <1>6, <1>7, EmptySeq
<1>10. ToLower(s) \in Seq(Folded) /\ Len(ToLower(s)) = pos[N]
  BY <1>1, <1>6, <1>7
<1>11. \A j \in 0..N : \A i \in 0..j : pos[i] <= pos[j]
  <2> SUFFICES ASSUME NEW j \in 0..N, NEW i \in 0..j PROVE pos[i] <= pos[j]
    OBVIOUS
  <2>1. i \in 0..N
    BY <1>1
  <2> QED
    BY <1>6, <1>7, <2>1
<1>12. ASSUME NEW i \in 0..(N - 1)
       PROVE  /\ pos[i + 1] = pos[i] + Len(Block(s, i + 1))
              /\ \A p \in 1..Len(Block(s, i + 1)) : ToLower(s)[pos[i] + p] = Block(s, i + 1)[p]
  <2>1. i \in 0..N /\ i + 1 \in 1..N /\ N \in 0..N /\ i + 1 \in 0..N
    BY <1>1
  <2> DEFINE a == Len(g[i])
             block == Block(s, i + 1)
             b == Len(block)
  <2>2. g[i + 1] = g[i] \o block /\ g[i] \in Seq(Folded) /\ block \in Seq(Folded)
    BY <1>2, <1>4, <1>6, <1>7, <2>1
  <2> HIDE DEF block
  <2>3. a \in Nat /\ b \in Nat
    BY <2>2, LenProperties
  <2>4. /\ Len(g[i] \o block) = a + b
        /\ \A p \in 1..(a + b) :
             (g[i] \o block)[p] = IF p <= a THEN g[i][p] ELSE block[p - a]
    BY <2>2, ConcatProperties
  <2>5. Len(g[i + 1]) = a + b /\ pos[i] = a /\ pos[i + 1] = a + b
    <3> HIDE DEF b
    <3> QED
      BY <1>7, <2>1, <2>2, <2>4
  <2>6. \A p \in 1..(a + b) : ToLower(s)[p] = g[i + 1][p]
    <3> HIDE DEF a, b
    <3> QED
      <4>1. \A p \in 1..Len(g[i + 1]) : g[N][p] = g[i + 1][p]
        BY <1>6, <2>1
      <4>2. Len(g[i + 1]) = a + b
        BY <2>5
      <4>3. g[N] = ToLower(s)
        BY <1>6
      <4> HIDE DEF N
      <4> QED
        BY <4>1, <4>2, <4>3
  <2> HIDE DEF a, b
  <2>7. \A p \in 1..b : ToLower(s)[a + p] = block[p]
    <3> SUFFICES ASSUME NEW p \in 1..b PROVE ToLower(s)[a + p] = block[p]
      OBVIOUS
    <3>1. a + p \in 1..(a + b) /\ ~(a + p <= a) /\ (a + p) - a = p
      BY <2>3
    <3> QED
      BY <2>2, <2>4, <2>6, <3>1
  <2> QED
    BY <2>5, <2>7 DEF block, b
<1>13. Layout(pos, s)
  BY <1>8, <1>9, <1>10, <1>11, <1>12 DEF Layout
<1> QED
  BY <1>13

LEMMA ToLowerType ==
  ASSUME NEW s \in Bytes
  PROVE  ToLower(s) \in Seq(Folded) /\ Len(ToLower(s)) \in Nat
BY ToLowerIs, LenProperties DEF Layout

(* Text of one-byte characters is lowered byte by byte. *)
LEMMA LowerOfPlain ==
  ASSUME NoiseFree, NEW s \in Bytes
  PROVE  /\ Len(ToLower(s)) = Len(s)
         /\ \A k \in 1..Len(s) : ToLower(s)[k] = LowerByte[s[k]]
<1> DEFINE N == Len(s)
<1>1. N \in Nat
  BY DEF Bytes
<1>2. PICK pos : Layout(pos, s)
  BY ToLowerIs
<1>3. \A i \in 1..N : Block(s, i) = <<LowerByte[s[i]]>>
  <2>1. DOMAIN Resized = {}
    BY ByteAssumption DEF NoiseFree
  <2> QED
    BY <2>1, NoStray DEF Block, Lowered
<1>4. \A i \in 1..N : Len(Block(s, i)) = 1 /\ Block(s, i)[1] = LowerByte[s[i]]
  BY <1>3
<1>5. ASSUME NEW i \in 0..(N - 1)
      PROVE  pos[i + 1] = pos[i] + 1 /\ ToLower(s)[pos[i] + 1] = LowerByte[s[i + 1]]
  <2>1. i + 1 \in 1..N
    BY <1>1
  <2>2. /\ pos[i + 1] = pos[i] + Len(Block(s, i + 1))
        /\ \A p \in 1..Len(Block(s, i + 1)) : ToLower(s)[pos[i] + p] = Block(s, i + 1)[p]
    BY <1>2 DEF Layout
  <2>3. Len(Block(s, i + 1)) = 1 /\ Block(s, i + 1)[1] = LowerByte[s[i + 1]] /\ 1 \in 1..1
    BY <1>4, <2>1
  <2> QED
    BY <2>2, <2>3
<1> DEFINE good == {i \in Nat : i <= N => pos[i] = i}
<1>6. 0 \in good
  BY <1>2 DEF Layout
<1>7. ASSUME NEW i \in Nat, i \in good PROVE i + 1 \in good
  <2> SUFFICES ASSUME i + 1 <= N PROVE pos[i + 1] = i + 1
    OBVIOUS
  <2>1. i \in 0..(N - 1)
    BY <1>1
  <2> QED
    BY <1>1, <1>5, <1>7, <2>1
<1> HIDE DEF good
<1>8. \A i \in Nat : i \in good
  BY <1>6, <1>7, SetInduction
<1>9. \A i \in 0..N : pos[i] = i
  BY <1>1, <1>8 DEF good
<1>10. Len(ToLower(s)) = N
  BY <1>1, <1>2, <1>9 DEF Layout
<1>11. ASSUME NEW k \in 1..N PROVE ToLower(s)[k] = LowerByte[s[k]]
  <2>1. k - 1 \in 0..(N - 1) /\ k - 1 \in 0..N /\ (k - 1) + 1 = k
    BY <1>1
  <2>2. pos[k - 1] = k - 1
    BY <1>9, <2>1
  <2>3. ToLower(s)[pos[k - 1] + 1] = LowerByte[s[(k - 1) + 1]]
    BY <1>5, <2>1
  <2> QED
    BY <2>1, <2>2, <2>3
<1> QED
  BY <1>10, <1>11

(* Every byte of the lower case lies in the block of one byte of the text. *)
LEMMA BlockAt ==
  ASSUME NEW s \in Bytes, NEW pos, Layout(pos, s), NEW x \in 1..Len(ToLower(s))
  PROVE  \E i \in 0..(Len(s) - 1) : pos[i] < x /\ x <= pos[i + 1]
<1> DEFINE N == Len(s)
<1>1. N \in Nat
  BY DEF Bytes
<1>2. pos \in [0..N -> Nat] /\ pos[0] = 0 /\ Len(ToLower(s)) = pos[N]
  BY DEF Layout
<1> HIDE DEF N
<1> DEFINE reached == {i \in 0..N : x <= pos[i]}
<1>3. N \in reached /\ reached \subseteq Nat
  BY <1>1, <1>2
<1>4. PICK j \in reached : \A y \in reached : j <= y
  BY <1>3, LeastNat
<1>5. j # 0 /\ j \in 0..N /\ x <= pos[j]
  BY <1>2, <1>4
<1>6. j - 1 \in 0..(N - 1) /\ j - 1 \in 0..N /\ (j - 1) + 1 = j
  BY <1>1, <1>5
<1>7. j - 1 \notin reached
  BY <1>4, <1>5
<1>8. pos[j - 1] < x
  BY <1>2, <1>6, <1>7
<1> QED
  BY <1>5, <1>6, <1>8 DEF N

-----------------------------------------------------------------------------
(* Substrings *)

\* the bytes of n stand in h from offset o on
StandsAt(h, n, o) == \A k \in 1..Len(n) : h[o + k] = n[k]

LEMMA OffsetsAre ==
  ASSUME NEW S, NEW h \in Seq(S), NEW n \in Seq(S)
  PROVE  Offsets(h, n) = {o \in 0..(Len(h) - Len(n)) : StandsAt(h, n, o)}
<1> SUFFICES ASSUME NEW o \in 0..(Len(h) - Len(n)) PROVE OccursAt(h, n, o) <=> StandsAt(h, n, o)
  BY DEF Offsets
<1> DEFINE l == Len(n)
           sub == SubSeq(h, o + 1, o + l)
<1>1. l \in Nat /\ Len(h) \in Nat /\ o \in Nat /\ o + l <= Len(h)
  BY LenProperties
<1>2. \A i \in (o + 1)..(o + l) : h[i] \in S
  BY <1>1, ElementOfSeq
<1>3. /\ sub \in Seq(S) /\ Len(sub) = l
      /\ \A k \in 1..l : sub[k] = h[o + k]
  <2>1. /\ sub \in Seq(S)
        /\ Len(sub) = IF o + 1 <= o + l THEN (o + l) - (o + 1) + 1 ELSE 0
        /\ \A k \in 1..((o + l) - (o + 1) + 1) : sub[k] = h[(o + 1) + k - 1]
    BY <1>1, <1>2, SubSeqProperties
  <2> HIDE DEF sub, l
  <2>2. (IF o + 1 <= o + l THEN (o + l) - (o + 1) + 1 ELSE 0) = l
    BY <1>1
  <2>3. (o + l) - (o + 1) + 1 = l /\ \A k \in 1..l : (o + 1) + k - 1 = o + k
    BY <1>1
  <2> QED
    BY <2>1, <2>2, <2>3
<1>4. sub = n <=> \A k \in 1..l : sub[k] = n[k]
  <2> HIDE DEF sub
  <2> QED
    BY <1>3, SeqEqual
<1>5. OccursAt(h, n, o) <=> sub = n
  BY DEF OccursAt
<1> HIDE DEF sub
<1> QED
  BY <1>3, <1>4, <1>5 DEF StandsAt

LEMMA OccursIs ==
  ASSUME NEW S, NEW h \in Seq(S), NEW n \in Seq(S)
  PROVE  Occurs(h, n) <=> \E o \in 0..(Len(h) - Len(n)) : StandsAt(h, n, o)
BY OffsetsAre DEF Occurs

(* strings.Index is the first of the offsets. *)
LEMMA IndexOfIs ==
  ASSUME NEW S, NEW h \in Seq(S), NEW n \in Seq(S), Occurs(h, n)
  PROVE  /\ IndexOf(h, n) \in 0..(Len(h) - Len(n)) /\ IndexOf(h, n) \in Nat
         /\ StandsAt(h, n, IndexOf(h, n))
<1>1. Offsets(h, n) = {o \in 0..(Len(h) - Len(n)) : StandsAt(h, n, o)}
  BY OffsetsAre
<1>2. Offsets(h, n) \subseteq Nat /\ Offsets(h, n) # {}
  <2>1. Len(h) - Len(n) \in Int
    BY LenProperties
  <2> QED
    BY <1>1, <2>1 DEF Occurs
<1>3. \E i \in Offsets(h, n) : \A j \in Offsets(h, n) : i <= j
  BY <1>2, LeastNat
<1>4. IndexOf(h, n) \in Offsets(h, n)
  BY <1>3 DEF IndexOf
<1> QED
  BY <1>1, <1>2, <1>4

-----------------------------------------------------------------------------
(* What an assertion finds *)

LEMMA FoldType ==
  ASSUME NEW i \in Index, NEW text \in Bytes
  PROVE  /\ Fold(i, text) \in Seq(Folded)
         /\ Fold(i, Specs[i].value) \in Seq(Folded)
<1>1. Specs[i].value \in Bytes
  BY SpecFacts
<1>2. \A s \in Bytes : s \in Seq(Folded)
  BY SeqMonotonic DEF Folded, Bytes
<1> QED
  BY <1>1, <1>2, ToLowerType DEF Fold

\* folding changes no length and no white space
FoldsInPlace(i) == Specs[i].caseSensitive \/ NoiseFree

FoldByte(i, b) == IF Specs[i].caseSensitive THEN b ELSE LowerByte[b]

\* the value of assertion i stands in the text from offset o on, as the
\* assertion compares bytes when folding moves none
Stands(i, text, o) ==
  \A k \in 1..Len(Specs[i].value) :
    FoldByte(i, text[o + k]) = FoldByte(i, Specs[i].value[k])

LEMMA FoldIs ==
  ASSUME NEW i \in Index, FoldsInPlace(i), NEW s \in Bytes
  PROVE  /\ Fold(i, s) \in Bytes /\ Len(Fold(i, s)) = Len(s)
         /\ \A k \in 1..Len(s) : Fold(i, s)[k] = FoldByte(i, s[k])
<1>1. CASE Specs[i].caseSensitive
  BY <1>1 DEF Fold, FoldByte
<1>2. CASE ~Specs[i].caseSensitive
  <2> DEFINE low == ToLower(s)
             N == Len(s)
  <2>1. Fold(i, s) = low
    BY <1>2 DEF Fold
  <2>2. NoiseFree
    BY <1>2 DEF FoldsInPlace
  <2>3. Len(low) = N /\ \A k \in 1..N : low[k] = LowerByte[s[k]]
    BY <2>2, LowerOfPlain
  <2>4. \A k \in 1..N : s[k] \in Byte
    BY ElementOfSeq DEF Bytes
  <2>5. low \in Seq(Folded) /\ N \in Nat
    BY ToLowerType DEF Bytes
  <2>6. low \in [1..N -> Byte]
    <3>1. low = [k \in 1..N |-> low[k]]
      <4> HIDE DEF low, N
      <4> QED
        BY <2>3, <2>5, LenProperties
    <3>2. \A k \in 1..N : low[k] \in Byte
      <4> HIDE DEF low, N
      <4> QED
        BY <2>3, <2>4, ByteAssumption
    <3> HIDE DEF low, N
    <3> QED
      BY <3>1, <3>2
  <2>7. low \in Bytes
    <3> HIDE DEF low, N
    <3> QED
      BY <2>5, <2>6, SeqDef DEF Bytes
  <2> HIDE DEF low
  <2> QED
    BY <1>2, <2>1, <2>3, <2>7 DEF FoldByte
<1> QED
  BY <1>1, <1>2

(* A value is found in a text exactly where its bytes stand, when folding  *)
(* moves none.                                                             *)
LEMMA FoundIs ==
  ASSUME NEW i \in Index, FoldsInPlace(i), NEW text \in Bytes
  PROVE  Found(i, text) <=> \E o \in 0..(Len(text) - Len(Specs[i].value)) : Stands(i, text, o)
<1> DEFINE v == Specs[i].value
           ft == Fold(i, text)
           fv == Fold(i, v)
<1>1. v \in Bytes
  BY SpecFacts
<1>2. /\ ft \in Bytes /\ Len(ft) = Len(text)
      /\ \A k \in 1..Len(text) : ft[k] = FoldByte(i, text[k])
  BY FoldIs
<1>3. /\ fv \in Bytes /\ Len(fv) = Len(v)
      /\ \A k \in 1..Len(v) : fv[k] = FoldByte(i, v[k])
  BY <1>1, FoldIs
<1>4. Found(i, text) <=> Occurs(ft, fv)
  BY DEF Found
<1> HIDE DEF ft, fv
<1>5. Found(i, text) <=> \E o \in 0..(Len(text) - Len(v)) : StandsAt(ft, fv, o)
  <2>1. Occurs(ft, fv) <=> \E o \in 0..(Len(ft) - Len(fv)) : StandsAt(ft, fv, o)
    BY <1>2, <1>3, OccursIs DEF Bytes
  <2> QED
    BY <1>2, <1>3, <1>4, <2>1
<1>6. ASSUME NEW o \in 0..(Len(text) - Len(v)) PROVE StandsAt(ft, fv, o) <=> Stands(i, text, o)
  <2> DEFINE l == Len(v)
             m == Len(text)
  <2>1. l \in Nat /\ m \in Nat /\ o \in 0..(m - l)
    BY <1>1 DEF Bytes
  <2>2. \A k \in 1..l : ft[o + k] = FoldByte(i, text[o + k]) /\ fv[k] = FoldByte(i, v[k])
    <3> SUFFICES ASSUME NEW k \in 1..l
                 PROVE  ft[o + k] = FoldByte(i, text[o + k]) /\ fv[k] = FoldByte(i, v[k])
      OBVIOUS
    <3>1. o + k \in 1..m
      <4> HIDE DEF l, m
      <4> QED
        BY <2>1
    <3> QED
      BY <1>2, <1>3, <3>1
  <2>3. StandsAt(ft, fv, o) <=> \A k \in 1..l : ft[o + k] = fv[k]
    BY <1>3 DEF StandsAt
  <2>4. Stands(i, text, o) <=> \A k \in 1..l : FoldByte(i, text[o + k]) = FoldByte(i, v[k])
    BY DEF Stands
  <2> HIDE DEF l, v
  <2> QED
    BY <2>2, <2>3, <2>4
<1> QED
  BY <1>5, <1>6

\* part is the bytes of whole from offset d on, as many as it has
PartOf(part, whole, d) ==
  /\ d + Len(part) <= Len(whole)
  /\ \A k \in 1..Len(part) : part[k] = whole[d + k]

(* More text around a byte never makes it stray. *)
LEMMA StrayInPart ==
  ASSUME NEW part \in Bytes, NEW whole \in Bytes, NEW d \in Nat, PartOf(part, whole, d),
         NEW k \in 1..Len(part), d + k \in Stray(whole)
  PROVE  k \in Stray(part)
<1> DEFINE n == Len(part)
           m == Len(whole)
<1>1. n \in Nat /\ m \in Nat
  BY DEF Bytes
<1>2. d + n <= m /\ k \in 1..n /\ \A j \in 1..n : part[j] = whole[d + j]
  BY DEF PartOf
<1>3. \/ whole[d + k] \in Noise
      \/ whole[d + k] \in Lead /\ (d + k = m \/ whole[d + k + 1] \notin Cont)
      \/ whole[d + k] \in Cont /\ (d + k = 1 \/ whole[d + k - 1] \notin Lead)
  BY DEF Stray
<1>4. k \in Stray(part) <=>
        \/ part[k] \in Noise
        \/ part[k] \in Lead /\ (k = n \/ part[k + 1] \notin Cont)
        \/ part[k] \in Cont /\ (k = 1 \/ part[k - 1] \notin Lead)
  BY DEF Stray
<1> HIDE DEF n, m
<1>5. part[k] = whole[d + k]
  BY <1>2
<1>6. d + k = m => k = n
  BY <1>1, <1>2
<1>7. d + k = 1 => k = 1
  BY <1>1, <1>2
<1>8. k # n => part[k + 1] = whole[d + k + 1]
  <2> SUFFICES ASSUME k # n PROVE part[k + 1] = whole[d + k + 1]
    OBVIOUS
  <2>1. k + 1 \in 1..n /\ d + (k + 1) = d + k + 1
    BY <1>1, <1>2
  <2> QED
    BY <1>2, <2>1
<1>9. k # 1 => part[k - 1] = whole[d + k - 1]
  <2> SUFFICES ASSUME k # 1 PROVE part[k - 1] = whole[d + k - 1]
    OBVIOUS
  <2>1. k - 1 \in 1..n /\ d + (k - 1) = d + k - 1
    BY <1>1, <1>2
  <2> QED
    BY <1>2, <2>1
<1> QED
  BY <1>3, <1>4, <1>5, <1>6, <1>7, <1>8, <1>9

(* What the lower case of a part of a text shows, that of the whole shows  *)
(* too, unless it may be the U+FFFD of a byte that the cut made stray: the *)
(* blocks under it are those of bytes that are not stray, so they are the  *)
(* same in the whole.                                                      *)
LEMMA LoweredInWhole ==
  ASSUME NEW part \in Bytes, NEW whole \in Bytes, NEW d \in Nat, PartOf(part, whole, d),
         NEW w \in Seq(Folded), Len(w) > 0,
         Stray(part) = {} \/ \A k \in 1..Len(w) : w[k] \notin ErrorBytes,
         NEW o \in 0..(Len(ToLower(part)) - Len(w)), StandsAt(ToLower(part), w, o)
  PROVE  \E t \in 0..(Len(ToLower(whole)) - Len(w)) : StandsAt(ToLower(whole), w, t)
<1> DEFINE P == Len(part)
           W == Len(whole)
           n == Len(w)
           low == ToLower(part)
           all == ToLower(whole)
<1>1. P \in Nat /\ W \in Nat /\ n \in Nat /\ n > 0 /\ Len(low) \in Nat /\ Len(all) \in Nat
  BY ToLowerType, LenProperties DEF Bytes
<1>2. d + P <= W /\ \A k \in 1..P : part[k] = whole[d + k]
  BY DEF PartOf
<1>3. o \in Nat /\ o + n <= Len(low) /\ \A k \in 1..n : low[o + k] = w[k]
  BY <1>1 DEF StandsAt
<1>4. PICK pp : Layout(pp, part)
  BY ToLowerIs
<1>5. PICK pw : Layout(pw, whole)
  BY ToLowerIs
<1>6. /\ \A i \in 0..P : pp[i] \in Nat
      /\ pp[P] = Len(low)
      /\ \A j \in 0..P : \A i \in 0..j : pp[i] <= pp[j]
      /\ \A i \in 0..(P - 1) :
           /\ pp[i + 1] = pp[i] + Len(Block(part, i + 1))
           /\ \A p \in 1..Len(Block(part, i + 1)) : low[pp[i] + p] = Block(part, i + 1)[p]
  BY <1>4 DEF Layout
<1>7. /\ \A i \in 0..W : pw[i] \in Nat
      /\ pw[W] = Len(all)
      /\ \A j \in 0..W : \A i \in 0..j : pw[i] <= pw[j]
      /\ \A i \in 0..(W - 1) :
           /\ pw[i + 1] = pw[i] + Len(Block(whole, i + 1))
           /\ \A p \in 1..Len(Block(whole, i + 1)) : all[pw[i] + p] = Block(whole, i + 1)[p]
  BY <1>5 DEF Layout
<1>8. \A x \in 1..Len(low) : \E i \in 0..(P - 1) : pp[i] < x /\ x <= pp[i + 1]
  BY <1>4, BlockAt
<1>9. \A k \in 1..P : Len(Block(part, k)) \in Nat
                      /\ (k \in Stray(part) => /\ Len(Block(part, k)) = 3
                                               /\ \A p \in 1..3 : Block(part, k)[p] \in ErrorBytes)
  BY BlockIs
<1>10. Stray(part) = {} \/ \A k \in 1..n : w[k] \notin ErrorBytes
  OBVIOUS
<1>11. \A k \in 1..P : d + k \in Stray(whole) => k \in Stray(part)
  BY StrayInPart
<1> HIDE DEF P, W, n, low, all
<1>12. o + 1 \in 1..Len(low) /\ o + n \in 1..Len(low)
  BY <1>1, <1>3
<1>13. PICK q \in 0..(P - 1) : pp[q] < o + 1 /\ o + 1 <= pp[q + 1]
  BY <1>8, <1>12
<1>14. PICK l \in 0..(P - 1) : pp[l] < o + n /\ o + n <= pp[l + 1]
  BY <1>8, <1>12
\* the bytes whose blocks the match touches
<1>15. ASSUME NEW i \in 0..(P - 1), pp[i] < o + n, o + 1 <= pp[i + 1]
       PROVE  i + 1 \notin Stray(part) /\ Block(part, i + 1) = Block(whole, d + (i + 1))
  <2>1. i \in 0..P /\ i + 1 \in 0..P /\ i + 1 \in 1..P
    BY <1>1
  <2>2. pp[i] \in Nat /\ pp[i + 1] \in Nat
    BY <1>6, <2>1
  <2>3. i + 1 \notin Stray(part)
    <3> SUFFICES ASSUME i + 1 \in Stray(part) PROVE FALSE
      OBVIOUS
    <3>1. \A k \in 1..n : w[k] \notin ErrorBytes
      BY <1>10
    <3>2. /\ Len(Block(part, i + 1)) = 3
          /\ \A p \in 1..3 : Block(part, i + 1)[p] \in ErrorBytes
      BY <1>9, <2>1
    <3>3. pp[i + 1] = pp[i] + 3 /\ \A p \in 1..3 : low[pp[i] + p] \in ErrorBytes
      BY <1>6, <3>2
    <3> DEFINE x == IF pp[i] <= o THEN o + 1 ELSE pp[i] + 1
    <3>4. x - o \in 1..n /\ x - pp[i] \in 1..3 /\ o + (x - o) = x /\ pp[i] + (x - pp[i]) = x
      <4> DEFINE u == pp[i]
                 c == IF u <= o THEN o + 1 ELSE u + 1
      <4>1. u \in Nat /\ u < o + n /\ o + 1 <= u + 3
        BY <1>15, <2>2, <3>3
      <4>2. x = c
        OBVIOUS
      <4> HIDE DEF u, x
      <4>3. c - o \in 1..n /\ c - u \in 1..3 /\ o + (c - o) = c /\ u + (c - u) = c
        BY <1>1, <1>3, <4>1
      <4> QED
        BY <4>2, <4>3 DEF u
    <3> HIDE DEF x
    <3>5. low[x] \in ErrorBytes
      BY <3>3, <3>4
    <3>6. low[x] = w[x - o]
      BY <1>3, <3>4
    <3> QED
      BY <3>1, <3>4, <3>5, <3>6
  <2>4. d + (i + 1) \notin Stray(whole)
    BY <1>11, <2>1, <2>3
  <2>5. part[i + 1] = whole[d + (i + 1)]
    BY <1>2, <2>1
  <2> DEFINE j == i + 1
  <2> HIDE DEF j
  <2>6. Block(part, j) = Lowered(part[j]) /\ Block(whole, d + j) = Lowered(whole[d + j])
    BY <2>3, <2>4 DEF Block, j
  <2> QED
    BY <2>3, <2>5, <2>6 DEF j
<1>16. q <= l
  <2> SUFFICES ASSUME l < q PROVE FALSE
    BY <1>1
  <2>1. q \in 0..P /\ l + 1 \in 0..q /\ l + 1 \in 0..P
    BY <1>1
  <2>2. pp[l + 1] <= pp[q] /\ pp[l + 1] \in Nat /\ pp[q] \in Nat
    BY <1>6, <2>1
  <2> QED
    BY <1>1, <1>3, <1>13, <1>14, <2>2
<1>17. ASSUME NEW i \in 0..(P - 1), q <= i, i <= l
       PROVE  pp[i] < o + n /\ o + 1 <= pp[i + 1]
  <2>1. /\ i \in 0..l /\ l \in 0..P /\ q + 1 \in 0..(i + 1) /\ i + 1 \in 0..P
        /\ i \in 0..P /\ q + 1 \in 0..P
    BY <1>1, <1>17
  <2>2. pp[i] <= pp[l] /\ pp[q + 1] <= pp[i + 1]
    BY <1>6, <2>1
  <2>3. pp[i] \in Nat /\ pp[l] \in Nat /\ pp[q + 1] \in Nat /\ pp[i + 1] \in Nat
    BY <1>6, <2>1
  <2> DEFINE x == pp[i]
             u == pp[l]
             y == pp[q + 1]
             v == pp[i + 1]
  <2>4. /\ x \in Nat /\ u \in Nat /\ y \in Nat /\ v \in Nat
        /\ x <= u /\ y <= v /\ u < o + n /\ o + 1 <= y
    BY <1>13, <1>14, <2>2, <2>3
  <2> HIDE DEF x, u, y, v
  <2>5. x < o + n /\ o + 1 <= v
    BY <1>1, <1>3, <2>4
  <2> QED
    BY <2>5 DEF x, v
\* in the whole the same blocks stand at the same distances
<1> DEFINE good == {m \in Nat : q + m <= l + 1 => pw[d + (q + m)] + pp[q] = pp[q + m] + pw[d + q]}
<1>18. 0 \in good
  <2>1. q + 0 = q /\ q \in 0..P /\ d + q \in 0..W
    BY <1>1, <1>2
  <2>2. pp[q] \in Nat /\ pw[d + q] \in Nat
    BY <1>6, <1>7, <2>1
  <2> QED
    BY <2>1, <2>2
<1>19. ASSUME NEW m \in Nat, m \in good PROVE m + 1 \in good
  <2> SUFFICES ASSUME q + (m + 1) <= l + 1
               PROVE  pw[d + (q + (m + 1))] + pp[q] = pp[q + (m + 1)] + pw[d + q]
    OBVIOUS
  <2> DEFINE i == q + m
             b == Len(Block(part, i + 1))
  <2>1. /\ i \in 0..(P - 1) /\ q <= i /\ i <= l /\ i <= l + 1 /\ q + (m + 1) = i + 1
        /\ d + i \in 0..(W - 1) /\ d + (i + 1) = (d + i) + 1
    BY <1>1, <1>2
  <2>2. pw[d + i] + pp[q] = pp[i] + pw[d + q]
    BY <1>19, <2>1
  <2> HIDE DEF i
  <2>3. Block(part, i + 1) = Block(whole, d + (i + 1))
    BY <1>15, <1>17, <2>1
  <2>4. pp[i + 1] = pp[i] + b
    BY <1>6, <2>1
  <2>5. pw[d + (i + 1)] = pw[d + i] + b
    BY <1>7, <2>1, <2>3
  <2>6. b \in Nat
    <3>1. i + 1 \in 1..P
      BY <1>1, <2>1
    <3> QED
      BY <1>9, <3>1
  <2>7. pp[i] \in Nat /\ pp[q] \in Nat /\ pw[d + i] \in Nat /\ pw[d + q] \in Nat
    <3>1. i \in 0..P /\ q \in 0..P /\ d + i \in 0..W /\ d + q \in 0..W
      BY <1>1, <1>2, <2>1
    <3> QED
      BY <1>6, <1>7, <3>1
  <2> HIDE DEF b
  <2>8. pw[d + (i + 1)] + pp[q] = pp[i + 1] + pw[d + q]
    <3> DEFINE x == pp[i]
               y == pw[d + i]
               u == pp[q]
               v == pw[d + q]
    <3>1. x \in Nat /\ y \in Nat /\ u \in Nat /\ v \in Nat /\ y + u = x + v
      BY <2>2, <2>7
    <3>2. pp[i + 1] = x + b /\ pw[d + (i + 1)] = y + b
      BY <2>4, <2>5
    <3> HIDE DEF x, y, u, v
    <3>3. (y + b) + u = (x + b) + v
      BY <2>6, <3>1
    <3> QED
      BY <3>2, <3>3 DEF u, v
  <2> QED
    BY <2>1, <2>8
<1> HIDE DEF good
<1>20. \A m \in Nat : m \in good
  BY <1>18, <1>19, SetInduction
<1>21. ASSUME NEW i \in 0..P, q <= i, i <= l + 1
       PROVE  pw[d + i] + pp[q] = pp[i] + pw[d + q]
  <2>1. i - q \in Nat /\ q + (i - q) = i
    BY <1>1, <1>21
  <2> DEFINE m == i - q
  <2> HIDE DEF m
  <2>2. m \in Nat /\ q + m = i
    BY <2>1 DEF m
  <2> QED
    BY <1>20, <1>21, <2>2 DEF good
<1> DEFINE t == pw[d + q] + (o - pp[q])
<1>22. q \in 0..P /\ d + q \in 0..W /\ pp[q] \in Nat /\ pw[d + q] \in Nat
  <2>1. q \in 0..P /\ d + q \in 0..W
    BY <1>1, <1>2
  <2> QED
    BY <1>6, <1>7, <2>1
<1>23. t \in Nat
  BY <1>3, <1>13, <1>22
<1>24. t + n <= Len(all)
  <2>1. /\ l + 1 \in 0..P /\ q <= l + 1 /\ d + (l + 1) \in 0..W /\ W \in 0..W
        /\ d + (l + 1) \in 0..W
    BY <1>1, <1>2, <1>16
  <2>2. pw[d + (l + 1)] + pp[q] = pp[l + 1] + pw[d + q]
    BY <1>21, <2>1
  <2>3. pp[l + 1] \in Nat /\ pw[d + (l + 1)] \in Nat /\ pw[d + (l + 1)] <= Len(all)
    BY <1>6, <1>7, <2>1
  <2> DEFINE x == pp[l + 1]
             y == pw[d + (l + 1)]
             u == pp[q]
             v == pw[d + q]
             a == Len(all)
  <2>4. /\ x \in Nat /\ y \in Nat /\ u \in Nat /\ v \in Nat /\ a \in Nat
        /\ y + u = x + v /\ y <= a /\ o + n <= x /\ o \in Nat /\ n \in Nat
    BY <1>1, <1>3, <1>14, <1>22, <2>2, <2>3
  <2>5. t = v + (o - u)
    OBVIOUS
  <2> HIDE DEF x, y, u, v, a
  <2>6. (v + (o - u)) + n <= a
    BY <2>4
  <2> HIDE DEF t
  <2> QED
    BY <2>5, <2>6 DEF a
<1>25. ASSUME NEW k \in 1..n PROVE all[t + k] = w[k]
  <2>1. o + k \in 1..Len(low)
    BY <1>1, <1>3
  <2>2. PICK i \in 0..(P - 1) : pp[i] < o + k /\ o + k <= pp[i + 1]
    BY <1>8, <2>1
  <2>3. i \in 0..P /\ i + 1 \in 0..P /\ d + i \in 0..(W - 1) /\ d + (i + 1) = (d + i) + 1 /\ d + i \in 0..W
    BY <1>1, <1>2
  <2>4. pp[i] \in Nat /\ pp[i + 1] \in Nat /\ pw[d + i] \in Nat
    BY <1>6, <1>7, <2>3
  <2>5. pp[i] < o + n /\ o + 1 <= pp[i + 1]
    BY <1>1, <1>3, <2>2, <2>4
  <2>6. q <= i
    <3> SUFFICES ASSUME i < q PROVE FALSE
      BY <1>1
    <3>1. i + 1 \in 0..q
      BY <1>1
    <3>2. pp[i + 1] <= pp[q]
      BY <1>6, <1>22, <3>1
    <3> DEFINE x == pp[i + 1]
               u == pp[q]
    <3>3. x \in Nat /\ u \in Nat /\ o \in Nat /\ x <= u /\ u < o + 1 /\ o + 1 <= x
      BY <1>3, <1>13, <1>22, <2>4, <2>5, <3>2
    <3> HIDE DEF x, u
    <3> QED
      BY <3>3
  <2>7. i <= l
    <3> SUFFICES ASSUME l < i PROVE FALSE
      BY <1>1
    <3>1. l + 1 \in 0..i /\ l + 1 \in 0..P
      BY <1>1
    <3>2. pp[l + 1] <= pp[i] /\ pp[l + 1] \in Nat
      BY <1>6, <2>3, <3>1
    <3> QED
      BY <1>1, <1>3, <1>14, <2>4, <2>5, <3>2
  <2>8. pw[d + i] + pp[q] = pp[i] + pw[d + q]
    <3>1. i <= l + 1
      BY <1>1, <2>7
    <3> QED
      BY <1>21, <2>3, <2>6, <3>1
  <2>9. Block(part, i + 1) = Block(whole, d + (i + 1))
    BY <1>15, <2>5
  <2> DEFINE r == (o + k) - pp[i]
             b == Len(Block(part, i + 1))
  <2>10. pp[i + 1] = pp[i] + b /\ b \in Nat
    <3>1. i + 1 \in 1..P
      BY <1>1
    <3> QED
      BY <1>6, <1>9, <3>1
  <2>11. r \in 1..b /\ pp[i] + r = o + k /\ pw[d + i] + r = t + k
    <3> HIDE DEF b
    <3> DEFINE x == pp[i]
               z == pp[i + 1]
               y == pw[d + i]
               u == pp[q]
               v == pw[d + q]
               e == o + k
    <3>1. /\ x \in Nat /\ z \in Nat /\ y \in Nat /\ u \in Nat /\ v \in Nat /\ e \in Nat
          /\ x < e /\ e <= z /\ z = x + b /\ y + u = x + v
      BY <1>1, <1>3, <1>22, <2>2, <2>4, <2>8, <2>10
    <3>2. r = e - x /\ t + k = v + (e - u)
      <4>1. u \in Nat /\ v \in Nat /\ o \in Nat /\ k \in Nat /\ e = o + k
        BY <1>1, <1>3, <1>22
      <4>2. r = e - x
        OBVIOUS
      <4>3. t = v + (o - u)
        OBVIOUS
      <4> HIDE DEF u, v, e, r, t, x
      <4>4. t + k = v + (e - u)
        BY <4>1, <4>3
      <4> QED
        BY <4>2, <4>4
    <3> HIDE DEF x, z, y, u, v, e
    <3>3. /\ e - x \in 1..b /\ x + (e - x) = e
          /\ y + (e - x) = v + (e - u)
      BY <2>10, <3>1
    <3> HIDE DEF t, r
    <3>4. r \in 1..b /\ x + r = e /\ y + r = t + k
      BY <3>2, <3>3
    <3> QED
      BY <3>4 DEF x, y, e
  <2> HIDE DEF r
  <2>12. low[pp[i] + r] = Block(part, i + 1)[r]
    BY <1>6, <2>11
  <2>13. all[pw[d + i] + r] = Block(whole, d + (i + 1))[r]
    BY <1>7, <2>3, <2>9, <2>11
  <2>14. low[o + k] = w[k]
    BY <1>3
  <2> HIDE DEF t
  <2> QED
    BY <2>9, <2>11, <2>12, <2>13, <2>14
<1> HIDE DEF t
<1>26. t \in 0..(Len(all) - n)
  BY <1>1, <1>23, <1>24
<1> QED
  BY <1>25, <1>26 DEF StandsAt, all, n

\* what w shows in text
ShownIn(w, text) == \E t \in 0..(Len(text) - Len(w)) : StandsAt(text, w, t)

(* What is found in a part of a text is found in the whole. *)
LEMMA FoundInWhole ==
  ASSUME NEW i \in Index, PlainValue(i) \/ NoiseFree,
         NEW part \in Bytes, NEW whole \in Bytes, NEW d \in Nat, PartOf(part, whole, d),
         Found(i, part)
  PROVE  Found(i, whole)
<1> DEFINE v == Specs[i].value
<1>1. v \in Bytes /\ Len(v) \in Nat
  BY SpecFacts
<1>2. CASE Specs[i].caseSensitive
  <2>1. FoldsInPlace(i)
    BY <1>2 DEF FoldsInPlace
  <2>2. PICK o \in 0..(Len(part) - Len(v)) : Stands(i, part, o)
    BY <2>1, FoundIs
  <2>3. /\ Len(part) \in Nat /\ Len(whole) \in Nat /\ d + Len(part) <= Len(whole)
        /\ \A k \in 1..Len(part) : part[k] = whole[d + k]
    BY DEF PartOf, Bytes
  <2>4. d + o \in 0..(Len(whole) - Len(v))
    BY <1>1, <2>3
  <2>5. ASSUME NEW k \in 1..Len(v) PROVE part[o + k] = whole[(d + o) + k]
    <3>1. o + k \in 1..Len(part) /\ (d + o) + k = d + (o + k)
      BY <1>1, <2>3
    <3> QED
      BY <2>3, <3>1
  <2>6. Stands(i, whole, d + o)
    BY <2>2, <2>5 DEF Stands
  <2> QED
    BY <2>1, <2>4, <2>6, FoundIs
<1>3. CASE ~Specs[i].caseSensitive
  <2> DEFINE w == ToLower(v)
             low == ToLower(part)
             all == ToLower(whole)
  <2>1. w \in Seq(Folded) /\ low \in Seq(Folded) /\ all \in Seq(Folded)
    BY <1>1, ToLowerType
  <2>2. Found(i, part) <=> Occurs(low, w)
    BY <1>3 DEF Found, Fold
  <2>3. Found(i, whole) <=> Occurs(all, w)
    BY <1>3 DEF Found, Fold
  <2>4. Stray(part) = {} \/ \A k \in 1..Len(w) : w[k] \notin ErrorBytes
    BY <1>3, NoStray DEF PlainValue, ErrorBytes
  <2> HIDE DEF w
  <2>5. PICK o \in 0..(Len(low) - Len(w)) : StandsAt(low, w, o)
    <3> HIDE DEF low
    <3> QED
      BY <2>1, <2>2, OccursIs
  <2>6. ShownIn(w, all)
    <3>1. CASE Len(w) > 0
      BY <2>1, <2>4, <2>5, <3>1, LoweredInWhole DEF ShownIn
    <3>2. CASE ~(Len(w) > 0)
      <4>1. Len(w) = 0 /\ Len(all) \in Nat
        BY <2>1, <3>2, LenProperties
      <4> HIDE DEF all
      <4>2. 0 \in 0..(Len(all) - Len(w)) /\ StandsAt(all, w, 0)
        BY <4>1 DEF StandsAt
      <4> QED
        BY <4>2 DEF ShownIn
    <3> QED
      BY <3>1, <3>2
  <2> HIDE DEF low, all
  <2> QED
    BY <2>1, <2>3, <2>6, OccursIs DEF ShownIn
<1> QED
  BY <1>2, <1>3

LEMMA DropIsPart ==
  ASSUME NEW s \in Bytes, NEW d \in 0..Len(s)
  PROVE  PartOf(Drop(s, d), s, d)
<1>1. Len(s) \in Nat /\ d + (Len(s) - d) <= Len(s)
  BY DEF Bytes
<1>2. Len(Drop(s, d)) = Len(s) - d /\ \A i \in 1..(Len(s) - d) : Drop(s, d)[i] = s[d + i]
  BY DropIs
<1> QED
  BY <1>1, <1>2 DEF PartOf

LEMMA ConcatIs ==
  ASSUME NEW s \in Bytes, NEW t \in Bytes
  PROVE  /\ s \o t \in Bytes /\ Len(s \o t) = Len(s) + Len(t)
         /\ \A k \in 1..Len(s) : (s \o t)[k] = s[k]
         /\ \A k \in 1..Len(t) : (s \o t)[Len(s) + k] = t[k]
<1> DEFINE a == Len(s)
           b == Len(t)
<1>1. a \in Nat /\ b \in Nat
  BY DEF Bytes
<1>2. /\ s \o t \in Bytes /\ Len(s \o t) = a + b
      /\ \A k \in 1..(a + b) : (s \o t)[k] = IF k <= a THEN s[k] ELSE t[k - a]
  BY ConcatProperties DEF Bytes
<1> HIDE DEF a, b
<1>3. \A k \in 1..a : k \in 1..(a + b) /\ k <= a
  BY <1>1
<1>4. \A k \in 1..b : a + k \in 1..(a + b) /\ ~(a + k <= a) /\ (a + k) - a = k
  BY <1>1
<1>5. \A k \in 1..a : (s \o t)[k] = s[k]
  BY <1>2, <1>3
<1>6. \A k \in 1..b : (s \o t)[a + k] = t[k]
  BY <1>2, <1>4
<1> QED
  BY <1>2, <1>5, <1>6 DEF a, b

(* The part of a longer text that the end of a shorter one starts. *)
LEMMA DropOfConcat ==
  ASSUME NEW s \in Bytes, NEW t \in Bytes, NEW d \in 0..Len(s)
  PROVE  Drop(s, d) \o t = Drop(s \o t, d)
<1> DEFINE a == Len(s)
           b == Len(t)
           left == Drop(s, d) \o t
           right == Drop(s \o t, d)
<1>1. a \in Nat /\ b \in Nat /\ d \in 0..a
  BY DEF Bytes
<1>2. /\ s \o t \in Bytes /\ Len(s \o t) = a + b
      /\ \A k \in 1..a : (s \o t)[k] = s[k]
      /\ \A k \in 1..b : (s \o t)[a + k] = t[k]
  BY ConcatIs
<1>3. /\ Drop(s, d) \in Bytes /\ Len(Drop(s, d)) = a - d
      /\ \A k \in 1..(a - d) : Drop(s, d)[k] = s[d + k]
  BY DropIs
<1>4. /\ left \in Bytes /\ Len(left) = (a - d) + b
      /\ \A k \in 1..(a - d) : left[k] = Drop(s, d)[k]
      /\ \A k \in 1..b : left[(a - d) + k] = t[k]
  <2> DEFINE c == Drop(s, d)
  <2>1. c \in Bytes /\ Len(c) = a - d
    BY <1>3
  <2> HIDE DEF c
  <2>2. /\ c \o t \in Bytes /\ Len(c \o t) = Len(c) + b
        /\ \A k \in 1..Len(c) : (c \o t)[k] = c[k]
        /\ \A k \in 1..b : (c \o t)[Len(c) + k] = t[k]
    BY <2>1, ConcatIs
  <2> HIDE DEF a, b
  <2> QED
    BY <2>1, <2>2 DEF c
<1>5. /\ right \in Bytes /\ Len(right) = (a + b) - d
      /\ \A k \in 1..((a + b) - d) : right[k] = (s \o t)[d + k]
  <2> DEFINE w == s \o t
  <2>1. d \in 0..(a + b)
    BY <1>1
  <2>2. w \in Bytes /\ Len(w) = a + b
    BY <1>2
  <2> HIDE DEF w, a, b
  <2> QED
    BY <2>1, <2>2, DropIs DEF w
<1> HIDE DEF a, b, left, right
<1>6. ASSUME NEW k \in 1..((a + b) - d) PROVE left[k] = right[k]
  <2>1. CASE k <= a - d
    <3>1. k \in 1..(a - d) /\ d + k \in 1..a
      BY <1>1, <2>1
    <3> QED
      BY <1>2, <1>3, <1>4, <1>5, <3>1
  <2>2. CASE ~(k <= a - d)
    <3> DEFINE j == k - (a - d)
    <3>1. j \in 1..b /\ (a - d) + j = k /\ a + j = d + k
      BY <1>1, <2>2
    <3> HIDE DEF j
    <3> QED
      BY <1>2, <1>4, <1>5, <3>1
  <2> QED
    BY <2>1, <2>2
<1>7. Len(left) = Len(right) /\ Len(left) = (a + b) - d
  BY <1>1, <1>4, <1>5
<1>8. left = right
  BY <1>4, <1>5, <1>6, <1>7, SeqEqual DEF Bytes
<1> QED
  BY <1>8 DEF left, right

-----------------------------------------------------------------------------
(* Observe and Finish, with their local definitions named *)

Completed(text, at) ==
  {i \in Hits(text, at) : \A j \in Hits(text, at) : EvidencePanics(j, text) => i < j}

Decided(text, at) ==
  {[index |-> i, passed |-> i \in Required, duration |-> at,
    evidence |-> SnippetAround(i, text)] : i \in Completed(text, at)}

Absent(at) ==
  {[index |-> i, passed |-> i \in Forbidden,
    duration |-> IF i \in Required THEN Specs[i].within ELSE at,
    evidence |-> <<>>] : i \in {j \in Index : ~done[j]}}

LEMMA ObserveIs ==
  ASSUME NEW chunk, NEW at, Observe(chunk, at),
         NEW text, text = Remember(buffer \o chunk)
  PROVE  /\ status = "open"
         /\ Len(heard \o chunk) <= MaxHeard
         /\ buffer' = text /\ heard' = heard \o chunk /\ now' = at
         /\ done' = [i \in Index |-> done[i] \/ i \in Completed(text, at)]
         /\ results' = results \cup Decided(text, at)
         /\ status' = IF Completed(text, at) = Hits(text, at) THEN "open" ELSE "panicked"
BY DEF Observe, Completed, Decided

LEMMA FinishIs ==
  ASSUME NEW at, Finish(at)
  PROVE  /\ status = "open" /\ status' = "finished"
         /\ buffer' = buffer /\ heard' = heard /\ now' = at
         /\ done' = [i \in Index |-> TRUE]
         /\ results' = results \cup Absent(at)
BY DEF Finish, Absent

(* Every assertion is required or forbidden, and never both. *)
LEMMA Kinds ==
  /\ Required \cup Forbidden = Index
  /\ Required \cap Forbidden = {}
BY SpecFacts DEF Required, Forbidden, Type

LEMMA SnippetType ==
  ASSUME NEW i \in Index, NEW text \in Bytes, Found(i, text)
  PROVE  SnippetAround(i, text) \in Bytes
<1> DEFINE at == IndexOf(Fold(i, text), Fold(i, Specs[i].value))
           l == Len(Specs[i].value)
           from == IF at < Context THEN 0 ELSE at - Context
           to == Min({Len(text), at + l + Context})
<1>1. at \in Nat /\ l \in Nat /\ Context \in Nat /\ Len(text) \in Nat
  BY FoldType, IndexOfIs, SpecFacts, SpecAssumption DEF Found, Bytes
<1>2. EvidenceWindow(i, text) = [from |-> from, to |-> to]
  BY DEF EvidenceWindow
<1>3. SnippetAround(i, text) = TrimSpace(SubSeq(text, from + 1, to))
  BY <1>2 DEF SnippetAround
<1>4. to \in Nat /\ to <= Len(text)
  <2> DEFINE limit == at + l + Context
  <2>1. limit \in Nat
    BY <1>1
  <2>2. to = Min({Len(text), limit})
    OBVIOUS
  <2> HIDE DEF limit, to
  <2> QED
    BY <1>1, <2>1, <2>2, MinOfTwo
<1> HIDE DEF at, l, to
<1>5. from + 1 \in Nat \ {0}
  BY <1>1
<1> HIDE DEF from
<1>6. SubSeq(text, from + 1, to) \in Bytes
  BY <1>4, <1>5, SubSeqIs
<1> QED
  BY <1>3, <1>6, TrimSpaceIs

LEMMA DecidedType ==
  ASSUME NEW text \in Bytes, NEW at \in Nat
  PROVE  /\ Decided(text, at) \subseteq
              [index: Index, passed: BOOLEAN, duration: Nat, evidence: Bytes]
         /\ Completed(text, at) \subseteq Hits(text, at)
         /\ Hits(text, at) \subseteq {i \in Index : ~done[i] /\ Found(i, text)}
<1>1. /\ Completed(text, at) \subseteq Hits(text, at)
      /\ Hits(text, at) \subseteq {i \in Index : ~done[i] /\ Found(i, text)}
  BY DEF Completed, Hits
<1>2. ASSUME NEW i \in Completed(text, at)
      PROVE  [index |-> i, passed |-> i \in Required, duration |-> at,
              evidence |-> SnippetAround(i, text)]
               \in [index: Index, passed: BOOLEAN, duration: Nat, evidence: Bytes]
  <2>1. SnippetAround(i, text) \in Bytes /\ i \in Index
    BY <1>1, SnippetType
  <2> QED
    BY <2>1
<1> QED
  BY <1>1, <1>2 DEF Decided

-----------------------------------------------------------------------------
(* Type correctness: the buffer never holds more than MaxBytes bytes       *)
(* (NewEvaluator, Observe), and the evidence of a verdict is text.         *)

LEMMA TypeInit == Init => TypeOK
BY SpecAssumption, MaxBytesIs, EmptySeq DEF Init, TypeOK, Bytes

LEMMA TypeStep == TypeOK /\ [Next]_vars => TypeOK'
<1> SUFFICES ASSUME TypeOK, [Next]_vars PROVE TypeOK'
  OBVIOUS
<1>1. ASSUME NEW chunk \in Chunk, NEW at \in now..MaxTime, Observe(chunk, at) PROVE TypeOK'
  <2> DEFINE text == Remember(buffer \o chunk)
  <2>1. chunk \in Bytes /\ buffer \in Bytes /\ heard \in Bytes
    BY SpecAssumption DEF TypeOK
  <2>2. text \in Bytes /\ Len(text) <= MaxBytes
    <3>1. buffer \o chunk \in Bytes
      BY <2>1, ConcatIs
    <3>2. PICK n \in 0..Len(buffer \o chunk) :
            text = Drop(buffer \o chunk, n) /\ Len(buffer \o chunk) - n <= MaxBytes
      BY <3>1, RememberDrops
    <3> QED
      BY <3>1, <3>2, DropIs
  <2>3. at \in 0..MaxTime /\ at \in Nat
    BY SpecAssumption DEF TypeOK
  <2> HIDE DEF text
  <2>4. /\ buffer' = text /\ heard' = heard \o chunk /\ now' = at
        /\ done' = [i \in Index |-> done[i] \/ i \in Completed(text, at)]
        /\ results' = results \cup Decided(text, at)
        /\ status' \in {"open", "panicked"}
    BY <1>1, ObserveIs DEF text
  <2>5. Decided(text, at) \subseteq [index: Index, passed: BOOLEAN, duration: Nat, evidence: Bytes]
    BY <2>2, <2>3, DecidedType
  <2>6. heard' \in Bytes
    BY <2>1, <2>4, ConcatIs
  <2>7. done' \in [Index -> BOOLEAN]
    BY <2>4
  <2>8. results' \subseteq [index: Index, passed: BOOLEAN, duration: Nat, evidence: Bytes]
    BY <2>4, <2>5 DEF TypeOK
  <2> QED
    BY <2>2, <2>3, <2>4, <2>6, <2>7, <2>8 DEF TypeOK
<1>2. ASSUME NEW at \in now..MaxTime, Finish(at) PROVE TypeOK'
  <2>1. at \in 0..MaxTime /\ at \in Nat
    BY SpecAssumption DEF TypeOK
  <2>2. Absent(at) \subseteq [index: Index, passed: BOOLEAN, duration: Nat, evidence: Bytes]
    <3>1. <<>> \in Bytes
      BY EmptySeq DEF Bytes
    <3>2. ASSUME NEW i \in Index
          PROVE  [index |-> i, passed |-> i \in Forbidden,
                  duration |-> IF i \in Required THEN Specs[i].within ELSE at,
                  evidence |-> <<>>]
                   \in [index: Index, passed: BOOLEAN, duration: Nat, evidence: Bytes]
      <4>1. (IF i \in Required THEN Specs[i].within ELSE at) \in Nat
        BY <2>1, SpecFacts
      <4> QED
        BY <3>1, <4>1
    <3> QED
      BY <3>2 DEF Absent
  <2> QED
    BY <1>2, <2>1, <2>2, FinishIs DEF TypeOK
<1>3. CASE UNCHANGED vars
  BY <1>3 DEF TypeOK, vars
<1> QED
  BY <1>1, <1>2, <1>3 DEF Next, Dropped

THEOREM EvaluatorTypeCorrect == Spec => []TypeOK
BY TypeInit, TypeStep, PTL DEF Spec

-----------------------------------------------------------------------------
(* One result per assertion *)

LEMMA OneResultStep ==
  TypeOK /\ OneResultPerAssertion /\ [Next]_vars => OneResultPerAssertion'
<1> SUFFICES ASSUME TypeOK, OneResultPerAssertion, [Next]_vars PROVE OneResultPerAssertion'
  OBVIOUS
<1>1. ASSUME NEW new, NEW decided \in SUBSET {i \in Index : ~done[i]},
             results' = results \cup new,
             \A r \in new : r.index \in decided,
             \A r, s \in new : r.index = s.index => r = s,
             \A i \in decided : \E r \in new : r.index = i,
             done' = [i \in Index |-> done[i] \/ i \in decided]
      PROVE  OneResultPerAssertion'
  <2>1. \A r \in results : r.index \in Index /\ done[r.index]
    BY DEF OneResultPerAssertion, TypeOK
  <2>2. ASSUME NEW r \in results', NEW s \in results', r.index = s.index PROVE r = s
    BY <1>1, <2>1, <2>2 DEF OneResultPerAssertion
  <2>3. ASSUME NEW i \in Index PROVE done'[i] <=> \E r \in results' : r.index = i
    <3>1. done'[i] <=> done[i] \/ i \in decided
      BY <1>1
    <3>2. (\E r \in results' : r.index = i) <=> \/ \E r \in results : r.index = i
                                               \/ \E r \in new : r.index = i
      BY <1>1
    <3>3. (\E r \in new : r.index = i) <=> i \in decided
      BY <1>1
    <3>4. (\E r \in results : r.index = i) <=> done[i]
      BY DEF OneResultPerAssertion
    <3> QED
      BY <3>1, <3>2, <3>3, <3>4
  <2> QED
    BY <2>2, <2>3 DEF OneResultPerAssertion
<1>2. ASSUME NEW chunk \in Chunk, NEW at \in now..MaxTime, Observe(chunk, at)
      PROVE  OneResultPerAssertion'
  <2> DEFINE text == Remember(buffer \o chunk)
  <2>1. /\ done' = [i \in Index |-> done[i] \/ i \in Completed(text, at)]
        /\ results' = results \cup Decided(text, at)
    BY <1>2, ObserveIs
  <2> HIDE DEF text
  <2>2. Completed(text, at) \subseteq {i \in Index : ~done[i]}
    BY DEF Completed, Hits
  <2>3. /\ \A r \in Decided(text, at) : r.index \in Completed(text, at)
        /\ \A r, s \in Decided(text, at) : r.index = s.index => r = s
        /\ \A i \in Completed(text, at) : \E r \in Decided(text, at) : r.index = i
    <3> DEFINE result(i) == [index |-> i, passed |-> i \in Required, duration |-> at,
                             evidence |-> SnippetAround(i, text)]
    <3>1. \A i : result(i).index = i
      OBVIOUS
    <3>2. Decided(text, at) = {result(i) : i \in Completed(text, at)}
      BY DEF Decided
    <3> HIDE DEF result
    <3> QED
      BY <3>1, <3>2
  <2> QED
    BY <1>1, <2>1, <2>2, <2>3
<1>3. ASSUME NEW at \in now..MaxTime, Finish(at) PROVE OneResultPerAssertion'
  <2> DEFINE open == {i \in Index : ~done[i]}
  <2>1. results' = results \cup Absent(at) /\ done' = [i \in Index |-> TRUE]
    BY <1>3, FinishIs
  <2>2. done' = [i \in Index |-> done[i] \/ i \in open]
    BY <2>1 DEF TypeOK
  <2>3. /\ \A r \in Absent(at) : r.index \in open
        /\ \A r, s \in Absent(at) : r.index = s.index => r = s
        /\ \A i \in open : \E r \in Absent(at) : r.index = i
    <3> DEFINE result(i) == [index |-> i, passed |-> i \in Forbidden,
                             duration |-> IF i \in Required THEN Specs[i].within ELSE at,
                             evidence |-> <<>>]
    <3>1. \A i : result(i).index = i
      OBVIOUS
    <3>2. Absent(at) = {result(i) : i \in open}
      BY DEF Absent
    <3> HIDE DEF result, open
    <3> QED
      BY <3>1, <3>2
  <2> HIDE DEF open
  <2>4. open \subseteq {i \in Index : ~done[i]}
    BY DEF open
  <2> QED
    BY <1>1, <2>1, <2>2, <2>3, <2>4
<1>4. CASE UNCHANGED vars
  BY <1>4 DEF OneResultPerAssertion, vars
<1> QED
  BY <1>2, <1>3, <1>4 DEF Next, Dropped

(* No assertion is reported twice, and those marked done are exactly the   *)
(* ones reported (complete, and the `if e.done[i] continue` of both        *)
(* loops).                                                                 *)
THEOREM EvaluatorReportsOnce == Spec => []OneResultPerAssertion
<1>1. Init => OneResultPerAssertion
  BY DEF Init, OneResultPerAssertion
<1> QED
  BY <1>1, TypeInit, TypeStep, OneResultStep, PTL DEF Spec

-----------------------------------------------------------------------------
(* Verdicts and the text they rest on *)

\* the buffer is the end of what was heard
BufferIsSuffix == \E d \in 0..Len(heard) : buffer = Drop(heard, d)

LEMMA SuffixStep ==
  ASSUME TypeOK, BufferIsSuffix, NEW chunk \in Bytes,
         buffer' = Remember(buffer \o chunk), heard' = heard \o chunk
  PROVE  BufferIsSuffix'
<1> DEFINE all == heard \o chunk
<1>1. heard \in Bytes /\ buffer \in Bytes
  BY DEF TypeOK
<1>2. PICK d \in 0..Len(heard) : buffer = Drop(heard, d)
  BY DEF BufferIsSuffix
<1>3. all \in Bytes /\ buffer \o chunk \in Bytes /\ Len(all) = Len(heard) + Len(chunk)
  BY <1>1, ConcatIs
<1>4. buffer \o chunk = Drop(all, d)
  BY <1>1, <1>2, DropOfConcat
<1>5. PICK n \in 0..Len(buffer \o chunk) : buffer' = Drop(buffer \o chunk, n)
  BY <1>3, RememberDrops
<1>6. d \in 0..Len(all) /\ Len(heard) \in Nat /\ Len(chunk) \in Nat
  BY <1>1, <1>3 DEF Bytes
<1> HIDE DEF all
<1>7. Len(buffer \o chunk) = Len(all) - d
  BY <1>3, <1>4, <1>6, DropIs
<1>8. buffer' = Drop(all, d + n)
  BY <1>3, <1>4, <1>5, <1>6, <1>7, DropTwice
<1>9. d + n \in 0..Len(all)
  BY <1>3, <1>5, <1>6, <1>7
<1>10. heard' = all
  BY DEF all
<1> QED
  BY <1>8, <1>9, <1>10 DEF BufferIsSuffix

WitnessInv == TypeOK /\ BufferIsSuffix /\ VerdictsAreWitnessed

LEMMA WitnessInit == Init => WitnessInv
<1> SUFFICES ASSUME Init PROVE WitnessInv
  OBVIOUS
<1>1. heard \in Bytes /\ Len(heard) = 0 /\ buffer = heard
  BY EmptySeq DEF Init, Bytes
<1>2. buffer = Drop(heard, 0)
  BY <1>1, DropNone
<1> QED
  BY <1>1, <1>2, TypeInit DEF WitnessInv, BufferIsSuffix, VerdictsAreWitnessed, Init

LEMMA WitnessStep ==
  ASSUME \A i \in Index : PlainValue(i) \/ NoiseFree
  PROVE  WitnessInv /\ [Next]_vars => WitnessInv'
<1> SUFFICES ASSUME WitnessInv, [Next]_vars PROVE WitnessInv'
  OBVIOUS
<1>1. TypeOK /\ TypeOK'
  BY TypeStep DEF WitnessInv
<1>2. ASSUME NEW chunk \in Chunk, NEW at \in now..MaxTime, Observe(chunk, at)
      PROVE  BufferIsSuffix' /\ VerdictsAreWitnessed'
  <2> DEFINE text == Remember(buffer \o chunk)
  <2>1. /\ buffer' = text /\ heard' = heard \o chunk
        /\ results' = results \cup Decided(text, at)
    BY <1>2, ObserveIs
  <2>2. chunk \in Bytes
    BY SpecAssumption
  <2>3. BufferIsSuffix'
    BY <1>1, <2>1, <2>2, SuffixStep DEF WitnessInv
  <2> HIDE DEF text
  <2>4. PICK d \in 0..Len(heard') : text = Drop(heard', d)
    BY <2>1, <2>3 DEF BufferIsSuffix
  <2>5. /\ text \in Bytes /\ heard' \in Bytes /\ heard \in Bytes
        /\ PartOf(text, heard', d) /\ PartOf(heard, heard', 0) /\ d \in Nat
    <3>1. text \in Bytes /\ heard' \in Bytes /\ heard \in Bytes
      BY <1>1, <2>1 DEF TypeOK
    <3>2. Len(heard') = Len(heard) + Len(chunk) /\ \A k \in 1..Len(heard) : heard'[k] = heard[k]
      BY <2>1, <2>2, <3>1, ConcatIs
    <3>3. Len(heard) \in Nat /\ Len(chunk) \in Nat
      BY <2>2, <3>1 DEF Bytes
    <3>4. PartOf(heard, heard', 0)
      BY <3>2, <3>3 DEF PartOf
    <3> QED
      BY <2>4, <3>1, <3>2, <3>3, <3>4, DropIsPart
  <2>6. ASSUME NEW i \in Index, Found(i, text) \/ Found(i, heard) PROVE Found(i, heard')
    BY <2>5, <2>6, FoundInWhole
  <2>7. ASSUME NEW r \in results', r.passed = (r.index \in Required)
        PROVE  /\ Found(r.index, heard')
               /\ r.index \in Required => r.duration <= Specs[r.index].within
    <3>1. CASE r \in results
      BY <1>1, <2>6, <2>7, <3>1 DEF WitnessInv, VerdictsAreWitnessed, TypeOK
    <3>2. CASE r \in Decided(text, at)
      BY <2>6, <3>2 DEF Decided, Completed, Hits
    <3> QED
      BY <2>1, <3>1, <3>2
  <2> QED
    BY <2>3, <2>7 DEF VerdictsAreWitnessed
<1>3. ASSUME NEW at \in now..MaxTime, Finish(at)
      PROVE  BufferIsSuffix' /\ VerdictsAreWitnessed'
  <2>1. buffer' = buffer /\ heard' = heard /\ results' = results \cup Absent(at)
    BY <1>3, FinishIs
  <2>2. \A r \in Absent(at) : r.passed # (r.index \in Required)
    BY Kinds DEF Absent
  <2> QED
    BY <2>1, <2>2 DEF WitnessInv, BufferIsSuffix, VerdictsAreWitnessed
<1>4. CASE UNCHANGED vars
  BY <1>1, <1>4 DEF WitnessInv, BufferIsSuffix, VerdictsAreWitnessed, vars
<1> QED
  BY <1>1, <1>2, <1>3, <1>4 DEF Next, Dropped, WitnessInv

(* A verdict that a match decided is backed by the whole text heard, and a *)
(* serial_contains pass comes before its deadline, however the text was    *)
(* cut into reads, whatever the trimming of Observe threw away and however *)
(* many stray bytes the text holds - as long as no U+FFFD written for one  *)
(* of them can be taken for a byte of a value.                             *)
THEOREM EvaluatorVerdictsWitnessed ==
  ASSUME \A i \in Index : PlainValue(i) \/ NoiseFree
  PROVE  Spec => []VerdictsAreWitnessed
<1>1. WitnessInv => VerdictsAreWitnessed
  BY DEF WitnessInv
<1>2. WitnessInv /\ [Next]_vars => WitnessInv'
  BY WitnessStep
<1> QED
  BY <1>1, <1>2, WitnessInit, PTL DEF Spec

-----------------------------------------------------------------------------
(* Evidence *)

(* The window of evidence encloses a match (snippetAround). *)
LEMMA WindowIs ==
  ASSUME NEW i \in Index, FoldsInPlace(i), NEW text \in Bytes, Found(i, text)
  PROVE  \E at \in 0..(Len(text) - Len(Specs[i].value)) :
           /\ \A k \in 1..Len(Specs[i].value) :
                FoldByte(i, text[at + k]) = FoldByte(i, Specs[i].value[k])
           /\ EvidenceWindow(i, text).from \in 0..at
           /\ EvidenceWindow(i, text).to \in (at + Len(Specs[i].value))..Len(text)
<1> DEFINE v == Specs[i].value
           l == Len(v)
           n == Len(text)
           ft == Fold(i, text)
           fv == Fold(i, v)
           at == IndexOf(ft, fv)
           from == IF at < Context THEN 0 ELSE at - Context
           limit == at + l + Context
           to == Min({n, limit})
<1>1. v \in Bytes /\ l \in Nat /\ n \in Nat /\ Context \in Nat
  BY SpecFacts, SpecAssumption DEF Bytes
<1>2. /\ ft \in Bytes /\ Len(ft) = n /\ \A k \in 1..n : ft[k] = FoldByte(i, text[k])
      /\ fv \in Bytes /\ Len(fv) = l /\ \A k \in 1..l : fv[k] = FoldByte(i, v[k])
  <2> HIDE DEF v
  <2> QED
    BY <1>1, FoldIs
<1>3. at \in 0..(Len(ft) - Len(fv)) /\ at \in Nat /\ StandsAt(ft, fv, at)
  <2>1. Occurs(ft, fv)
    BY DEF Found
  <2> HIDE DEF ft, fv
  <2> QED
    BY <1>2, <2>1, IndexOfIs DEF Bytes
<1>4. EvidenceWindow(i, text) = [from |-> from, to |-> to]
  BY DEF EvidenceWindow
<1>5. EvidenceWindow(i, text).from = from /\ EvidenceWindow(i, text).to = to
  BY <1>4
<1> HIDE DEF at, ft, fv, n, l
<1>6. at \in 0..(n - l) /\ at \in Nat /\ at + l <= n
  BY <1>1, <1>2, <1>3
<1>7. from \in 0..at
  BY <1>1, <1>6
<1>8. to \in (at + l)..n
  <2>1. limit \in Nat /\ at + l <= limit
    BY <1>1, <1>6
  <2>2. to = IF n <= limit THEN n ELSE limit
    <3> HIDE DEF limit
    <3> QED
      BY <1>1, <2>1, MinOfTwo
  <2> HIDE DEF limit, to
  <2> QED
    BY <1>1, <1>6, <2>1, <2>2
<1>9. ASSUME NEW k \in 1..l PROVE FoldByte(i, text[at + k]) = FoldByte(i, v[k])
  <2>1. at + k \in 1..n
    BY <1>1, <1>6
  <2>2. ft[at + k] = fv[k]
    BY <1>2, <1>3 DEF StandsAt
  <2> QED
    BY <1>2, <2>1, <2>2
<1> HIDE DEF from, to
<1> QED
  BY <1>5, <1>6, <1>7, <1>8, <1>9 DEF l, n

LEMMA NoPanic ==
  ASSUME NEW i \in Index, FoldsInPlace(i), NEW text \in Bytes, Found(i, text)
  PROVE  ~EvidencePanics(i, text)
<1> DEFINE from == EvidenceWindow(i, text).from
           to == EvidenceWindow(i, text).to
           l == Len(Specs[i].value)
<1>1. PICK p \in 0..(Len(text) - l) : from \in 0..p /\ to \in (p + l)..Len(text)
  BY WindowIs
<1>2. l \in Nat /\ Len(text) \in Nat
  BY SpecFacts DEF Bytes
<1>3. EvidencePanics(i, text) <=> from > to
  BY DEF EvidencePanics
<1> HIDE DEF from, to, l
<1> QED
  BY <1>1, <1>2, <1>3

LEMMA SnippetShowsValue ==
  ASSUME NEW i \in Index, FoldsInPlace(i), NEW text \in Bytes, Found(i, text)
  PROVE  Occurs(Fold(i, SnippetAround(i, text)), TrimSpace(Fold(i, Specs[i].value)))
<1> DEFINE v == Specs[i].value
           l == Len(v)
           fv == Fold(i, v)
           trimmed == TrimSpace(fv)
           from == EvidenceWindow(i, text).from
           to == EvidenceWindow(i, text).to
           sub == SubSeq(text, from + 1, to)
           evidence == SnippetAround(i, text)
           fe == Fold(i, evidence)
<1>1. PICK at \in 0..(Len(text) - l) :
        /\ \A k \in 1..l : FoldByte(i, text[at + k]) = FoldByte(i, v[k])
        /\ from \in 0..at
        /\ to \in (at + l)..Len(text)
  BY WindowIs
<1>2. v \in Bytes /\ l \in Nat /\ Len(text) \in Nat /\ at \in Nat /\ from \in Nat /\ to \in Nat
  BY <1>1, SpecFacts DEF Bytes
<1>3. fv \in Bytes /\ Len(fv) = l /\ \A k \in 1..l : fv[k] = FoldByte(i, v[k])
  <2> HIDE DEF v
  <2> QED
    BY <1>2, FoldIs
<1>4. evidence = TrimSpace(sub) /\ evidence \in Bytes
  BY SnippetType DEF SnippetAround
<1> HIDE DEF from, to, l, fv
<1>5. from <= at /\ at + l <= to /\ to <= Len(text) /\ from + 1 \in Nat \ {0}
  BY <1>1, <1>2
<1>6. /\ sub \in Bytes
      /\ Len(sub) = to - from
      /\ \A j \in 1..(to - from) : sub[j] = text[from + j]
  <2> DEFINE m == from + 1
  <2>1. /\ SubSeq(text, m, to) \in Bytes
        /\ Len(SubSeq(text, m, to)) = IF m <= to THEN to - m + 1 ELSE 0
        /\ \A j \in 1..(to - m + 1) : SubSeq(text, m, to)[j] = text[m + j - 1]
    <3> HIDE DEF m
    <3>1. m \in Nat \ {0}
      BY <1>5 DEF m
    <3> QED
      BY <1>2, <1>5, <3>1, SubSeqIs
  <2>2. to - m + 1 = to - from /\ (IF m <= to THEN to - m + 1 ELSE 0) = to - from
    BY <1>2, <1>5
  <2>3. \A j \in 1..(to - from) : m + j - 1 = from + j
    BY <1>2
  <2> QED
    BY <2>1, <2>2, <2>3
<1> HIDE DEF sub, evidence, fe
<1>7. fe \in Bytes /\ Len(fe) = Len(evidence) /\ \A k \in 1..Len(evidence) : fe[k] = FoldByte(i, evidence[k])
  BY <1>4, FoldIs DEF fe
<1> DEFINE solid == {k \in 1..l : fv[k] \notin Space}
           kept == {j \in 1..(to - from) : sub[j] \notin Space}
           shift == at - from
<1>8. shift \in Nat /\ shift + l <= to - from
  BY <1>2, <1>5
<1>9. ASSUME NEW k \in 1..l
      PROVE  /\ shift + k \in 1..(to - from)
             /\ FoldByte(i, sub[shift + k]) = fv[k]
             /\ k \in solid => shift + k \in kept
  <2>1. shift + k \in 1..(to - from) /\ from + (shift + k) = at + k
    BY <1>2, <1>5, <1>8
  <2> HIDE DEF shift
  <2>2. sub[shift + k] = text[at + k]
    BY <1>6, <2>1
  <2>3. FoldByte(i, sub[shift + k]) = fv[k]
    BY <1>1, <1>3, <2>2
  <2>4. sub[shift + k] \in Space => fv[k] \in Space
    BY <2>3, ByteAssumption DEF FoldByte
  <2> QED
    BY <2>1, <2>3, <2>4
<1> HIDE DEF shift
<1>10. CASE solid = {}
  <2>1. trimmed = <<>>
    BY <1>3, <1>10 DEF TrimSpace
  <2>2. fe \in Seq(Byte) /\ <<>> \in Seq(Byte) /\ Len(fe) \in Nat /\ Len(<<>>) = 0
    BY <1>7, EmptySeq, LenProperties DEF Bytes
  <2>3. 0 \in 0..(Len(fe) - Len(<<>>)) /\ StandsAt(fe, <<>>, 0)
    BY <2>2 DEF StandsAt
  <2>4. Occurs(fe, <<>>)
    BY <2>2, <2>3, OccursIs
  <2> QED
    BY <2>1, <2>4 DEF fe, evidence, fv
<1>11. CASE solid # {}
  <2> DEFINE p == Min(solid)
             q == Max(solid)
             a == Min(kept)
             b == Max(kept)
  <2>1. /\ trimmed = SubSeq(fv, p, q)
        /\ p \in solid /\ q \in solid /\ p <= q
    <3>1. solid = {k \in 1..Len(fv) : fv[k] \notin Space}
      BY <1>3
    <3> HIDE DEF solid
    <3>2. /\ trimmed = SubSeq(fv, p, q) /\ p \in solid /\ q \in solid
          /\ \A k \in solid : p <= k /\ k <= q
      BY <1>3, <1>11, <3>1, TrimSpaceIs
    <3> QED
      BY <3>2
  <2>2. p \in 1..l /\ q \in 1..l
    BY <2>1
  <2>3. shift + p \in kept /\ shift + q \in kept
    <3> HIDE DEF p, q
    <3> QED
      BY <1>9, <2>1, <2>2
  <2>4. /\ evidence = SubSeq(sub, a, b)
        /\ a \in kept /\ b \in kept
        /\ a <= shift + p /\ shift + q <= b
    <3>1. kept = {j \in 1..Len(sub) : sub[j] \notin Space} /\ kept # {}
      BY <1>6, <2>3
    <3> HIDE DEF kept, p, q
    <3>2. /\ evidence = SubSeq(sub, a, b) /\ a \in kept /\ b \in kept
          /\ \A j \in kept : a <= j /\ j <= b
      BY <1>4, <1>6, <3>1, TrimSpaceIs
    <3> QED
      BY <2>3, <3>2
  <2>5. a \in 1..(to - from) /\ b \in 1..(to - from)
    BY <2>4
  <2> HIDE DEF p, q, a, b, solid, kept
  <2> DEFINE o == shift + p - a
  <2>6. /\ p \in Nat \ {0} /\ q \in Nat /\ p <= q /\ q <= l
        /\ a \in Nat \ {0} /\ b \in Nat /\ a <= b /\ b <= to - from
        /\ o \in Nat /\ o + (q - p + 1) <= b - a + 1
    BY <1>2, <1>8, <2>1, <2>2, <2>4, <2>5
  <2>7. /\ trimmed \in Bytes /\ Len(trimmed) = q - p + 1
        /\ \A k \in 1..(q - p + 1) : trimmed[k] = fv[p + k - 1]
    BY <1>3, <2>1, <2>6, SubSeqIs
  <2>8. /\ Len(evidence) = b - a + 1
        /\ \A k \in 1..(b - a + 1) : evidence[k] = sub[a + k - 1]
    BY <1>6, <2>4, <2>6, SubSeqIs
  <2> HIDE DEF trimmed
  <2>9. ASSUME NEW k \in 1..(q - p + 1) PROVE fe[o + k] = trimmed[k]
    <3>1. /\ o + k \in 1..(b - a + 1) /\ p + k - 1 \in 1..l
          /\ a + (o + k) - 1 = shift + (p + k - 1)
      BY <1>2, <1>8, <2>6
    <3> DEFINE j == o + k
               x == p + k - 1
    <3>2. j \in 1..(b - a + 1) /\ x \in 1..l /\ a + j - 1 = shift + x
      BY <3>1
    <3> HIDE DEF j, x, o
    <3>3. evidence[j] = sub[shift + x]
      BY <2>8, <3>2
    <3>4. fe[j] = FoldByte(i, sub[shift + x])
      BY <1>7, <2>8, <3>2, <3>3
    <3>5. fe[j] = fv[x]
      BY <1>9, <3>2, <3>4
    <3>6. trimmed[k] = fv[x]
      BY <2>7 DEF x
    <3> QED
      BY <3>5, <3>6 DEF j
  <2>10. o \in 0..(Len(fe) - Len(trimmed)) /\ StandsAt(fe, trimmed, o)
    <3>1. o \in 0..((b - a + 1) - (q - p + 1))
      BY <2>6
    <3> HIDE DEF o
    <3> QED
      BY <1>7, <2>7, <2>8, <2>9, <3>1 DEF StandsAt
  <2> HIDE DEF o
  <2>11. Occurs(fe, trimmed)
    BY <1>7, <2>7, <2>10, OccursIs DEF Bytes
  <2> QED
    BY <2>11 DEF trimmed, fe, evidence, fv
<1> QED
  BY <1>10, <1>11

LEMMA EvidenceStep ==
  ASSUME \A i \in Index : FoldsInPlace(i)
  PROVE  TypeOK /\ EvidenceShowsValue /\ [Next]_vars => EvidenceShowsValue'
<1> SUFFICES ASSUME TypeOK, EvidenceShowsValue, [Next]_vars PROVE EvidenceShowsValue'
  OBVIOUS
<1>1. ASSUME NEW chunk \in Chunk, NEW at \in now..MaxTime, Observe(chunk, at)
      PROVE  EvidenceShowsValue'
  <2> DEFINE text == Remember(buffer \o chunk)
  <2>1. /\ buffer' = text
        /\ results' = results \cup Decided(text, at)
    BY <1>1, ObserveIs
  <2>2. text \in Bytes
    <3>1. TypeOK'
      BY TypeStep
    <3> QED
      BY <2>1, <3>1 DEF TypeOK
  <2> HIDE DEF text
  <2>3. ASSUME NEW r \in Decided(text, at)
        PROVE  Occurs(Fold(r.index, r.evidence), TrimSpace(Fold(r.index, Specs[r.index].value)))
    <3>1. PICK i \in Completed(text, at) :
            r = [index |-> i, passed |-> i \in Required, duration |-> at,
                 evidence |-> SnippetAround(i, text)]
      BY DEF Decided
    <3>2. i \in Index /\ Found(i, text) /\ r.index = i /\ r.evidence = SnippetAround(i, text)
      BY <3>1 DEF Completed, Hits
    <3> QED
      BY <2>2, <3>2, SnippetShowsValue
  <2> QED
    BY <2>1, <2>3 DEF EvidenceShowsValue
<1>2. ASSUME NEW at \in now..MaxTime, Finish(at) PROVE EvidenceShowsValue'
  <2>1. results' = results \cup Absent(at)
    BY <1>2, FinishIs
  <2>2. \A r \in Absent(at) : r.passed # (r.index \in Required)
    BY Kinds DEF Absent
  <2> QED
    BY <2>1, <2>2 DEF EvidenceShowsValue
<1>3. CASE UNCHANGED vars
  BY <1>3 DEF EvidenceShowsValue, vars
<1> QED
  BY <1>1, <1>2, <1>3 DEF Next, Dropped

(* The slice that cuts the evidence out of the buffer is in range, under   *)
(* the same hypothesis (snippetAround: haystack[start:end]).               *)
THEOREM EvaluatorNeverPanics ==
  ASSUME \A i \in Index : FoldsInPlace(i)
  PROVE  Spec => [](status # "panicked")
<1>1. Init => status # "panicked"
  BY DEF Init
<1>2. TypeOK /\ status # "panicked" /\ [Next]_vars => (status # "panicked")'
  <2> SUFFICES ASSUME TypeOK, status # "panicked", [Next]_vars PROVE status' # "panicked"
    OBVIOUS
  <2>1. ASSUME NEW chunk \in Chunk, NEW at \in now..MaxTime, Observe(chunk, at)
        PROVE  status' # "panicked"
    <3> DEFINE text == Remember(buffer \o chunk)
    <3>1. /\ buffer' = text
          /\ status' = IF Completed(text, at) = Hits(text, at) THEN "open" ELSE "panicked"
      BY <2>1, ObserveIs
    <3>2. TypeOK'
      BY TypeStep
    <3>3. text \in Bytes
      BY <3>1, <3>2 DEF TypeOK
    <3> HIDE DEF text
    <3>4. \A i \in Hits(text, at) : ~EvidencePanics(i, text)
      BY <3>3, NoPanic DEF Hits
    <3>5. Completed(text, at) = Hits(text, at)
      BY <3>4 DEF Completed
    <3> QED
      BY <3>1, <3>5
  <2>2. ASSUME NEW at \in now..MaxTime, Finish(at) PROVE status' # "panicked"
    BY <2>2, FinishIs
  <2>3. CASE UNCHANGED vars
    BY <2>3 DEF vars
  <2> QED
    BY <2>1, <2>2, <2>3 DEF Next, Dropped
<1> QED
  BY <1>1, <1>2, TypeInit, TypeStep, PTL DEF Spec

(* The evidence of a verdict that a match decided shows the value, white   *)
(* space around it aside (snippetAround): for every exact-case assertion   *)
(* whatever the text, and for the others when no byte of it is stray, the  *)
(* case in which folding moves no byte.                                    *)
THEOREM EvaluatorEvidenceShows ==
  ASSUME \A i \in Index : FoldsInPlace(i)
  PROVE  Spec => []EvidenceShowsValue
<1>1. Init => EvidenceShowsValue
  BY DEF Init, EvidenceShowsValue
<1>2. TypeOK /\ EvidenceShowsValue /\ [Next]_vars => EvidenceShowsValue'
  BY EvidenceStep
<1> QED
  BY <1>1, <1>2, TypeInit, TypeStep, PTL DEF Spec

-----------------------------------------------------------------------------
(* Evaluator implements SerialVerdicts on text of one-byte characters.     *)
(*                                                                         *)
(* The buffer holds the last MaxBytes bytes heard (or everything), and an  *)
(* undecided assertion whose value has been heard can only be a required   *)
(* one past its deadline.  So a value that a read makes appear ends in     *)
(* that read, and by ChunkAssumption it lies inside the buffer.            *)

LEMMA RememberLast ==
  ASSUME NoiseFree, NEW text \in Bytes, Len(text) > MaxBytes
  PROVE  Remember(text) = Drop(text, Len(text) - MaxBytes)
<1> DEFINE cut == Drop(text, Len(text) - MaxBytes)
           n == CHOOSE k \in 0..Len(cut) :
                  /\ ValidString(Drop(cut, k))
                  /\ \A j \in 0..(k - 1) : ~ValidString(Drop(cut, j))
<1>1. Len(text) \in Nat /\ MaxBytes \in Nat /\ Len(text) - MaxBytes \in 0..Len(text)
  BY MaxBytesIs DEF Bytes
<1>2. cut \in Bytes
  <2> DEFINE over == Len(text) - MaxBytes
  <2>1. over \in 0..Len(text)
    BY <1>1
  <2> HIDE DEF over
  <2>2. Drop(text, over) \in Bytes
    BY <2>1, DropIs
  <2> QED
    BY <2>2 DEF over
<1>3. Remember(text) = Drop(cut, n)
  BY <1>1 DEF Remember
<1> HIDE DEF cut
<1>4. Len(cut) \in Nat
  BY <1>2 DEF Bytes
<1>5. \A k : ValidString(Drop(cut, k))
  BY NoStray DEF ValidString
<1>6. n \in 0..Len(cut) /\ \A j \in 0..(n - 1) : ~ValidString(Drop(cut, j))
  <2>1. 0 \in 0..Len(cut) /\ \A j \in 0..(0 - 1) : ~ValidString(Drop(cut, j))
    BY <1>4
  <2> QED
    BY <1>5, <2>1
<1> HIDE DEF n
<1>7. n = 0
  <2> SUFFICES ASSUME n # 0 PROVE FALSE
    OBVIOUS
  <2>1. 0 \in 0..(n - 1)
    BY <1>4, <1>6
  <2> QED
    BY <1>5, <1>6, <2>1
<1>8. Drop(cut, n) = cut
  BY <1>2, <1>7, DropNone
<1> QED
  BY <1>3, <1>8 DEF cut

\* the buffer has forgotten nothing, or holds at least MaxBytes bytes
RemembersEnough ==
  \E d \in 0..Len(heard) :
    /\ buffer = Drop(heard, d)
    /\ d = 0 \/ Len(heard) - d >= MaxBytes

LEMMA RemembersStep ==
  ASSUME NoiseFree, TypeOK, RemembersEnough, NEW chunk \in Bytes,
         buffer' = Remember(buffer \o chunk), heard' = heard \o chunk
  PROVE  RemembersEnough'
<1> DEFINE all == heard \o chunk
           N == Len(all)
<1>1. heard \in Bytes /\ buffer \in Bytes
  BY DEF TypeOK
<1>2. PICK d \in 0..Len(heard) : buffer = Drop(heard, d) /\ (d = 0 \/ Len(heard) - d >= MaxBytes)
  BY DEF RemembersEnough
<1>3. all \in Bytes /\ buffer \o chunk \in Bytes /\ N = Len(heard) + Len(chunk)
  BY <1>1, ConcatIs
<1>4. buffer \o chunk = Drop(all, d)
  BY <1>1, <1>2, DropOfConcat
<1>5. Len(heard) \in Nat /\ Len(chunk) \in Nat /\ MaxBytes \in Nat
  BY <1>1, MaxBytesIs DEF Bytes
<1>6. d \in 0..N /\ N \in Nat /\ (d = 0 \/ N - d >= MaxBytes)
  BY <1>2, <1>3, <1>5
<1>7. heard' = all
  OBVIOUS
<1> HIDE DEF all
<1>8. Len(buffer \o chunk) = N - d
  BY <1>3, <1>4, <1>6, DropIs
<1>9. CASE N - d <= MaxBytes
  <2>1. buffer' = Drop(all, d)
    BY <1>3, <1>4, <1>8, <1>9 DEF Remember
  <2> QED
    BY <1>6, <1>7, <2>1 DEF RemembersEnough
<1>10. CASE N - d > MaxBytes
  <2> DEFINE n == N - d - MaxBytes
             e == d + n
  <2>1. n \in 0..(N - d) /\ e \in 0..N /\ N - e = MaxBytes
    BY <1>5, <1>6, <1>10
  <2>2. buffer' = Drop(buffer \o chunk, n)
    BY <1>3, <1>8, <1>10, RememberLast
  <2> HIDE DEF n, N
  <2>3. Drop(Drop(all, d), n) = Drop(all, e)
    BY <1>3, <1>6, <2>1, DropTwice DEF N
  <2>4. buffer' = Drop(all, e)
    BY <1>4, <2>2, <2>3
  <2> HIDE DEF e
  <2>5. e \in 0..Len(heard') /\ Len(heard') - e >= MaxBytes /\ buffer' = Drop(heard', e)
    BY <1>5, <1>7, <2>1, <2>4 DEF N
  <2> QED
    BY <2>5 DEF RemembersEnough
<1> QED
  BY <1>5, <1>6, <1>9, <1>10

(* A value that stands in the whole stands in every part around it. *)
LEMMA StandsInPart ==
  ASSUME NoiseFree, NEW i \in Index, NEW part \in Bytes, NEW whole \in Bytes, NEW d \in Nat,
         PartOf(part, whole, d), NEW o \in Nat, d <= o,
         o + Len(Specs[i].value) <= d + Len(part), Stands(i, whole, o)
  PROVE  Found(i, part)
<1> DEFINE l == Len(Specs[i].value)
           q == o - d
<1>1. l \in Nat /\ Len(part) \in Nat
  BY SpecFacts DEF Bytes
<1>2. q \in 0..(Len(part) - l)
  BY <1>1
<1>3. ASSUME NEW k \in 1..l PROVE part[q + k] = whole[o + k]
  <2>1. q + k \in 1..Len(part) /\ d + (q + k) = o + k
    BY <1>1
  <2> HIDE DEF q
  <2> QED
    BY <2>1 DEF PartOf
<1>4. Stands(i, part, q)
  BY <1>3 DEF Stands
<1> HIDE DEF q
<1> QED
  BY <1>2, <1>4, FoundIs DEF FoldsInPlace

\* an undecided assertion that has been heard is required and late
UndecidedIsLate ==
  \A i \in Index : ~done[i] /\ Found(i, heard) => i \in Required /\ now > Specs[i].within

\* the assertions that the whole text decides at a read
Due(text, at) ==
  {i \in Index : ~done[i] /\ (i \in Required => at <= Specs[i].within) /\ Found(i, text)}

ContractInv == TypeOK /\ OneResultPerAssertion /\ RemembersEnough /\ UndecidedIsLate

(* A read decides what the whole text decides, and no slice panics. *)
LEMMA ObserveDecides ==
  ASSUME NoiseFree, ContractInv, NEW chunk \in Chunk, NEW at \in now..MaxTime, Observe(chunk, at)
  PROVE  /\ RemembersEnough'
         /\ Completed(Remember(buffer \o chunk), at) = Due(heard \o chunk, at)
<1> DEFINE text == Remember(buffer \o chunk)
           all == heard \o chunk
<1>1. buffer' = text /\ heard' = all
  BY ObserveIs
<1>2. chunk \in Bytes /\ Len(chunk) + LongestValue - 1 <= MaxBytes
  BY SpecAssumption, ChunkAssumption
<1>3. TypeOK' /\ RemembersEnough'
  BY <1>1, <1>2, TypeStep, RemembersStep DEF ContractInv, Next
<1>4. text \in Bytes /\ all \in Bytes /\ heard \in Bytes
  BY <1>1, <1>3 DEF TypeOK, ContractInv
<1>5. /\ Len(heard) \in Nat /\ Len(chunk) \in Nat /\ MaxBytes \in Nat
      /\ Len(all) = Len(heard) + Len(chunk) /\ \A k \in 1..Len(heard) : all[k] = heard[k]
  BY <1>2, <1>4, MaxBytesIs, ConcatIs DEF Bytes
<1> HIDE DEF text, all
<1>6. PICK d \in 0..Len(all) : text = Drop(all, d) /\ (d = 0 \/ Len(all) - d >= MaxBytes)
  BY <1>1, <1>3 DEF RemembersEnough
<1>7. /\ PartOf(text, all, d) /\ d + Len(text) = Len(all) /\ d \in Nat
      /\ PartOf(heard, all, 0)
  <2>1. PartOf(heard, all, 0)
    BY <1>5 DEF PartOf
  <2>2. PartOf(text, all, d) /\ Len(text) = Len(all) - d
    BY <1>4, <1>6, DropIs, DropIsPart
  <2> QED
    BY <1>5, <1>6, <2>1, <2>2
<1>8. ASSUME NEW i \in Index, ~done[i], i \in Required => at <= Specs[i].within
      PROVE  Found(i, text) <=> Found(i, all)
  <2>1. Found(i, text) => Found(i, all)
    BY <1>4, <1>7, FoundInWhole
  <2>2. ASSUME Found(i, all) PROVE Found(i, text)
    <3> DEFINE l == Len(Specs[i].value)
    <3>1. l \in Nat /\ l <= LongestValue /\ LongestValue \in Nat
      BY SpecFacts, LongestValueIs
    <3>2. PICK o \in 0..(Len(all) - l) : Stands(i, all, o)
      BY <1>4, <2>2, FoundIs DEF FoldsInPlace
    <3>3. ~Found(i, heard)
      <4>1. now \in Nat /\ at >= now /\ at \in Nat /\ Specs[i].within \in Nat
        BY SpecFacts, SpecAssumption DEF ContractInv, TypeOK
      <4>2. ~(i \in Required /\ now > Specs[i].within)
        BY <1>8, <4>1
      <4> QED
        BY <1>8, <4>2 DEF ContractInv, UndecidedIsLate
    <3>4. o \in Nat /\ o + l <= Len(all)
      BY <1>5, <3>1, <3>2
    <3>5. ~(o + l <= Len(heard))
      <4> SUFFICES ASSUME o + l <= Len(heard) PROVE FALSE
        OBVIOUS
      <4>1. o + l <= 0 + Len(heard) /\ 0 <= o
        BY <1>5, <3>1, <3>4
      <4>2. Found(i, heard)
        BY <1>4, <1>7, <3>2, <3>4, <4>1, StandsInPart
      <4> QED
        BY <3>3, <4>2
    <3>6. d <= o
      BY <1>2, <1>5, <1>6, <3>1, <3>4, <3>5
    <3>7. o + l <= d + Len(text)
      BY <1>7, <3>4
    <3> QED
      BY <1>4, <1>7, <3>2, <3>4, <3>6, <3>7, StandsInPart
  <2> QED
    BY <2>1, <2>2
<1>9. Hits(text, at) = Due(all, at)
  BY <1>8 DEF Hits, Due
<1>10. ASSUME NEW i \in Hits(text, at) PROVE ~EvidencePanics(i, text)
  BY <1>4, NoPanic DEF Hits, FoldsInPlace
<1>11. Completed(text, at) = Hits(text, at)
  BY <1>10 DEF Completed
<1> QED
  BY <1>3, <1>9, <1>11 DEF text, all

LEMMA ContractInvInit == ASSUME NoiseFree PROVE Init => ContractInv
<1> SUFFICES ASSUME Init PROVE ContractInv
  OBVIOUS
<1>1. heard \in Bytes /\ Len(heard) = 0 /\ buffer = heard
  BY EmptySeq DEF Init, Bytes
<1>2. RemembersEnough
  BY <1>1, DropNone DEF RemembersEnough
<1>3. ASSUME NEW i \in Index PROVE ~Found(i, heard)
  <2>1. 0..(Len(heard) - Len(Specs[i].value)) = {}
    BY <1>1, SpecFacts
  <2> QED
    BY <1>1, <2>1, FoundIs DEF FoldsInPlace
<1>4. OneResultPerAssertion
  BY DEF OneResultPerAssertion, Init
<1> QED
  BY <1>2, <1>3, <1>4, TypeInit DEF ContractInv, UndecidedIsLate

LEMMA ContractInvStep ==
  ASSUME NoiseFree PROVE ContractInv /\ [Next]_vars => ContractInv'
<1> SUFFICES ASSUME ContractInv, [Next]_vars PROVE ContractInv'
  OBVIOUS
<1>1. TypeOK' /\ OneResultPerAssertion'
  BY TypeStep, OneResultStep DEF ContractInv
<1>2. ASSUME NEW chunk \in Chunk, NEW at \in now..MaxTime, Observe(chunk, at)
      PROVE  RemembersEnough' /\ UndecidedIsLate'
  <2> DEFINE text == Remember(buffer \o chunk)
  <2>1. /\ RemembersEnough'
        /\ Completed(text, at) = Due(heard \o chunk, at)
    BY <1>2, ObserveDecides
  <2>2. /\ heard' = heard \o chunk /\ now' = at
        /\ done' = [i \in Index |-> done[i] \/ i \in Completed(text, at)]
    BY <1>2, ObserveIs
  <2> HIDE DEF text
  <2>3. ASSUME NEW i \in Index, ~done'[i], Found(i, heard')
        PROVE  i \in Required /\ now' > Specs[i].within
    <3>1. ~done[i] /\ i \notin Due(heard', at)
      BY <2>1, <2>2, <2>3
    <3>2. i \in Required /\ ~(at <= Specs[i].within)
      BY <2>3, <3>1 DEF Due
    <3>3. at \in Nat /\ Specs[i].within \in Nat
      BY SpecFacts, SpecAssumption DEF ContractInv, TypeOK
    <3> QED
      BY <2>2, <3>2, <3>3
  <2> QED
    BY <2>1, <2>3 DEF UndecidedIsLate
<1>3. ASSUME NEW at \in now..MaxTime, Finish(at) PROVE RemembersEnough' /\ UndecidedIsLate'
  BY <1>3, FinishIs DEF ContractInv, RemembersEnough, UndecidedIsLate
<1>4. CASE UNCHANGED vars
  BY <1>1, <1>4 DEF ContractInv, RemembersEnough, UndecidedIsLate, vars
<1> QED
  BY <1>1, <1>2, <1>3, <1>4 DEF Next, Dropped, ContractInv

(* The verdicts as SerialVerdicts sees them. *)
Seen(rs) == {[assertion |-> r.index, passed |-> r.passed, at |-> r.duration] : r \in rs}

LEMMA UndecidedIs ==
  ASSUME ContractInv PROVE \A i \in Index : Contract!Undecided(i) <=> ~done[i]
<1> DEFINE seen(r) == [assertion |-> r.index, passed |-> r.passed, at |-> r.duration]
<1> SUFFICES ASSUME NEW i \in Index PROVE Contract!Undecided(i) <=> ~done[i]
  OBVIOUS
<1>1. \A r : seen(r).assertion = r.index
  OBVIOUS
<1>2. Contract!Undecided(i) <=> \A s \in {seen(r) : r \in results} : s.assertion # i
  BY DEF Contract!Undecided
<1> HIDE DEF seen
<1>3. Contract!Undecided(i) <=> \A r \in results : r.index # i
  BY <1>1, <1>2
<1> QED
  BY <1>3 DEF ContractInv, OneResultPerAssertion

LEMMA ObserveRefines ==
  ASSUME NoiseFree, ContractInv, NEW chunk \in Chunk, NEW at \in now..MaxTime, Observe(chunk, at)
  PROVE  Contract!Next
<1> DEFINE text == Remember(buffer \o chunk)
           all == heard \o chunk
<1>1. /\ heard' = all
      /\ results' = results \cup Decided(text, at)
      /\ Completed(text, at) = Due(all, at)
  BY ObserveIs, ObserveDecides
<1> HIDE DEF text, all
<1>2. Seen(results') = Seen(results) \cup Seen(Decided(text, at))
  BY <1>1 DEF Seen
<1>3. Seen(Decided(text, at)) = {[assertion |-> i, passed |-> i \in Required, at |-> at] : i \in Due(all, at)}
  <2> DEFINE result(i) == [index |-> i, passed |-> i \in Required, duration |-> at,
                           evidence |-> SnippetAround(i, text)]
             seen(r) == [assertion |-> r.index, passed |-> r.passed, at |-> r.duration]
             verdict(i) == [assertion |-> i, passed |-> i \in Required, at |-> at]
  <2>1. \A i : seen(result(i)) = verdict(i)
    OBVIOUS
  <2>2. Decided(text, at) = {result(i) : i \in Due(all, at)}
    BY <1>1 DEF Decided
  <2>3. Seen(Decided(text, at)) = {seen(r) : r \in Decided(text, at)}
    BY DEF Seen
  <2> HIDE DEF result, seen, verdict
  <2>4. {seen(r) : r \in Decided(text, at)} = {verdict(i) : i \in Due(all, at)}
    BY <2>1, <2>2
  <2> QED
    BY <2>3, <2>4 DEF verdict
<1>4. \A i \in Index : Contract!Undecided(i) <=> ~done[i]
  BY UndecidedIs
<1>5. Contract!ShownVerdicts(all, at) = Seen(Decided(text, at))
  <2> DEFINE pass(i) == [assertion |-> i, passed |-> TRUE, at |-> at]
             fail(i) == [assertion |-> i, passed |-> FALSE, at |-> at]
             verdict(i) == [assertion |-> i, passed |-> i \in Required, at |-> at]
             passes == {i \in Required : Contract!Undecided(i) /\ at <= Specs[i].within /\ Found(i, all)}
             fails == {i \in Forbidden : Contract!Undecided(i) /\ Found(i, all)}
  <2>1. Contract!ShownVerdicts(all, at) = {pass(i) : i \in passes} \cup {fail(i) : i \in fails}
    BY DEF Contract!ShownVerdicts, Contract!Verdict
  <2>2. passes = Due(all, at) \cap Required
    BY <1>4, Kinds DEF Due
  <2>3. fails = Due(all, at) \cap Forbidden
    BY <1>4, Kinds DEF Due
  <2>4. (\A i \in Required : verdict(i) = pass(i)) /\ (\A i \in Forbidden : verdict(i) = fail(i))
    <3>1. \A i \in Required : (i \in Required) = TRUE
      OBVIOUS
    <3>2. \A i \in Forbidden : (i \in Required) = FALSE
      BY Kinds
    <3> QED
      BY <3>1, <3>2, Zenon
  <2>5. Due(all, at) \subseteq Required \cup Forbidden
    BY Kinds DEF Due
  <2> HIDE DEF pass, fail, verdict, passes, fails
  <2>6. {pass(i) : i \in passes} \cup {fail(i) : i \in fails} = {verdict(i) : i \in Due(all, at)}
    BY <2>2, <2>3, <2>4, <2>5
  <2> QED
    BY <1>3, <2>1, <2>6 DEF verdict
<1>6. at \in 0..MaxTime
  BY SpecAssumption DEF ContractInv, TypeOK
<1>7. Seen(results') = Seen(results) \cup Contract!ShownVerdicts(heard \o chunk, at)
  BY <1>2, <1>5 DEF all
<1>8. Contract!Observe(chunk, at)
  BY <1>1, <1>7 DEF Contract!Observe, Seen, all
<1> QED
  BY <1>6, <1>8 DEF Contract!Next

LEMMA FinishRefines ==
  ASSUME ContractInv, NEW at \in now..MaxTime, Finish(at)
  PROVE  Contract!Next
<1> DEFINE open == {i \in Index : ~done[i]}
           late(i) == [assertion |-> i, passed |-> FALSE, at |-> Specs[i].within]
           clean(i) == [assertion |-> i, passed |-> TRUE, at |-> at]
           verdict(i) == [assertion |-> i, passed |-> i \in Forbidden,
                          at |-> IF i \in Required THEN Specs[i].within ELSE at]
           missed == {i \in Required : Contract!Undecided(i)}
           spared == {i \in Forbidden : Contract!Undecided(i)}
<1>1. heard' = heard /\ results' = results \cup Absent(at)
  BY FinishIs
<1>2. Seen(results') = Seen(results) \cup Seen(Absent(at))
  BY <1>1 DEF Seen
<1>3. Seen(Absent(at)) = {verdict(i) : i \in open}
  <2> DEFINE result(i) == [index |-> i, passed |-> i \in Forbidden,
                           duration |-> IF i \in Required THEN Specs[i].within ELSE at,
                           evidence |-> <<>>]
             seen(r) == [assertion |-> r.index, passed |-> r.passed, at |-> r.duration]
  <2>1. \A i : seen(result(i)) = verdict(i)
    OBVIOUS
  <2>2. Absent(at) = {result(i) : i \in open}
    BY DEF Absent
  <2>3. Seen(Absent(at)) = {seen(r) : r \in Absent(at)}
    BY DEF Seen
  <2> HIDE DEF result, seen, verdict, open
  <2>4. {seen(r) : r \in Absent(at)} = {verdict(i) : i \in open}
    BY <2>1, <2>2
  <2> QED
    BY <2>3, <2>4
<1>4. \A i \in Index : Contract!Undecided(i) <=> ~done[i]
  BY UndecidedIs
<1>5. Contract!AbsentVerdicts(at) = {late(i) : i \in missed} \cup {clean(i) : i \in spared}
  <2>1. \A i \in Required : [j \in Required |-> Specs[j].within][i] = Specs[i].within
    OBVIOUS
  <2> QED
    BY <2>1 DEF Contract!AbsentVerdicts, Contract!Verdict
<1>6. missed = open \cap Required /\ spared = open \cap Forbidden
  BY <1>4, Kinds
<1>7. (\A i \in Required : verdict(i) = late(i)) /\ (\A i \in Forbidden : verdict(i) = clean(i))
  <2>1. \A i \in Forbidden : (i \in Forbidden) = TRUE /\ i \notin Required
    BY Kinds
  <2>2. \A i \in Required : (i \in Forbidden) = FALSE
    BY Kinds
  <2>3. ASSUME NEW i \in Required PROVE verdict(i) = late(i)
    BY <2>2, Zenon
  <2>4. ASSUME NEW i \in Forbidden PROVE verdict(i) = clean(i)
    BY <2>1, Zenon
  <2> QED
    BY <2>3, <2>4
<1>8. open \subseteq Required \cup Forbidden
  BY Kinds
<1> HIDE DEF open, late, clean, verdict, missed, spared
<1>9. {late(i) : i \in missed} \cup {clean(i) : i \in spared} = {verdict(i) : i \in open}
  BY <1>6, <1>7, <1>8
<1>10. at \in 0..MaxTime
  BY SpecAssumption DEF ContractInv, TypeOK
<1>11. Contract!Finish(at)
  BY <1>1, <1>2, <1>3, <1>5, <1>9 DEF Contract!Finish, Seen
<1> QED
  BY <1>10, <1>11 DEF Contract!Next

(* On ASCII text the evaluator gives exactly the verdicts                  *)
(* the whole text decides (docs/architecture.md, "Determinism"): neither   *)
(* the reads nor the bytes the buffer has forgotten can be told from them, *)
(* and snippetAround never panics.                                         *)
THEOREM EvaluatorImplementsContract ==
  ASSUME NoiseFree
  PROVE  Spec => ImplementsContract
<1>1. Init => Contract!Init
  BY DEF Init, Contract!Init
<1>2. ContractInv /\ [Next]_vars => [Contract!Next]_(Contract!vars)
  <2> SUFFICES ASSUME ContractInv, [Next]_vars PROVE [Contract!Next]_(Contract!vars)
    OBVIOUS
  <2>1. CASE UNCHANGED vars
    BY <2>1 DEF vars, Contract!vars
  <2> QED
    BY <2>1, ObserveRefines, FinishRefines DEF Next, Dropped
<1>3. Init => ContractInv
  BY ContractInvInit
<1>4. ContractInv /\ [Next]_vars => ContractInv'
  BY ContractInvStep
<1> QED
  BY <1>1, <1>2, <1>3, <1>4, PTL DEF Spec, ImplementsContract, Contract!Spec

\* while the evaluator is open, every verdict was decided by a match
OpenVerdictsAreHits ==
  status = "open" => \A r \in results : r.passed = (r.index \in Required)

LEMMA ForbiddenStep ==
  ASSUME NoiseFree
  PROVE  /\ ContractInv /\ OpenVerdictsAreHits /\ ForbiddenTextFails /\ [Next]_vars
         => OpenVerdictsAreHits' /\ ForbiddenTextFails'
<1> SUFFICES ASSUME ContractInv, OpenVerdictsAreHits, ForbiddenTextFails, [Next]_vars
             PROVE  OpenVerdictsAreHits' /\ ForbiddenTextFails'
  OBVIOUS
<1>1. ContractInv'
  BY ContractInvStep
<1>2. ASSUME NEW chunk \in Chunk, NEW at \in now..MaxTime, Observe(chunk, at)
      PROVE  OpenVerdictsAreHits' /\ ForbiddenTextFails'
  <2> DEFINE text == Remember(buffer \o chunk)
  <2>1. status = "open" /\ results' = results \cup Decided(text, at)
    BY <1>2, ObserveIs
  <2>2. \A r \in Decided(text, at) : r.passed = (r.index \in Required)
    BY DEF Decided
  <2>3. \A r \in results' : r.passed = (r.index \in Required)
    BY <2>1, <2>2 DEF OpenVerdictsAreHits
  <2>4. ASSUME NEW i \in Forbidden, Found(i, heard')
        PROVE  \E r \in results' : r.index = i /\ ~r.passed
    <3>1. i \in Index /\ i \notin Required
      BY Kinds
    <3>2. done'[i]
      BY <1>1, <2>4, <3>1 DEF ContractInv, UndecidedIsLate
    <3>3. PICK r \in results' : r.index = i
      BY <1>1, <3>1, <3>2 DEF ContractInv, OneResultPerAssertion
    <3> QED
      BY <2>3, <3>1, <3>3
  <2> QED
    BY <2>3, <2>4 DEF OpenVerdictsAreHits, ForbiddenTextFails
<1>3. ASSUME NEW at \in now..MaxTime, Finish(at)
      PROVE  OpenVerdictsAreHits' /\ ForbiddenTextFails'
  <2>1. status' = "finished" /\ heard' = heard /\ results' = results \cup Absent(at)
    BY <1>3, FinishIs
  <2>2. ASSUME NEW i \in Forbidden, Found(i, heard')
        PROVE  \E r \in results' : r.index = i /\ ~r.passed
    BY <2>1, <2>2 DEF ForbiddenTextFails
  <2> QED
    BY <2>1, <2>2 DEF OpenVerdictsAreHits, ForbiddenTextFails
<1>4. CASE UNCHANGED vars
  BY <1>4 DEF OpenVerdictsAreHits, ForbiddenTextFails, vars
<1> QED
  BY <1>2, <1>3, <1>4 DEF Next, Dropped

(* docs/architecture.md:38 holds of ASCII text, whatever the               *)
(* buffer forgets: the counterexamples the runs find all need a stray byte *)
(* or a rune cut in two.                                                   *)
THEOREM EvaluatorForbiddenTextFails ==
  ASSUME NoiseFree
  PROVE  Spec => []ForbiddenTextFails
<1>1. Init => ContractInv
  BY ContractInvInit
<1>2. Init => OpenVerdictsAreHits /\ ForbiddenTextFails
  <2> SUFFICES ASSUME Init PROVE OpenVerdictsAreHits /\ ForbiddenTextFails
    OBVIOUS
  <2>1. \A i \in Forbidden : ~Found(i, heard)
    BY <1>1, Kinds DEF ContractInv, UndecidedIsLate, Init
  <2> QED
    BY <2>1 DEF OpenVerdictsAreHits, ForbiddenTextFails, Init
<1>3. ContractInv /\ [Next]_vars => ContractInv'
  BY ContractInvStep
<1>4. /\ ContractInv /\ OpenVerdictsAreHits /\ ForbiddenTextFails /\ [Next]_vars
      => OpenVerdictsAreHits' /\ ForbiddenTextFails'
  BY ForbiddenStep
<1> QED
  BY <1>1, <1>2, <1>3, <1>4, PTL DEF Spec
=============================================================================
