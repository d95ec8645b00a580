----------------------------- MODULE PicksProofs -----------------------------
(***************************************************************************)
(* Proofs about the picks, for texts of any length: the byte-by-byte tests *)
(* of prediction.ValidatePickedNumber accept what the table lists and      *)
(* nothing else.                                                           *)
(***************************************************************************)
EXTENDS Picks, FiniteSetTheorems, SequenceTheorems, TLAPS

Chars == Digits \cup {Dash, Other}

LEMMA CharType == Chars = 0..11 /\ Digits = 0..9 /\ Dash = 10 /\ Other = 11
  BY DEF Chars, Digits, Dash, Other

-----------------------------------------------------------------------------
(* Panas.                                                                  *)

(* The value of a digit determines it.                                     *)
LEMMA DigitOfValue ==
    /\ \A c \in Digits : PanaDigitValue(c) \in 1..10 /\ PanaDigitValue(c) % 10 = c
    /\ \A a \in 1..10 : a % 10 \in Digits /\ PanaDigitValue(a % 10) = a
  BY DEF Digits, PanaDigitValue

LEMMA Triples ==
    ASSUME NEW s \in Seq(Chars), Len(s) = 3
    PROVE  s = <<s[1], s[2], s[3]>>
  OBVIOUS

LEMMA PanaFacts ==
    ASSUME NEW p \in Panas
    PROVE  /\ p \in Seq(Chars) /\ Len(p) = 3
           /\ p[1] \in Digits /\ p[2] \in Digits /\ p[3] \in Digits
           /\ IsPana(p)
  <1>1. PICK a, b, c \in 1..10 : p = <<a % 10, b % 10, c % 10>> /\ a <= b /\ b <= c
    BY DEF Panas
  <1>2. a % 10 \in Digits /\ b % 10 \in Digits /\ c % 10 \in Digits
    BY DigitOfValue
  <1>3. p \in Seq(Chars) /\ Len(p) = 3 /\ p[1] = a % 10 /\ p[2] = b % 10 /\ p[3] = c % 10
    BY <1>1, <1>2 DEF Chars
  <1>4. IsPana(p)
    BY <1>1, <1>2, <1>3, DigitOfValue DEF IsPana
  <1> QED BY <1>2, <1>3, <1>4

(* The test for a pana is that of the table.                               *)
LEMMA PanasOfTheTable ==
    ASSUME NEW s \in Seq(Chars)
    PROVE  IsPana(s) <=> s \in Panas
  <1>1. ASSUME IsPana(s) PROVE s \in Panas
    <2>1. /\ s = <<s[1], s[2], s[3]>>
          /\ s[1] \in Digits /\ s[2] \in Digits /\ s[3] \in Digits
      BY <1>1, Triples DEF IsPana
    <2>2. PICK a, b, c \in 1..10 :
             /\ a = PanaDigitValue(s[1]) /\ b = PanaDigitValue(s[2])
             /\ c = PanaDigitValue(s[3])
      BY <2>1, DigitOfValue
    <2>3. a <= b /\ b <= c
      BY <1>1, <2>2 DEF IsPana
    <2>4. s = <<a % 10, b % 10, c % 10>>
      BY <2>1, <2>2, DigitOfValue
    <2>5. <<a, b, c>> \in {t \in (1..10) \X (1..10) \X (1..10) :
                              t[1] <= t[2] /\ t[2] <= t[3]}
      BY <2>3
    <2> QED BY <2>4, <2>5 DEF Panas
  <1> QED BY <1>1, PanaFacts

LEMMA DistinctOf ==
    ASSUME NEW x, NEW y, NEW z
    PROVE  /\ Cardinality({x, y, z}) = 3 <=> x # y /\ y # z /\ x # z
           /\ Cardinality({x, y, z}) = 1 <=> x = y /\ y = z
           /\ Cardinality({x, y, z}) \in 1..3
  <1>1. IsFiniteSet({x}) /\ Cardinality({x}) = 1
    BY FS_Singleton
  <1>2. /\ IsFiniteSet({x} \cup {y})
        /\ Cardinality({x} \cup {y}) = IF y \in {x} THEN 1 ELSE 2
    BY <1>1, FS_AddElement
  <1>3. Cardinality(({x} \cup {y}) \cup {z})
           = IF z \in {x} \cup {y} THEN Cardinality({x} \cup {y})
                                   ELSE Cardinality({x} \cup {y}) + 1
    BY <1>2, FS_AddElement
  <1>4. {x, y, z} = ({x} \cup {y}) \cup {z}
    OBVIOUS
  <1> QED BY <1>2, <1>3, <1>4

-----------------------------------------------------------------------------
(* Sangams.                                                                *)

(* A text with a dash is what stands on the left of the first and what     *)
(* stands on the right of it.                                              *)
LEMMA CutAtDash ==
    ASSUME NEW s \in Seq(Chars), NEW i \in 1..Len(s), s[i] = Dash
    PROVE  /\ LeftOf(s, i) \in Seq(Chars) /\ Len(LeftOf(s, i)) = i - 1
           /\ RightOf(s, i) \in Seq(Chars) /\ Len(RightOf(s, i)) = Len(s) - i
           /\ s = Dashed(LeftOf(s, i), RightOf(s, i))
  <1> DEFINE p == LeftOf(s, i)
             q == RightOf(s, i)
             n == Len(s)
  <1>1. n \in Nat /\ i \in Int /\ 1 <= i /\ i <= n
    OBVIOUS
  <1>2. \A j \in 1..n : s[j] \in Chars
    BY ElementOfSeq
  <1>3. /\ p \in Seq(Chars) /\ Len(p) = i - 1
        /\ \A j \in 1..(i - 1) : p[j] = s[j]
    <2>1. \A j \in 1..(i - 1) : s[j] \in Chars
      BY <1>1, <1>2
    <2>2. /\ p \in Seq(Chars)
          /\ Len(p) = IF 1 <= i - 1 THEN (i - 1) - 1 + 1 ELSE 0
          /\ \A j \in 1..((i - 1) - 1 + 1) : p[j] = s[1 + j - 1]
      BY <1>1, <2>1, SubSeqProperties DEF LeftOf
    <2> HIDE DEF p
    <2> QED BY <1>1, <2>2
  <1>4. /\ q \in Seq(Chars) /\ Len(q) = n - i
        /\ \A j \in 1..(n - i) : q[j] = s[i + j]
    <2>1. \A j \in (i + 1)..n : s[j] \in Chars
      BY <1>1, <1>2
    <2>2. /\ q \in Seq(Chars)
          /\ Len(q) = IF i + 1 <= n THEN n - (i + 1) + 1 ELSE 0
          /\ \A j \in 1..(n - (i + 1) + 1) : q[j] = s[(i + 1) + j - 1]
      BY <1>1, <2>1, SubSeqProperties DEF RightOf
    <2> HIDE DEF q
    <2> QED BY <1>1, <2>2
  <1>5. s = Dashed(p, q)
    <2> HIDE DEF p, q
    <2>1. <<Dash>> \in Seq(Chars) /\ Len(<<Dash>>) = 1 /\ <<Dash>>[1] = Dash
      BY DEF Chars
    <2>2. /\ p \o <<Dash>> \in Seq(Chars) /\ Len(p \o <<Dash>>) = i
          /\ \A j \in 1..i : (p \o <<Dash>>)[j] = IF j <= i - 1 THEN p[j] ELSE <<Dash>>[j - (i - 1)]
      BY <1>1, <1>3, <2>1, ConcatProperties
    <2>3. \A j \in 1..i : (p \o <<Dash>>)[j] = s[j]
      BY <1>1, <1>3, <2>1, <2>2
    <2>4. /\ Dashed(p, q) \in Seq(Chars) /\ Len(Dashed(p, q)) = n
          /\ \A j \in 1..n : Dashed(p, q)[j] = IF j <= i THEN (p \o <<Dash>>)[j] ELSE q[j - i]
      <3>1. PICK r \in Seq(Chars) : r = p \o <<Dash>> /\ Len(r) = i
        BY <2>2
      <3>2. /\ r \o q \in Seq(Chars) /\ Len(r \o q) = Len(r) + Len(q)
            /\ \A j \in 1..(Len(r) + Len(q)) :
                  (r \o q)[j] = IF j <= Len(r) THEN r[j] ELSE q[j - Len(r)]
        BY <1>4, ConcatProperties
      <3>3. Len(r) + Len(q) = n
        <4>1. Len(r) = i /\ Len(q) = n - i
          BY <1>4, <3>1
        <4> HIDE DEF n
        <4> QED BY <1>1, <4>1
      <3> QED BY <3>1, <3>2, <3>3 DEF Dashed
    <2>5. ASSUME NEW j \in 1..n PROVE Dashed(p, q)[j] = s[j]
      <3>1. CASE j <= i
        <4>1. j \in 1..i
          BY <1>1, <3>1
        <4>2. Dashed(p, q)[j] = (p \o <<Dash>>)[j]
          BY <2>4, <3>1
        <4> QED BY <2>3, <4>1, <4>2
      <3>2. CASE ~(j <= i)
        <4>1. j - i \in 1..(n - i) /\ i + (j - i) = j
          BY <1>1, <3>2
        <4>2. q[j - i] = s[i + (j - i)]
          BY <1>4, <4>1
        <4>3. Dashed(p, q)[j] = q[j - i]
          BY <2>4, <3>2
        <4>4. i + (j - i) = j
          BY <4>1
        <4> QED BY <4>2, <4>3, <4>4
      <3> QED BY <3>1, <3>2
    <2> QED BY <2>4, <2>5, SeqEqual
  <1> QED BY <1>3, <1>4, <1>5

LEMMA JoinAtDash ==
    ASSUME NEW p \in Seq(Chars), NEW q \in Seq(Chars),
           \A j \in 1..Len(p) : p[j] # Dash,
           NEW s, s = Dashed(p, q), NEW i, i = Len(p) + 1
    PROVE  /\ s \in Seq(Chars) /\ Len(s) = Len(p) + 1 + Len(q)
           /\ i \in 1..Len(s) /\ IndexOfDash(s, i)
           /\ LeftOf(s, i) = p /\ RightOf(s, i) = q
  <1> DEFINE m == Len(p)
             k == Len(q)
             n == m + 1 + k
  <1>1. m \in Nat /\ k \in Nat
    OBVIOUS
  <1>2. <<Dash>> \in Seq(Chars) /\ Len(<<Dash>>) = 1 /\ <<Dash>>[1] = Dash
    BY DEF Chars
  <1>3. /\ p \o <<Dash>> \in Seq(Chars) /\ Len(p \o <<Dash>>) = i
        /\ \A j \in 1..i : (p \o <<Dash>>)[j] = IF j <= m THEN p[j] ELSE <<Dash>>[j - m]
    BY <1>1, <1>2, ConcatProperties
  <1>4. /\ s \in Seq(Chars) /\ Len(s) = n
        /\ \A j \in 1..n : s[j] = IF j <= i THEN (p \o <<Dash>>)[j] ELSE q[j - i]
    BY <1>1, <1>3, ConcatProperties DEF Dashed
  <1>5. /\ \A j \in 1..m : s[j] = p[j]
        /\ s[i] = Dash
        /\ \A j \in 1..k : s[i + j] = q[j]
    <2>1. \A j \in 1..m : s[j] = p[j]
      BY <1>1, <1>3, <1>4
    <2>2. s[i] = Dash
      BY <1>1, <1>2, <1>3, <1>4
    <2>3. ASSUME NEW j \in 1..k PROVE s[i + j] = q[j]
      <3>1. i + j \in 1..n /\ ~(i + j <= i) /\ (i + j) - i = j
        BY <1>1
      <3> QED BY <1>4, <3>1
    <2> QED BY <2>1, <2>2, <2>3
  <1>6. i \in 1..n /\ \A j \in 1..n : s[j] = Dash => i <= j
    <2>1. ASSUME NEW j \in 1..n, ~(i <= j) PROVE s[j] # Dash
      <3>1. j \in 1..m
        BY <1>1, <2>1
      <3> QED BY <1>5, <3>1
    <2> QED BY <1>1, <2>1
  <1>7. IndexOfDash(s, i)
    <2> QED BY <1>1, <1>4, <1>5, <1>6 DEF IndexOfDash, DashesOf
  <1>8. /\ LeftOf(s, i) \in Seq(Chars) /\ Len(LeftOf(s, i)) = m
        /\ RightOf(s, i) \in Seq(Chars) /\ Len(RightOf(s, i)) = k
        /\ s = Dashed(LeftOf(s, i), RightOf(s, i))
    <2>1. s \in Seq(Chars) /\ i \in 1..Len(s) /\ s[i] = Dash
      BY <1>4, <1>5, <1>6
    <2>2. i - 1 = m /\ Len(s) - i = k
      BY <1>1, <1>4
    <2> QED BY <2>1, <2>2, CutAtDash
  <1>9. LeftOf(s, i) = p
    <2>1. \A j \in 1..m : LeftOf(s, i)[j] = s[j]
      <3>1. \A j \in 1..m : s[j] \in Chars
        BY <1>1, <1>4, ElementOfSeq
      <3>2. (i - 1) = m
        BY <1>1
      <3>3. \A j \in 1..(m - 1 + 1) : LeftOf(s, i)[j] = s[1 + j - 1]
        BY <1>1, <3>1, <3>2, SubSeqProperties DEF LeftOf
      <3> QED BY <1>1, <3>3
    <2> QED BY <1>5, <1>8, <2>1, SeqEqual
  <1>10. RightOf(s, i) = q
    <2>1. \A j \in 1..k : RightOf(s, i)[j] = s[i + j]
      <3>1. \A j \in (i + 1)..n : s[j] \in Chars
        BY <1>1, <1>4, ElementOfSeq
      <3>2. \A j \in 1..(n - (i + 1) + 1) : RightOf(s, i)[j] = s[(i + 1) + j - 1]
        BY <1>1, <1>4, <3>1, SubSeqProperties DEF RightOf
      <3> QED BY <1>1, <3>2
    <2> QED BY <1>5, <1>8, <2>1, SeqEqual
  <1> QED BY <1>4, <1>6, <1>7, <1>9, <1>10

LEMMA FirstDashIsOne ==
    ASSUME NEW s \in Seq(Chars), NEW i, IndexOfDash(s, i), NEW j, IndexOfDash(s, j)
    PROVE  i = j /\ i \in 1..Len(s) /\ s[i] = Dash
  BY DEF IndexOfDash, DashesOf

LEMMA DigitTexts ==
    ASSUME NEW s \in Seq(Chars)
    PROVE  IsDigit(s) <=> \E d \in Digits : s = <<d>>
  BY DEF IsDigit

LEMMA OneDigit ==
    ASSUME NEW d \in Digits
    PROVE  /\ <<d>> \in Seq(Chars) /\ Len(<<d>>) = 1
           /\ \A j \in 1..Len(<<d>>) : <<d>>[j] # Dash
  BY DEF Chars, Digits, Dash

LEMMA NoDashInPana ==
    ASSUME NEW p \in Panas
    PROVE  \A j \in 1..Len(p) : p[j] # Dash
  <1>1. Len(p) = 3 /\ p[1] # Dash /\ p[2] # Dash /\ p[3] # Dash
    BY PanaFacts DEF Digits, Dash
  <1>2. \A j \in 1..3 : j = 1 \/ j = 2 \/ j = 3
    OBVIOUS
  <1> QED BY <1>1, <1>2

LEMMA HalfSangamsOfTheTable ==
    ASSUME NEW s \in Seq(Chars)
    PROVE  IsHalfSangam(s) <=> s \in HalfSangams
  <1>1. ASSUME IsHalfSangam(s) PROVE s \in HalfSangams
    <2>1. PICK i \in 1..Len(s) :
             /\ IndexOfDash(s, i)
             /\ \/ IsDigit(LeftOf(s, i)) /\ IsPana(RightOf(s, i))
                \/ IsPana(LeftOf(s, i)) /\ IsDigit(RightOf(s, i))
      BY <1>1 DEF IsHalfSangam
    <2>2. /\ LeftOf(s, i) \in Seq(Chars) /\ RightOf(s, i) \in Seq(Chars)
          /\ s = Dashed(LeftOf(s, i), RightOf(s, i))
      BY <2>1, FirstDashIsOne, CutAtDash
    <2>3. CASE IsDigit(LeftOf(s, i)) /\ IsPana(RightOf(s, i))
      <3>1. PICK d \in Digits, p \in Panas : LeftOf(s, i) = <<d>> /\ RightOf(s, i) = p
        BY <2>2, <2>3, DigitTexts, PanasOfTheTable
      <3> QED BY <2>2, <3>1 DEF HalfSangams, DigitPanas, PanaDigits
    <2>4. CASE IsPana(LeftOf(s, i)) /\ IsDigit(RightOf(s, i))
      <3>1. PICK d \in Digits, p \in Panas : LeftOf(s, i) = p /\ RightOf(s, i) = <<d>>
        BY <2>2, <2>4, DigitTexts, PanasOfTheTable
      <3> QED BY <2>2, <3>1 DEF HalfSangams, DigitPanas, PanaDigits
    <2> QED BY <2>1, <2>3, <2>4
  <1>2. ASSUME NEW l \in Seq(Chars), Len(l) = 1, IsDigit(l), NEW p \in Panas,
               s = Dashed(l, p) \/ s = Dashed(p, l)
        PROVE  IsHalfSangam(s)
    <2>1. p \in Seq(Chars) /\ Len(p) = 3 /\ IsPana(p)
      BY PanaFacts
    <2>2. CASE s = Dashed(l, p)
      <3>1. \A j \in 1..Len(l) : l[j] # Dash
        BY <1>2 DEF IsDigit, Digits, Dash
      <3>2. 2 = Len(l) + 1 /\ 5 = Len(l) + 1 + Len(p)
        BY <1>2, <2>1
      <3>3. /\ Len(s) = 5 /\ 2 \in 1..Len(s) /\ IndexOfDash(s, 2)
            /\ LeftOf(s, 2) = l /\ RightOf(s, 2) = p
        <4>1. PICK i : i = Len(l) + 1
          OBVIOUS
        <4>2. /\ Len(s) = Len(l) + 1 + Len(p) /\ i \in 1..Len(s)
              /\ IndexOfDash(s, i) /\ LeftOf(s, i) = l /\ RightOf(s, i) = p
          <5>1. l \in Seq(Chars) /\ p \in Seq(Chars)
            BY <2>1
          <5> QED BY <2>2, <3>1, <4>1, <5>1, JoinAtDash
        <4> QED BY <3>2, <4>1, <4>2
      <3> QED BY <1>2, <2>1, <3>3 DEF IsHalfSangam
    <2>3. CASE s = Dashed(p, l)
      <3>1. 4 = Len(p) + 1 /\ 5 = Len(p) + 1 + Len(l)
        BY <1>2, <2>1
      <3>2. /\ Len(s) = 5 /\ 4 \in 1..Len(s) /\ IndexOfDash(s, 4)
            /\ LeftOf(s, 4) = p /\ RightOf(s, 4) = l
        <4>1. PICK i : i = Len(p) + 1
          OBVIOUS
        <4>2. /\ Len(s) = Len(p) + 1 + Len(l) /\ i \in 1..Len(s)
              /\ IndexOfDash(s, i) /\ LeftOf(s, i) = p /\ RightOf(s, i) = l
          <5>1. /\ p \in Seq(Chars) /\ l \in Seq(Chars)
                /\ \A j \in 1..Len(p) : p[j] # Dash
            BY <2>1, NoDashInPana
          <5> QED BY <2>3, <4>1, <5>1, JoinAtDash
        <4> QED BY <3>1, <4>1, <4>2
      <3> QED BY <1>2, <2>1, <3>2 DEF IsHalfSangam
    <2> QED BY <1>2, <2>2, <2>3
  <1>3. ASSUME s \in HalfSangams PROVE IsHalfSangam(s)
    <2>1. PICK d \in Digits, p \in Panas : s = Dashed(<<d>>, p) \/ s = Dashed(p, <<d>>)
      <3>1. ASSUME s \in DigitPanas
            PROVE  \E d \in Digits, p \in Panas : s = Dashed(<<d>>, p)
        BY <3>1, SMTT(30) DEF DigitPanas
      <3>2. ASSUME s \in PanaDigits
            PROVE  \E d \in Digits, p \in Panas : s = Dashed(p, <<d>>)
        BY <3>2, SMTT(30) DEF PanaDigits
      <3> QED BY <1>3, <3>1, <3>2 DEF HalfSangams
    <2>2. <<d>> \in Seq(Chars) /\ Len(<<d>>) = 1 /\ IsDigit(<<d>>)
      BY OneDigit DEF IsDigit
    <2> QED BY <1>2, <2>1, <2>2
  <1> QED BY <1>1, <1>3

LEMMA FullSangamsOfTheTable ==
    ASSUME NEW s \in Seq(Chars)
    PROVE  IsFullSangam(s) <=> s \in FullSangams
  <1>1. ASSUME IsFullSangam(s) PROVE s \in FullSangams
    <2>1. PICK i \in 1..Len(s) :
             IndexOfDash(s, i) /\ IsPana(LeftOf(s, i)) /\ IsPana(RightOf(s, i))
      BY <1>1 DEF IsFullSangam
    <2>2. /\ LeftOf(s, i) \in Seq(Chars) /\ RightOf(s, i) \in Seq(Chars)
          /\ s = Dashed(LeftOf(s, i), RightOf(s, i))
      BY <2>1, FirstDashIsOne, CutAtDash
    <2>3. PICK p \in Panas, q \in Panas : LeftOf(s, i) = p /\ RightOf(s, i) = q
      BY <2>1, <2>2, PanasOfTheTable
    <2> QED BY <2>2, <2>3 DEF FullSangams
  <1>2. ASSUME NEW p \in Panas, NEW q \in Panas, s = Dashed(p, q)
        PROVE  IsFullSangam(s)
    <2>1. /\ p \in Seq(Chars) /\ Len(p) = 3 /\ IsPana(p)
          /\ q \in Seq(Chars) /\ Len(q) = 3 /\ IsPana(q)
      BY PanaFacts
    <2>2. /\ 4 \in 1..Len(s) /\ IndexOfDash(s, 4)
          /\ LeftOf(s, 4) = p /\ RightOf(s, 4) = q
      <3>1. PICK i : i = Len(p) + 1
        OBVIOUS
      <3>2. i \in 1..Len(s) /\ IndexOfDash(s, i) /\ LeftOf(s, i) = p /\ RightOf(s, i) = q
        <4>1. /\ p \in Seq(Chars) /\ q \in Seq(Chars)
              /\ \A j \in 1..Len(p) : p[j] # Dash
          BY <2>1, NoDashInPana
        <4> QED BY <1>2, <3>1, <4>1, JoinAtDash
      <3>3. i = 4
        BY <2>1, <3>1
      <3> QED BY <3>2, <3>3
    <2> QED BY <2>1, <2>2 DEF IsFullSangam
  <1> QED BY <1>1, <1>2 DEF FullSangams

-----------------------------------------------------------------------------
(* The types.                                                              *)

(* The types of one table entry are told apart by their names.             *)
LEMMA TypesApart ==
    /\ SPTypes \cap DPTypes = {} /\ SPTypes \cap TPTypes = {}
    /\ DPTypes \cap TPTypes = {} /\ PanaTypes \cap SingleTypes = {}
    /\ {"JODI", "HALF_SANGAM", "FULL_SANGAM"} \cap (PanaTypes \cup SingleTypes) = {}
  BY DEF PanaTypes, SPTypes, DPTypes, TPTypes, SingleTypes

LEMMA PanasByDigits ==
    ASSUME NEW s \in Seq(Chars)
    PROVE  /\ IsSinglePana(s) <=> s \in PanasWith(3)
           /\ IsDoublePana(s) <=> s \in PanasWith(2)
           /\ IsTriplePana(s) <=> s \in PanasWith(1)
  <1>1. /\ DistinctDigits(s) = 3 <=> AllDistinct(s)
        /\ DistinctDigits(s) = 1 <=> AllSame(s)
        /\ DistinctDigits(s) = 2 <=> ~AllDistinct(s) /\ ~AllSame(s)
    <2>1. PICK x, y, z : x = s[1] /\ y = s[2] /\ z = s[3]
      OBVIOUS
    <2>2. DistinctDigits(s) = Cardinality({x, y, z})
      BY <2>1 DEF DistinctDigits
    <2>3. /\ AllDistinct(s) <=> x # y /\ y # z /\ x # z
          /\ AllSame(s) <=> x = y /\ y = z
      BY <2>1 DEF AllDistinct, AllSame
    <2>4. PICK c : c = DistinctDigits(s)
      OBVIOUS
    <2>5. c \in 1..3 /\ (c = 3 <=> AllDistinct(s)) /\ (c = 1 <=> AllSame(s))
      <3>0. /\ Cardinality({x, y, z}) = 3 <=> x # y /\ y # z /\ x # z
            /\ Cardinality({x, y, z}) = 1 <=> x = y /\ y = z
            /\ Cardinality({x, y, z}) \in 1..3
        BY DistinctOf
      <3>1. /\ c = 3 <=> x # y /\ y # z /\ x # z
            /\ c = 1 <=> x = y /\ y = z
            /\ c \in 1..3
        <4>1. c = Cardinality({x, y, z})
          BY <2>2, <2>4
        <4> QED BY <3>0, <4>1, Zenon
      <3> QED BY <2>3, <3>1, Zenon
    <2>6. c = 2 <=> c # 3 /\ c # 1
      BY <2>5
    <2> QED BY <2>4, <2>5, <2>6
  <1> QED BY <1>1, PanasOfTheTable DEF IsSinglePana, IsDoublePana, IsTriplePana,
          PanasWith

LEMMA PairsOfDigits ==
    ASSUME NEW s \in Seq(Chars)
    PROVE  Len(s) = 2 /\ {s[1], s[2]} \subseteq Digits <=> s \in Digits \X Digits
  <1>1. ASSUME Len(s) = 2, s[1] \in Digits, s[2] \in Digits
        PROVE  s \in Digits \X Digits
    <2>1. s = <<s[1], s[2]>>
      BY <1>1
    <2> QED BY <1>1, <2>1
  <1>2. ASSUME s \in Digits \X Digits
        PROVE  Len(s) = 2 /\ s[1] \in Digits /\ s[2] \in Digits
    <2>1. PICK a, b \in Digits : s = <<a, b>>
      BY <1>2
    <2> QED BY <2>1
  <1> QED BY <1>1, <1>2

(* For texts of any length: what is accepted for a type is what the table  *)
(* of formats lists for it.                                                *)
LEMMA AcceptsIsTheTable ==
    ASSUME NEW t \in Types, NEW s \in Seq(Chars)
    PROVE  Accepts(t, s) <=> s \in Table(t)
  <1>1. CASE t \in SingleTypes
    <2>1. Accepts(t, s) <=> IsDigit(s)
      BY <1>1 DEF Accepts, SingleTypes, SPTypes, DPTypes, TPTypes
    <2>2. Table(t) = {<<d>> : d \in Digits}
      BY <1>1 DEF Table, SingleTypes, SPTypes, DPTypes, TPTypes
    <2> QED BY <2>1, <2>2, DigitTexts
  <1>2. CASE t \in SPTypes
    <2>1. Accepts(t, s) <=> IsSinglePana(s)
      BY <1>2, TypesApart DEF Accepts, PanaTypes
    <2>2. Table(t) = PanasWith(3)
      BY <1>2, TypesApart DEF Table, PanaTypes
    <2> QED BY <2>1, <2>2, PanasByDigits
  <1>3. CASE t \in DPTypes
    <2>1. Accepts(t, s) <=> IsDoublePana(s)
      BY <1>3, TypesApart DEF Accepts, PanaTypes
    <2>2. Table(t) = PanasWith(2)
      BY <1>3, TypesApart DEF Table, PanaTypes
    <2> QED BY <2>1, <2>2, PanasByDigits
  <1>4. CASE t \in TPTypes
    <2>1. Accepts(t, s) <=> IsTriplePana(s)
      BY <1>4, TypesApart DEF Accepts, PanaTypes
    <2>2. Table(t) = PanasWith(1)
      BY <1>4, TypesApart DEF Table, PanaTypes
    <2> QED BY <2>1, <2>2, PanasByDigits
  <1>5. CASE t = "JODI"
    <2>1. Accepts(t, s) <=> Len(s) = 2 /\ {s[1], s[2]} \subseteq Digits
      BY <1>5 DEF Accepts, SingleTypes, SPTypes, DPTypes, TPTypes
    <2>2. Table(t) = Digits \X Digits
      BY <1>5 DEF Table, SingleTypes, SPTypes, DPTypes, TPTypes
    <2> QED BY <2>1, <2>2, PairsOfDigits
  <1>6. CASE t = "HALF_SANGAM"
    <2>1. Accepts(t, s) <=> IsHalfSangam(s)
      BY <1>6 DEF Accepts, SingleTypes, SPTypes, DPTypes, TPTypes
    <2>2. Table(t) = HalfSangams
      BY <1>6 DEF Table, SingleTypes, SPTypes, DPTypes, TPTypes
    <2> QED BY <2>1, <2>2, HalfSangamsOfTheTable
  <1>7. CASE t = "FULL_SANGAM"
    <2>1. Accepts(t, s) <=> IsFullSangam(s)
      BY <1>7 DEF Accepts, SingleTypes, SPTypes, DPTypes, TPTypes
    <2>2. Table(t) = FullSangams
      BY <1>7 DEF Table, SingleTypes, SPTypes, DPTypes, TPTypes
    <2> QED BY <2>1, <2>2, FullSangamsOfTheTable
  <1>8. CASE t = "UNKNOWN"
    <2>1. ~Accepts(t, s)
      BY <1>8 DEF Accepts, SingleTypes, SPTypes, DPTypes, TPTypes
    <2>2. Table(t) = {}
      BY <1>8 DEF Table, SingleTypes, SPTypes, DPTypes, TPTypes
    <2> QED BY <2>1, <2>2
  <1> QED BY <1>1, <1>2, <1>3, <1>4, <1>5, <1>6, <1>7, <1>8 DEF Types, PanaTypes

(* What a request is told is what Accepts says.                            *)
VerdictInv ==
    /\ type \in Types /\ picked \in Seq(Chars)
    /\ verdict # "none" => (verdict = "accepted" <=> Accepts(type, picked))

LEMMA VerdictInvariant == Spec => []VerdictInv
  <1>1. Init => VerdictInv
    BY PicksAssumption DEF Init, VerdictInv, Chars
  <1>2. VerdictInv /\ [Next]_vars => VerdictInv'
    <2> SUFFICES ASSUME VerdictInv, [Next]_vars PROVE VerdictInv'
      OBVIOUS
    <2>1. CASE Validate
      <3>1. UNCHANGED <<type, picked>>
        BY <2>1 DEF Validate
      <3>2. Accepts(type, picked)' <=> Accepts(type, picked)
        BY <3>1
      <3> QED BY <2>1, <3>1, <3>2 DEF Validate, VerdictInv
    <2>2. CASE UNCHANGED vars
      <3>1. UNCHANGED <<type, picked, verdict>>
        BY <2>2 DEF vars
      <3>2. Accepts(type, picked)' <=> Accepts(type, picked)
        BY <3>1
      <3> QED BY <3>1, <3>2 DEF VerdictInv
    <2> QED BY <2>1, <2>2 DEF Next, Done
  <1> QED BY <1>1, <1>2, PTL DEF Spec

(* The byte-by-byte tests and the documented table of formats are the same *)
(* language, for every type and for texts of every length.                 *)
THEOREM TableIsDecided == Spec => []AcceptsTheTable
  <1>1. VerdictInv => AcceptsTheTable
    BY AcceptsIsTheTable DEF VerdictInv, AcceptsTheTable
  <1> QED BY <1>1, VerdictInvariant, PTL

-----------------------------------------------------------------------------
(* One writing.                                                            *)

LEMMA ClassOf ==
    ASSUME NEW c \in {SPTypes, DPTypes, TPTypes}, NEW t \in c
    PROVE  Class(t) = c
  <1>1. \A b \in {SPTypes, DPTypes, TPTypes} : t \in b => b = c
    BY TypesApart
  <1> QED BY <1>1 DEF Class

(* A type of panas accepts the panas of its class.                         *)
LEMMA PanaTypeAccepts ==
    ASSUME NEW t \in PanaTypes, NEW s, Accepts(t, s)
    PROVE  /\ IsPana(s)
           /\ AllDistinct(s) /\ ~AllSame(s) => t \in SPTypes
           /\ ~AllDistinct(s) /\ ~AllSame(s) => t \in DPTypes
           /\ AllSame(s) => t \in TPTypes
           /\ AllDistinct(s) => ~AllSame(s)
  <1>0. AllDistinct(s) => ~AllSame(s)
    BY DEF AllDistinct, AllSame
  <1>1. CASE t \in SPTypes
    <2>1. IsSinglePana(s)
      BY <1>1, TypesApart DEF Accepts, PanaTypes
    <2> QED BY <1>0, <1>1, <2>1 DEF IsSinglePana
  <1>2. CASE t \in DPTypes
    <2>1. IsDoublePana(s)
      BY <1>2, TypesApart DEF Accepts, PanaTypes
    <2> QED BY <1>0, <1>2, <2>1 DEF IsDoublePana
  <1>3. CASE t \in TPTypes
    <2>1. IsTriplePana(s)
      BY <1>3, TypesApart DEF Accepts, PanaTypes
    <2> QED BY <1>0, <1>3, <2>1 DEF IsTriplePana
  <1> QED BY <1>1, <1>2, <1>3 DEF PanaTypes

(* Of the orders of three digits only one is a pana.                       *)
LEMMA OneOrder ==
    ASSUME NEW s \in Seq(Chars), IsPana(s), NEW i \in 1..3, NEW j \in 1..3,
           NEW k \in 1..3, {i, j, k} = 1..3, IsPana(<<s[i], s[j], s[k]>>)
    PROVE  <<s[i], s[j], s[k]>> = s
  <1>1. PICK x, y, z \in Digits : x = s[1] /\ y = s[2] /\ z = s[3]
    BY DEF IsPana
  <1>2. s = <<x, y, z>>
    BY <1>1, Triples DEF IsPana
  <1>3. PICK a, b, c \in Digits : a = s[i] /\ b = s[j] /\ c = s[k]
    <2>1. {s[1], s[2], s[3]} \subseteq Digits
      BY DEF IsPana
    <2>2. \A n \in 1..3 : n = 1 \/ n = 2 \/ n = 3
      OBVIOUS
    <2> QED BY <2>1, <2>2
  <1>4. /\ PanaDigitValue(x) <= PanaDigitValue(y) /\ PanaDigitValue(y) <= PanaDigitValue(z)
        /\ PanaDigitValue(a) <= PanaDigitValue(b) /\ PanaDigitValue(b) <= PanaDigitValue(c)
    BY <1>1, <1>3 DEF IsPana
  <1>5. \/ a = x /\ b = y /\ c = z
        \/ a = x /\ b = z /\ c = y
        \/ a = y /\ b = x /\ c = z
        \/ a = y /\ b = z /\ c = x
        \/ a = z /\ b = x /\ c = y
        \/ a = z /\ b = y /\ c = x
    <2>1. /\ i # j /\ j # k /\ i # k
      <3>1. 1 \in {i, j, k} /\ 2 \in {i, j, k} /\ 3 \in {i, j, k}
        <4>1. 1 \in 1..3 /\ 2 \in 1..3 /\ 3 \in 1..3
          OBVIOUS
        <4> QED BY <4>1, Zenon
      <3> QED BY <3>1
    <2> QED BY <1>1, <1>3, <2>1
  <1>6. a = x /\ b = y /\ c = z
    BY <1>4, <1>5 DEF PanaDigitValue, Digits
  <1> QED BY <1>2, <1>3, <1>6

(* No reordering of a pana is another pana, and no pana is sold at two     *)
(* prices.                                                                 *)
THEOREM PanasHaveOneWriting == Spec => []OneWritingPerPana
  <1>1. VerdictInv => OneWritingPerPana
    <2> SUFFICES ASSUME VerdictInv, type \in PanaTypes, verdict = "accepted",
                        NEW i \in 1..3, NEW j \in 1..3, NEW k \in 1..3,
                        {i, j, k} = 1..3, NEW t \in PanaTypes,
                        Accepts(t, <<picked[i], picked[j], picked[k]>>)
                 PROVE  /\ <<picked[i], picked[j], picked[k]>> = picked
                        /\ t \in Class(type)
      BY DEF OneWritingPerPana
    <2>1. picked \in Seq(Chars) /\ Accepts(type, picked)
      BY DEF VerdictInv
    <2>2. IsPana(picked) /\ IsPana(<<picked[i], picked[j], picked[k]>>)
      BY <2>1, PanaTypeAccepts
    <2>3. <<picked[i], picked[j], picked[k]>> = picked
      BY <2>1, <2>2, OneOrder
    <2>4. \/ type \in SPTypes /\ t \in SPTypes
          \/ type \in DPTypes /\ t \in DPTypes
          \/ type \in TPTypes /\ t \in TPTypes
      BY <2>1, <2>3, PanaTypeAccepts
    <2>5. t \in Class(type)
      BY <2>4, ClassOf
    <2> QED BY <2>3, <2>5
  <1> QED BY <1>1, VerdictInvariant, PTL

=============================================================================
