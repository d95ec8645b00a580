-------------------------------- MODULE Picks --------------------------------
(***************************************************************************)
(* What may be picked: prediction.ValidatePickedNumber, a pure function of *)
(* a type and a text.  A text is a sequence of characters; a digit is its  *)
(* own value, and Dash and Other stand for '-' and for every other byte.   *)
(***************************************************************************)
EXTENDS Integers, Sequences, FiniteSets

CONSTANT Texts    \* the picked numbers of requests

Digits == 0..9
Dash   == 10
Other  == 11

ASSUME PicksAssumption == Texts \subseteq Seq(Digits \cup {Dash, Other})

SingleTypes == {"OPEN_SINGLE", "CLOSE_SINGLE"}
SPTypes     == {"OPEN_SINGLE_PANA", "CLOSE_SINGLE_PANA"}
DPTypes     == {"OPEN_DOUBLE_PANA", "CLOSE_DOUBLE_PANA"}
TPTypes     == {"OPEN_TRIPLE_PANA", "CLOSE_TRIPLE_PANA"}
PanaTypes   == SPTypes \cup DPTypes \cup TPTypes
Types       == SingleTypes \cup PanaTypes \cup {"JODI", "HALF_SANGAM",
                                                "FULL_SANGAM", "UNKNOWN"}

-----------------------------------------------------------------------------
(* Panas.                                                                  *)

(* Mutant: '0' is the smallest digit, as in any other number.              *)
PlainValue(c) == c

(* panaDigitValue: '0' sorts as if it were 10.                             *)
PanaDigitValue(c) == IF c = 0 THEN 10 ELSE c

IsPana(s) ==
    /\ Len(s) = 3
    /\ {s[1], s[2], s[3]} \subseteq Digits
    /\ PanaDigitValue(s[1]) <= PanaDigitValue(s[2])
    /\ PanaDigitValue(s[2]) <= PanaDigitValue(s[3])

AllDistinct(s) == s[1] # s[2] /\ s[2] # s[3] /\ s[1] # s[3]
AllSame(s)     == s[1] = s[2] /\ s[2] = s[3]

IsSinglePana(s) == IsPana(s) /\ AllDistinct(s)
IsDoublePana(s) == IsPana(s) /\ ~AllDistinct(s) /\ ~AllSame(s)
IsTriplePana(s) == IsPana(s) /\ AllSame(s)

-----------------------------------------------------------------------------
(* Sangams.                                                                *)

DashesOf(s) == {i \in 1..Len(s) : s[i] = Dash}

(* indexOfDash: i is the place of the first dash of s.                     *)
IndexOfDash(s, i) == i \in DashesOf(s) /\ \A j \in DashesOf(s) : i <= j

IsDigit(s) == Len(s) = 1 /\ s[1] \in Digits

LeftOf(s, i)  == SubSeq(s, 1, i - 1)
RightOf(s, i) == SubSeq(s, i + 1, Len(s))

IsHalfSangam(s) ==
    /\ Len(s) >= 5
    /\ \E i \in 1..Len(s) :
          /\ IndexOfDash(s, i)
          /\ \/ IsDigit(LeftOf(s, i)) /\ IsPana(RightOf(s, i))
             \/ IsPana(LeftOf(s, i)) /\ IsDigit(RightOf(s, i))

IsFullSangam(s) ==
    \E i \in 1..Len(s) :
        /\ IndexOfDash(s, i)
        /\ IsPana(LeftOf(s, i)) /\ IsPana(RightOf(s, i))

-----------------------------------------------------------------------------
(* ValidatePickedNumber(t, s) = nil                                        *)
Accepts(t, s) ==
    CASE t \in SingleTypes   -> IsDigit(s)
      [] t = "JODI"          -> Len(s) = 2 /\ {s[1], s[2]} \subseteq Digits
      [] t \in SPTypes       -> IsSinglePana(s)
      [] t \in DPTypes       -> IsDoublePana(s)
      [] t \in TPTypes       -> IsTriplePana(s)
      [] t = "HALF_SANGAM"   -> IsHalfSangam(s)
      [] t = "FULL_SANGAM"   -> IsFullSangam(s)
      [] OTHER               -> FALSE

VARIABLES type, picked, verdict

vars == <<type, picked, verdict>>

Init ==
    /\ type \in Types
    /\ picked \in Texts
    /\ verdict = "none"

(* Mutant: any pana will do for any of the pana types.                     *)
ValidateAnyPana ==
    /\ verdict = "none"
    /\ verdict' = IF \/ Accepts(type, picked)
                     \/ type \in PanaTypes /\ IsPana(picked)
                  THEN "accepted" ELSE "refused"
    /\ UNCHANGED <<type, picked>>

Validate ==
    /\ verdict = "none"
    /\ verdict' = IF Accepts(type, picked) THEN "accepted" ELSE "refused"
    /\ UNCHANGED <<type, picked>>

Done == verdict # "none" /\ UNCHANGED vars

Next == Validate \/ Done

Spec == Init /\ [][Next]_vars

-----------------------------------------------------------------------------
(* PROPERTIES                                                              *)

(* The table of formats (types.go:126-134), written as what it lists.  A   *)
(* pana is three of the values 1 to 10 in order, each written as its last  *)
(* digit.                                                                  *)
Panas ==
    {<<v[1] % 10, v[2] % 10, v[3] % 10>> :
        v \in {t \in (1..10) \X (1..10) \X (1..10) :
                  t[1] <= t[2] /\ t[2] <= t[3]}}

DistinctDigits(s) == Cardinality({s[1], s[2], s[3]})

PanasWith(n) == {p \in Panas : DistinctDigits(p) = n}

Dashed(left, right) == left \o <<Dash>> \o right

DigitPanas  == {Dashed(<<d>>, p) : d \in Digits, p \in Panas}
PanaDigits  == {Dashed(p, <<d>>) : d \in Digits, p \in Panas}
HalfSangams == DigitPanas \cup PanaDigits
FullSangams == {Dashed(p, q) : p \in Panas, q \in Panas}

Table(t) ==
    CASE t \in SingleTypes -> {<<d>> : d \in Digits}
      [] t = "JODI"        -> Digits \X Digits
      [] t \in SPTypes     -> PanasWith(3)
      [] t \in DPTypes     -> PanasWith(2)
      [] t \in TPTypes     -> PanasWith(1)
      [] t = "HALF_SANGAM" -> HalfSangams
      [] t = "FULL_SANGAM" -> FullSangams
      [] OTHER             -> {}

(* A pick is accepted if and only if the table has it for its type.        *)
AcceptsTheTable ==
    verdict # "none" => (verdict = "accepted" <=> picked \in Table(type))

(* The types that are priced alike.                                        *)
Class(t) == CHOOSE c \in {SPTypes, DPTypes, TPTypes} : t \in c

(* A pana has one writing and one price: of all the orders of its digits   *)
(* only one is accepted, and by the types of one class only.               *)
OneWritingPerPana ==
    type \in PanaTypes /\ verdict = "accepted" =>
        \A i, j, k \in 1..3 : {i, j, k} = 1..3 =>
            LET other == <<picked[i], picked[j], picked[k]>> IN
            \A t \in PanaTypes :
                Accepts(t, other)
                   => other = picked /\ t \in Class(type)

=============================================================================
