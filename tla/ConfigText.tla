----------------------------- MODULE ConfigText -----------------------------
(***************************************************************************)
(* How ARM9 writes numbers and key combinations into config.ini and reads   *)
(* them back (arm9/source/config.c).  A text is a sequence of characters:   *)
(* digits are 0 .. 9.  Fractions are integers, scaled.                      *)
(***************************************************************************)
EXTENDS Integers, Sequences, SequencesExt, FiniteSets

CONSTANTS
  Precision,   \* FLOAT_CONV_PRECISION: decimals of a scaled number
  MaxText,     \* bound: length of the texts that are read
  MaxInt       \* bound: integer part of the numbers that are written

VARIABLE case  \* what is looked at: [text], [number] or [combo]

MINUS == 10
PLUS == 11
POINT == 12
FLOAT_CONV_MULT == 10 ^ Precision
Bad == [ok |-> FALSE, value |-> 0]
Value(v) == [ok |-> TRUE, value |-> v]
IsDigit(c) == c \in 0 .. 9

\* The number that digits denote.
Number(digits) == FoldLeft(LAMBDA n, d : 10 * n + d, 0, digits)
-----------------------------------------------------------------------------
(* Reading.                                                                 *)

\* parseDecIntOptionImpl without its bounds: a sign counts only before something else.
ParseDecInt(text) ==
  LET signed == Len(text) >= 2 /\ text[1] \in {MINUS, PLUS}
      digits == IF signed THEN Tail(text) ELSE text
  IN IF \A i \in DOMAIN digits : IsDigit(digits[i])
     THEN Value(IF signed /\ text[1] = MINUS THEN -Number(digits) ELSE Number(digits))
     ELSE Bad

\* Mutant of Fraction: the first decimal counts as a whole.
FractionOfWholes(decimals) ==
  LET seen == SubSeq(decimals, 1, IF Len(decimals) < Precision THEN Len(decimals) ELSE Precision)
  IN IF \A i \in DOMAIN seen : IsDigit(seen[i])
     THEN Value(Number(seen) * 10 ^ (Precision + 1 - Len(seen)))
     ELSE Bad

\* The fraction: decimals past the precision are not looked at.
Fraction(decimals) ==
  LET seen == SubSeq(decimals, 1, IF Len(decimals) < Precision THEN Len(decimals) ELSE Precision)
  IN IF \A i \in DOMAIN seen : IsDigit(seen[i])
     THEN Value(Number(seen) * 10 ^ (Precision - Len(seen)))
     ELSE Bad

\* parseDecFloatOption.  After a minus sign the integer part is negated before the
\* fraction is added, and the sum is negated again.
ParseDecFloat(text, minval, maxval) ==
  LET signed == text # <<>> /\ text[1] \in {MINUS, PLUS}
      sign == IF signed /\ text[1] = MINUS THEN -1 ELSE 1
      val == IF signed THEN Tail(text) ELSE text
      points == {i \in DOMAIN val : val[i] = POINT}
      point == IF points = {} THEN Len(val) + 1 ELSE CHOOSE i \in points : \A j \in points : i <= j
      int == IF point = 1 THEN Value(0) ELSE ParseDecInt(SubSeq(val, 1, point - 1))
      frac == Fraction(SubSeq(val, point + 1, Len(val)))
      res == sign * ((sign * int.value) * FLOAT_CONV_MULT + frac.value)
  IN IF val = <<>> \/ val = <<POINT>> \/ ~int.ok \/ ~frac.ok \/ res > maxval \/ res < minval
     THEN Bad ELSE Value(res)
-----------------------------------------------------------------------------
(* Writing.                                                                 *)

\* The digits of n, %lld; and with leading zeroes, %0*lld.
RECURSIVE DigitsOf(_)
DigitsOf(n) == IF n < 10 THEN <<n>> ELSE Append(DigitsOf(n \div 10), n % 10)
Padded(n, width) == [i \in 1 .. width - Len(DigitsOf(n)) |-> 0] \o DigitsOf(n)

\* Mutant of Shortened: as the comment says, "Remove trailing zeroes".
RECURSIVE Unzeroed(_)
Unzeroed(frac) == IF frac % 10 = 0 /\ frac # 0 THEN Unzeroed(frac \div 10) ELSE frac
ShortenedOfZeroes(frac) == Unzeroed(frac)

\* The first loop removes digits that are not zeroes, from the right, until one is.
RECURSIVE Shortened(_)
Shortened(frac) == IF frac % 10 # 0 THEN Shortened(frac \div 10) ELSE frac

RECURSIVE WithoutTrailingZeroes(_)
WithoutTrailingZeroes(digits) ==
  IF digits # <<>> /\ Last(digits) = 0 THEN WithoutTrailingZeroes(Front(digits)) ELSE digits

\* encodedFloatToString: the integer part carries the sign, so that -0.5 has none.
FloatToText(val) ==
  LET abs == IF val >= 0 THEN val ELSE -val
      int == abs \div FLOAT_CONV_MULT
      frac == Shortened(abs % FLOAT_CONV_MULT)
  IN (IF val < 0 /\ int # 0 THEN <<MINUS>> ELSE <<>>) \o DigitsOf(int)
       \o (IF frac = 0 THEN <<>>
           ELSE <<POINT>> \o WithoutTrailingZeroes(Padded(frac, Precision)))
-----------------------------------------------------------------------------
(* Key combinations: sets of bits; a text is a sequence of key names.       *)

Keys == {0, 2, 13, 14}    \* bits that are followed, of 0 .. 31
\* keyNames: the other bits are called "?".
HasName(bit) == bit \notin {12, 13, 16, 17, 18, 19, 21, 22, 23}

\* menuComboToString: from the highest bit.
RECURSIVE ComboToText(_)
ComboToText(combo) ==
  IF combo = {} THEN <<>>
  ELSE LET bit == CHOOSE b \in combo : \A x \in combo : x <= b
       IN <<bit>> \o ComboToText(combo \ {bit})

\* parseKeyComboOption: "?" and the empty text are refused.
ParseCombo(bits) ==
  IF bits = <<>> \/ \E i \in DOMAIN bits : ~HasName(bits[i])
  THEN Bad ELSE Value(Range(bits))
-----------------------------------------------------------------------------
Chars == {0, 1, 5, MINUS, PLUS, POINT}
Texts == UNION {[1 .. n -> Chars] : n \in 0 .. MaxText}
Limit == MaxInt * FLOAT_CONV_MULT
Cases == {[text |-> t] : t \in Texts} \cup {[number |-> v] : v \in -Limit .. Limit}
           \cup {[combo |-> c] : c \in SUBSET Keys}
TextInit == case \in Cases
-----------------------------------------------------------------------------
\* What a decimal number is: an optional sign, digits, and optionally a point and digits,
\* at least one digit in all.
Split(text) ==
  LET unsigned == IF text # <<>> /\ text[1] \in {MINUS, PLUS} THEN Tail(text) ELSE text
      points == {i \in DOMAIN unsigned : unsigned[i] = POINT}
      point == IF points = {} THEN Len(unsigned) + 1 ELSE CHOOSE i \in points : TRUE
  IN [neg |-> text # <<>> /\ text[1] = MINUS, points |-> Cardinality(points),
      int |-> SubSeq(unsigned, 1, point - 1), frac |-> SubSeq(unsigned, point + 1, Len(unsigned))]
IsDecimal(s) ==
  /\ s.points <= 1 /\ s.int \o s.frac # <<>>
  /\ \A d \in Range(s.int \o s.frac) : IsDigit(d)
\* Its value, with as many decimals as there are.
Scaled(s) == (Number(s.int) * FLOAT_CONV_MULT
                + Number([i \in 1 .. Precision |-> IF i <= Len(s.frac) THEN s.frac[i] ELSE 0]))
             * (IF s.neg THEN -1 ELSE 1)

\* A decimal number is read as what it denotes, when it is in range and neither negative
\* with an integer part (which is read as its opposite plus the fraction).
ReadAsWritten ==
  "text" \in DOMAIN case =>
    LET s == Split(case.text)
    IN IsDecimal(s) /\ ~(s.neg /\ Number(s.int) # 0) /\ Scaled(s) \in -Limit .. Limit =>
         ParseDecFloat(case.text, -Limit, Limit) = Value(Scaled(s))

\* A setting that has fewer decimals than are kept, as those that Rosalina saves, and is
\* not negative survives being written and read; so does any combination of keys
\* that have names.
SettingsSurvive ==
  /\ "number" \in DOMAIN case =>
       (case.number >= 0 /\ case.number % 10 = 0 =>
          ParseDecFloat(FloatToText(case.number), -Limit, Limit) = Value(case.number))
  /\ "combo" \in DOMAIN case =>
       ((\A b \in case.combo : HasName(b)) /\ case.combo # {} =>
          ParseCombo(ComboToText(case.combo)) = Value(case.combo))
=============================================================================
