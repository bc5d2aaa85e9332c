-------------------------- MODULE RangeCoderProofs --------------------------
(***************************************************************************)
(* The safety of the range decoder and of the range encoder, for every     *)
(* base, threshold, word size and bound that satisfies the assumptions.    *)
(*                                                                         *)
(* The first part is what one narrowing and one turn of the                *)
(* renormalisation loop do to an interval; the proofs about the decoder,   *)
(* the second part, and about the encoder, the third, cite these lemmas    *)
(* and do no arithmetic of their own.  The two coders have the interval,   *)
(* pc and left of RangeCoder in common; a behaviour is one coder's.        *)
(***************************************************************************)
EXTENDS RangeEncoder, RangeDecoder, NumberLemmas

(***************************************************************************)
(* The thresholds in the order the code has them: BOTTOM, TOP, the word.   *)
(***************************************************************************)
LEMMA Sizes ==
  /\ Base \in Nat /\ Base >= 2
  /\ Bottom \in Nat /\ Bottom >= 1
  /\ Top \in Nat /\ Top >= 2 * Bottom
  /\ Word \in Nat /\ Word >= 2 * Top
  /\ Top = Base * Bottom
  /\ Word = Base * Top
  /\ MaxTotal \in Nat /\ MaxTotal <= Bottom
  BY RangeCoderAssumption DEF Top, Word

(***************************************************************************)
(* Narrowing an interval that is wide enough for the total: nothing wraps, *)
(* and the result is a part of the interval that is one the loop can test. *)
(***************************************************************************)
LEMMA Narrow ==
  ASSUME NEW a \in WordSet, NEW w \in WordSet,
         IntervalOK(a, w), w >= Bottom,
         NEW cum \in Nat, NEW freq \in Nat, NEW total \in Nat,
         Valid(cum, freq, total),
         NEW r, r = w \div total
  PROVE  /\ r \in Nat /\ r > 0
         /\ NarrowLow(a, r, cum) = a + r * cum
         /\ NarrowRange(r, freq) = r * freq
         /\ NarrowLow(a, r, cum) \in WordSet
         /\ NarrowRange(r, freq) \in WordSet
         /\ IntervalOK(NarrowLow(a, r, cum), NarrowRange(r, freq))
         /\ a <= NarrowLow(a, r, cum)
         /\ NarrowLow(a, r, cum) + NarrowRange(r, freq) <= a + w
  <1> DEFINE rem == w % total
             lo  == a + r * cum
             wid == r * freq
  <1>1. total > 0 /\ freq > 0 /\ cum + freq <= total /\ total <= w
    BY Sizes DEF Valid, WordSet
  <1>2. r \in Nat /\ rem \in 0 .. total - 1 /\ w = total * r + rem
    BY <1>1, DivMod DEF WordSet
  <1>3. r > 0
    <2>1. CASE r = 0
      BY <1>1, <1>2, <2>1
    <2>2. QED
      BY <1>2, <2>1
  <1>4. r * (cum + freq) <= r * total
    <2>1. cum + freq \in Nat /\ cum + freq <= total /\ r \in Nat
      BY <1>1, <1>2
    <2>2. QED
      BY ONLY <2>1, total \in Nat, TimesMonotone
  <1>5. r * cum + r * freq <= w /\ r * cum \in Nat /\ r * freq \in Nat
    <2>1. r * (cum + freq) = r * cum + r * freq
      BY <1>2
    <2>2. r * total <= w
      BY <1>2 DEF WordSet
    <2>3. QED
      BY <1>2, <1>4, <2>1, <2>2 DEF WordSet
  <1>6. r * freq > 0
    BY <1>1, <1>3
  <1>7. lo \in WordSet /\ wid \in WordSet
    BY <1>5, <1>6, Sizes DEF IntervalOK, WordSet
  <1>8. lo % Word = lo /\ wid % Word = wid
    <2>1. \A x \in WordSet : x = Word * 0 + x
      BY Sizes DEF WordSet
    <2>2. \A x \in WordSet : x % Word = x
      BY <2>1, DivModUnique, Sizes DEF WordSet
    <2>3. QED
      BY <1>7, <2>2
  <1>9. NarrowLow(a, r, cum) = lo /\ NarrowRange(r, freq) = wid
    BY <1>8 DEF NarrowLow, NarrowRange
  <1>10. a <= lo /\ lo + wid <= a + w
    BY <1>5 DEF WordSet
  <1>11. IntervalOK(lo, wid)
    BY <1>5, <1>6, <1>10, Sizes DEF IntervalOK, WordSet
  <1> HIDE DEF lo, wid
  <1>12. QED
    BY <1>2, <1>3, <1>7, <1>9, <1>10, <1>11 DEF lo, wid

(***************************************************************************)
(* Emitting the first digit of a word: the digit and the shifted word      *)
(* spell the word.                                                         *)
(***************************************************************************)
LEMMA EmitDigit ==
  ASSUME NEW a \in WordSet
  PROVE  /\ TopDigit(a) \in Digit
         /\ a - Top * TopDigit(a) \in 0 .. Top - 1
         /\ ShiftWord(a) = (a - Top * TopDigit(a)) * Base
         /\ ShiftWord(a) \in WordSet
         /\ TopDigit(a) * Word + ShiftWord(a) = a * Base
  <1> DEFINE d    == TopDigit(a)
             rest == a - Top * d
  <1>1. /\ d \in Nat
        /\ rest \in 0 .. Top - 1
        /\ a = Top * d + rest
    <2>1. a \in Nat /\ Top \in Nat /\ Top > 0
      BY Sizes DEF WordSet
    <2>2. /\ a \div Top \in Nat
          /\ a % Top \in 0 .. Top - 1
          /\ a = Top * (a \div Top) + (a % Top)
      BY ONLY <2>1, DivMod
    <2>3. QED
      BY <2>1, <2>2 DEF TopDigit
  <1>2. d \in 0 .. Base - 1
    <2>1. CASE d >= Base
      <3>1. Top * Base <= Top * d
        BY <1>1, <2>1, Sizes, TimesMonotone
      <3>2. Top * Base = Word
        BY Sizes
      <3>3. QED
        BY <1>1, <3>1, <3>2, Sizes DEF WordSet
    <2>2. QED
      BY <1>1, <2>1, Sizes
  <1>3. /\ ShiftWord(a) = rest * Base
        /\ rest * Base \in WordSet
        /\ d * Word + rest * Base = a * Base
    <2>1. a * Base = Word * d + rest * Base
      <3>1. a * Base = (Top * d) * Base + rest * Base
        BY <1>1, Sizes
      <3>2. (Top * d) * Base = Word * d
        BY <1>1, Sizes
      <3>3. QED
        BY <3>1, <3>2
    <2>2. rest * Base \in 0 .. Word - 1
      <3>1. rest * Base <= (Top - 1) * Base /\ rest * Base \in Nat
        BY <1>1, Sizes, TimesMonotone
      <3>2. (Top - 1) * Base = Word - Base
        BY Sizes
      <3>3. QED
        BY <3>1, <3>2, Sizes
    <2>3. (a * Base) % Word = rest * Base
      <3>1. /\ a * Base \in Nat /\ Word \in Nat /\ Word > 0 /\ d \in Int
            /\ rest * Base \in 0 .. Word - 1
        BY <1>1, <2>2, Sizes DEF WordSet
      <3>2. QED
        BY ONLY <2>1, <3>1, DivModUnique
    <2>4. QED
      BY <1>1, <2>1, <2>2, <2>3, Sizes DEF ShiftWord, WordSet
  <1>4. QED
    BY <1>1, <1>2, <1>3 DEF Digit

(***************************************************************************)
(* One turn of the loop: the digit that leaves is the first one of low, no *)
(* digit of the cut range is lost by its shift, and the result is an       *)
(* interval the loop can test again, inside the old one scaled by Base.    *)
(***************************************************************************)
LEMMA Shift ==
  ASSUME NEW a \in WordSet, NEW w \in WordSet,
         IntervalOK(a, w), NeedsDigit(a, w)
  PROVE  LET d    == TopDigit(a)
             cut  == CutRange(a, w)
             low2 == ShiftWord(a)
             rng2 == ShiftWord(cut)
         IN /\ d \in Digit
            /\ cut \in 1 .. w
            /\ low2 \in WordSet /\ rng2 \in WordSet
            /\ d * Word + low2 = a * Base
            /\ rng2 = cut * Base
            /\ IntervalOK(low2, rng2)
  <1> DEFINE d    == TopDigit(a)
             cut  == CutRange(a, w)
             rest == a - Top * d
  <1>1. /\ d \in Nat
        /\ rest \in 0 .. Top - 1
        /\ a = Top * d + rest
    BY EmitDigit, Sizes DEF Digit, WordSet
  <1>2. d \in 0 .. Base - 1
    BY EmitDigit DEF Digit
  <1>3. /\ ShiftWord(a) = rest * Base
        /\ rest * Base \in WordSet
        /\ d * Word + rest * Base = a * Base
    BY EmitDigit
  (*************************************************************************)
  (* In both cases the cut interval ends inside the block of words that    *)
  (* share low's first digit, or exactly where that block ends; in the     *)
  (* second it ends there because the range was cut.                       *)
  (*************************************************************************)
  <1>4. /\ cut \in 1 .. w
        /\ rest + cut <= Top
        /\ rest + cut = Top => cut <= Bottom
    <2>1. CASE Settled(a, w)
      <3>1. cut = w
        BY <2>1 DEF CutRange
      <3>2. a + w < Word
        <4>1. CASE a + w = Word
          <5>1. Word % Word = 0 /\ TopDigit(0) = 0
            <6>1. Word = Word * 1 + 0 /\ 0 = Top * 0 + 0
              BY Sizes
            <6>2. QED
              BY <6>1, DivModUnique, Sizes DEF TopDigit
          <5>2. d = 0
            BY <2>1, <4>1, <5>1 DEF Settled
          <5>3. a < Top
            BY <1>1, <5>2, Sizes
          <5>4. QED
            BY <4>1, <5>3, Sizes DEF IntervalOK, WordSet
        <4>2. QED
          BY <4>1, Sizes DEF IntervalOK, WordSet
      <3>3. (a + w) % Word = a + w
        <4>1. a + w = Word * 0 + (a + w)
          BY Sizes DEF WordSet
        <4>2. QED
          BY <3>2, <4>1, DivModUnique, Sizes DEF WordSet
      <3>4. (a + w) \div Top = d
        BY <2>1, <3>3 DEF Settled, TopDigit
      <3>5. a + w < Top * d + Top
        <4>1. /\ (a + w) % Top \in 0 .. Top - 1
              /\ a + w = Top * ((a + w) \div Top) + ((a + w) % Top)
          <5>1. a + w \in Nat /\ Top \in Nat /\ Top > 0
            BY Sizes DEF WordSet
          <5>2. QED
            BY ONLY <5>1, DivMod
        <4>2. QED
          BY <1>1, <3>4, <4>1, Sizes DEF WordSet
      <3>6. QED
        BY <1>1, <3>1, <3>5, Sizes DEF IntervalOK, WordSet
    <2>2. CASE ~Settled(a, w) /\ w < Bottom
      <3> DEFINE gap == Top - rest
      <3>1. gap <= w
        <4>1. CASE a + w = Word
          <5>1. d = Base - 1
            <6>1. CASE d <= Base - 2
              <7>1. Top * d <= Top * (Base - 2)
                BY <1>1, <6>1, Sizes, TimesMonotone
              <7>2. Top * (Base - 2) = Word - 2 * Top
                BY Sizes
              <7>3. QED
                BY <1>1, <4>1, <7>1, <7>2, Sizes DEF IntervalOK, WordSet
            <6>2. QED
              BY <1>1, <1>2, <6>1, Sizes
          <5>2. Top * (Base - 1) = Word - Top
            BY Sizes
          <5>3. QED
            BY <1>1, <4>1, <5>1, <5>2, Sizes DEF WordSet
        <4>2. CASE a + w < Word
          <5>1. (a + w) % Word = a + w
            <6>1. a + w = Word * 0 + (a + w)
              BY Sizes DEF WordSet
            <6>2. QED
              BY <4>2, <6>1, DivModUnique, Sizes DEF WordSet
          <5>2. (a + w) \div Top # d
            BY <2>2, <5>1 DEF Settled, TopDigit
          <5>3. CASE rest + w < Top
            <6>1. a + w = Top * d + (rest + w)
              BY <1>1, Sizes DEF WordSet
            <6>2. (a + w) \div Top = d
              <7>1. /\ a + w \in Nat /\ Top \in Nat /\ Top > 0 /\ d \in Int
                    /\ rest + w \in 0 .. Top - 1
                BY <1>1, <5>3, Sizes DEF WordSet
              <7>2. QED
                BY ONLY <6>1, <7>1, DivModUnique
            <6>3. QED
              BY <5>2, <6>2
          <5>4. QED
            BY <1>1, <5>3, Sizes DEF WordSet
        <4>3. QED
          BY <4>1, <4>2, Sizes DEF IntervalOK, WordSet
      <3>2. gap \in 1 .. Bottom - 1
        BY <1>1, <2>2, <3>1, Sizes DEF WordSet
      <3>3. (Word - a) % Bottom = gap
        <4>1. Word - a = Bottom * (Base * (Base - 1 - d)) + gap
          <5>1. Word = Bottom * (Base * Base) /\ Top * d = Bottom * (Base * d)
            BY <1>1, Sizes
          <5>2. Bottom * (Base * (Base - 1 - d))
                  = Bottom * (Base * Base) - Bottom * Base - Bottom * (Base * d)
            BY <1>1, Sizes
          <5>3. QED
            BY <1>1, <5>1, <5>2, Sizes DEF WordSet
        <4>2. Base * (Base - 1 - d) \in Int
          BY <1>1, Sizes
        <4>3. Word - a \in Nat
          BY Sizes DEF WordSet
        <4>4. QED
          <5>1. Bottom \in Nat /\ Bottom > 0 /\ gap \in 0 .. Bottom - 1
            BY <3>2, Sizes
          <5>2. QED
            BY ONLY <4>1, <4>2, <4>3, <5>1, DivModUnique
      <3>4. cut = gap
        BY <2>2, <3>3 DEF CutRange
      <3>5. QED
        BY <1>1, <3>1, <3>2, <3>4, Sizes DEF WordSet
    <2>3. QED
      BY <2>1, <2>2 DEF NeedsDigit
  <1> HIDE DEF d, cut, rest
  <1>5. ShiftWord(cut) = cut * Base /\ cut * Base \in WordSet
    <2>1. cut <= Top - 1
      BY <1>1, <1>4, Sizes DEF WordSet
    <2>2. cut * Base <= (Top - 1) * Base /\ cut * Base \in Nat
      BY <1>4, <2>1, Sizes, TimesMonotone DEF WordSet
    <2>3. (Top - 1) * Base = Word - Base
      BY Sizes
    <2>4. cut * Base \in 0 .. Word - 1
      BY <2>2, <2>3, Sizes
    <2>5. cut * Base = Word * 0 + cut * Base
      BY <2>4, Sizes
    <2>6. QED
      BY <2>4, <2>5, DivModUnique, Sizes DEF ShiftWord, WordSet
  <1>6. IntervalOK(rest * Base, cut * Base)
    <2>1. (rest + cut) * Base = rest * Base + cut * Base
      BY <1>1, <1>4, Sizes DEF WordSet
    <2>2. cut * Base > 0
      BY <1>4, Sizes DEF WordSet
    <2>3. CASE rest + cut < Top
      <3>1. (rest + cut) * Base <= (Top - 1) * Base
        BY <1>1, <1>4, <2>3, Sizes, TimesMonotone DEF WordSet
      <3>2. (Top - 1) * Base = Word - Base
        BY Sizes
      <3>3. QED
        BY <1>1, <1>4, <2>1, <2>2, <3>1, <3>2, Sizes DEF IntervalOK, WordSet
    <2>4. CASE rest + cut = Top
      <3>1. cut * Base <= Bottom * Base
        BY <1>4, <2>4, Sizes, TimesMonotone DEF WordSet
      <3>2. Top * Base = Word /\ Bottom * Base = Top
        BY Sizes
      <3>3. QED
        BY <1>1, <1>4, <2>1, <2>2, <2>4, <3>1, <3>2, Sizes DEF IntervalOK, WordSet
    <2>5. QED
      BY <1>1, <1>4, <2>3, <2>4, Sizes DEF WordSet
  <1>7. QED
    BY <1>2, <1>3, <1>4, <1>5, <1>6 DEF Digit, d, cut

-----------------------------------------------------------------------------
(***************************************************************************)
(* The inductive invariant.  While new reads its digits the interval is    *)
(* the initial one, which is wide.                                         *)
(***************************************************************************)
DecoderInv ==
  /\ DecoderTypeOK
  /\ IntervalInWord
  /\ WideWhenReady
  /\ PendingFresh
  /\ pc = "open" => range >= Bottom

LEMMA DecoderInitInv == DecoderInit => DecoderInv
  <1> SUFFICES ASSUME NEW bytes \in Payloads, Open(bytes) PROVE DecoderInv
    BY DEF DecoderInit
  <1>1. IntervalOK(low, range) /\ range >= Bottom
    BY Sizes DEF Open, IntervalOK
  <1>2. DecoderTypeOK
    BY Sizes, PayloadsAssumption, RangeCoderAssumption DEF Open, DecoderTypeOK, WordSet
  <1>3. QED
    BY <1>1, <1>2 DEF Open, DecoderInv, IntervalInWord, WideWhenReady, PendingFresh

(***************************************************************************)
(* Shifting a digit into the code yields a word.                           *)
(***************************************************************************)
LEMMA CodeStaysWord ==
  ASSUME DecoderTypeOK, HasDigit
  PROVE  CodeWithNext \in WordSet
  <1> DEFINE rest == code - Top * TopDigit(code)
             b    == input[pos + 1]
  <1>1. b \in 0 .. Base - 1
    <2>1. input \in Seq(Digit) /\ pos + 1 \in 1 .. Len(input)
      BY DEF DecoderTypeOK, HasDigit
    <2>2. b \in Digit
      BY <2>1
    <2>3. QED
      BY <2>2 DEF Digit
  <1>2. ShiftWord(code) = rest * Base /\ rest \in 0 .. Top - 1
    BY EmitDigit DEF DecoderTypeOK
  <1> HIDE DEF rest, b
  <1>3. rest * Base <= (Top - 1) * Base /\ rest * Base \in Nat
    BY <1>2, Sizes, TimesMonotone
  <1>4. (Top - 1) * Base = Word - Base
    BY Sizes
  <1>5. CodeWithNext = rest * Base + b
    BY <1>2 DEF CodeWithNext, b
  <1>6. QED
    BY <1>1, <1>3, <1>4, <1>5, Sizes DEF WordSet

LEMMA DecodeFreqStep ==
  ASSUME DecoderInv, NEW total \in 1 .. MaxTotal - 1, DecodeFreq(total)
  PROVE  DecoderInv'
  <1>1. total \in Nat /\ total > 0 /\ range \in Nat
    BY Sizes DEF DecoderInv, DecoderTypeOK, WordSet
  <1>2. range \div total \in Nat
    BY ONLY <1>1, DivMod
  <1>3. pending' = <<range \div total, total>> /\ pc = "ready"
    BY DEF DecodeFreq
  <1>4. pending' \in Nat \X (1 .. MaxTotal - 1)
    BY <1>2, <1>3
  <1>5. DecoderTypeOK'
    BY <1>4 DEF DecodeFreq, DecoderInv, DecoderTypeOK
  <1>6. PendingFresh'
    BY <1>3 DEF DecodeFreq, PendingFresh
  <1>7. QED
    BY <1>5, <1>6 DEF DecodeFreq, DecoderInv, IntervalInWord, WideWhenReady

LEMMA AdvanceStep ==
  ASSUME DecoderInv, NEW iv \in Intervals, Advance(iv[1], iv[2], iv[3])
  PROVE  DecoderInv'
  <1> DEFINE r == range \div iv[3]
  <1>1. /\ iv[1] \in Nat /\ iv[2] \in Nat /\ iv[3] \in Nat
        /\ Valid(iv[1], iv[2], iv[3])
    BY Sizes DEF Intervals
  <1>2. low \in WordSet /\ range \in WordSet /\ IntervalOK(low, range) /\ range >= Bottom
    BY DEF DecoderInv, DecoderTypeOK, IntervalInWord, WideWhenReady, Advance
  <1>3. pending # <<>> /\ pending[2] = iv[3] /\ pending[1] = r
    BY DEF DecoderInv, PendingFresh, Advance, CanAdvance
  <1>4. low' = NarrowLow(low, r, iv[1]) /\ range' = NarrowRange(r, iv[2])
    BY <1>3 DEF Advance
  <1>5. low' \in WordSet /\ range' \in WordSet /\ IntervalOK(low', range')
    BY <1>1, <1>2, <1>4, Narrow
  <1>6. DecoderTypeOK'
    BY <1>5 DEF Advance, DecoderInv, DecoderTypeOK
  <1>7. QED
    BY <1>5, <1>6 DEF Advance, DecoderInv, IntervalInWord, WideWhenReady, PendingFresh

LEMMA DecoderRenormStep ==
  ASSUME DecoderInv, DecoderRenorm
  PROVE  DecoderInv'
  <1>1. /\ low \in WordSet /\ range \in WordSet
        /\ IntervalOK(low, range) /\ NeedsDigit(low, range)
    BY DEF DecoderInv, DecoderTypeOK, IntervalInWord, DecoderRenorm
  <1>2. low' \in WordSet /\ range' \in WordSet /\ IntervalOK(low', range')
    BY <1>1, Shift DEF DecoderRenorm
  <1>3. code' \in WordSet
    BY CodeStaysWord DEF DecoderRenorm, DecoderInv
  <1>4. pos' \in 0 .. Len(input)
    BY DEF DecoderRenorm, HasDigit, DecoderInv, DecoderTypeOK
  <1>5. DecoderTypeOK'
    BY <1>2, <1>3, <1>4 DEF DecoderRenorm, DecoderInv, DecoderTypeOK
  <1>6. pending = <<>> /\ pending' = <<>>
    BY DEF DecoderRenorm, DecoderInv, PendingFresh
  <1>7. QED
    BY <1>2, <1>5, <1>6
    DEF DecoderRenorm, DecoderInv, IntervalInWord, WideWhenReady, PendingFresh

LEMMA OpenDigitStep ==
  ASSUME DecoderInv, OpenDigit
  PROVE  DecoderInv'
  <1>1. code' \in WordSet
    BY CodeStaysWord DEF OpenDigit, DecoderInv
  <1>2. pos' \in 0 .. Len(input) /\ left' \in 0 .. Digits
    BY RangeCoderAssumption DEF OpenDigit, HasDigit, DecoderInv, DecoderTypeOK
  <1>3. DecoderTypeOK'
    BY <1>1, <1>2 DEF OpenDigit, DecoderInv, DecoderTypeOK
  <1>4. QED
    BY <1>3 DEF OpenDigit, DecoderInv, IntervalInWord, WideWhenReady, PendingFresh

LEMMA EofStep ==
  ASSUME DecoderInv, Eof
  PROVE  DecoderInv'
  <1>1. CASE pc = "open"
    BY <1>1 DEF Eof, DecoderInv, DecoderTypeOK, IntervalInWord, WideWhenReady, PendingFresh
  <1>2. CASE pc = "renorm" /\ NeedsDigit(low, range) /\ range' = CutRange(low, range)
    <2>1. low \in WordSet /\ range \in WordSet /\ IntervalOK(low, range)
      BY <1>2 DEF DecoderInv, DecoderTypeOK, IntervalInWord
    <2>2. range' \in 1 .. range
      BY <1>2, <2>1, Shift
    <2>3. range' \in WordSet
      BY <2>1, <2>2, Sizes DEF WordSet
    <2>4. QED
      BY <1>2, <2>3
      DEF Eof, DecoderInv, DecoderTypeOK, IntervalInWord, WideWhenReady, PendingFresh
  <1>3. QED
    BY <1>1, <1>2 DEF Eof

LEMMA DecoderNextInv == DecoderInv /\ [DecoderNext]_decoderVars => DecoderInv'
  <1> SUFFICES ASSUME DecoderInv, [DecoderNext]_decoderVars PROVE DecoderInv'
    OBVIOUS
  <1>1. CASE OpenDigit
    BY <1>1, OpenDigitStep
  <1>2. CASE OpenDone
    BY <1>2 DEF OpenDone, DecoderInv, DecoderTypeOK, IntervalInWord, WideWhenReady, PendingFresh
  <1>3. CASE Eof
    BY <1>3, EofStep
  <1>4. ASSUME NEW total \in 1 .. MaxTotal - 1, DecodeFreq(total) PROVE DecoderInv'
    BY <1>4, DecodeFreqStep
  <1>5. ASSUME NEW iv \in Intervals, Advance(iv[1], iv[2], iv[3]) PROVE DecoderInv'
    BY <1>5, AdvanceStep
  <1>6. CASE DecoderRenorm
    BY <1>6, DecoderRenormStep
  <1>7. CASE DecoderRenormDone
    BY <1>7, Sizes DEF DecoderRenormDone, NeedsDigit, DecoderInv, DecoderTypeOK, IntervalInWord,
                WideWhenReady, PendingFresh, WordSet
  <1>8. CASE UNCHANGED decoderVars
    BY <1>8 DEF decoderVars, DecoderInv, DecoderTypeOK, IntervalInWord, WideWhenReady, PendingFresh
  <1>9. QED
    BY <1>1, <1>2, <1>3, <1>4, <1>5, <1>6, <1>7, <1>8 DEF DecoderNext

LEMMA DecoderInvariance == DecoderSpec => []DecoderInv
  BY DecoderInitInv, DecoderNextInv, PTL DEF DecoderSpec

(***************************************************************************)
(* The decoder's words stay words and it never reads past its input.       *)
(***************************************************************************)
THEOREM DecoderTypeCorrect == DecoderSpec => []DecoderTypeOK
  <1>1. DecoderInv => DecoderTypeOK
    BY DEF DecoderInv
  <1>2. QED
    BY <1>1, DecoderInvariance, PTL

(***************************************************************************)
(* On any payload the interval is never empty and never runs past the word.*)
(***************************************************************************)
THEOREM DecoderIntervalStaysInWord == DecoderSpec => []IntervalInWord
  <1>1. DecoderInv => IntervalInWord
    BY DEF DecoderInv
  <1>2. QED
    BY <1>1, DecoderInvariance, PTL

(***************************************************************************)
(* decode_freq never divides by a width of 0, on any payload.              *)
(***************************************************************************)
THEOREM DecoderWideBetweenCalls == DecoderSpec => []WideWhenReady
  <1>1. DecoderInv => WideWhenReady
    BY DEF DecoderInv
  <1>2. QED
    BY <1>1, DecoderInvariance, PTL

(***************************************************************************)
(* advance never narrows by a width computed for another interval.         *)
(***************************************************************************)
THEOREM PendingIsFresh == DecoderSpec => []PendingFresh
  <1>1. DecoderInv => PendingFresh
    BY DEF DecoderInv
  <1>2. QED
    BY <1>1, DecoderInvariance, PTL

(***************************************************************************)
(* The code, read as a number in base Base, gains one digit at the end and *)
(* loses its first when it is full: shifting before adding is the same     *)
(* modulo the word as adding before reducing, which is how the window of   *)
(* the payload is defined.                                                 *)
(***************************************************************************)
LEMMA DigitAtTheEnd ==
  ASSUME NEW c \in WordSet, NEW b \in Digit
  PROVE  /\ ShiftWord(c) + b = (c * Base + b) % Word
         /\ (c * Base + b) % Word \in WordSet
  <1>1. PICK d \in Nat : d = TopDigit(c)
    BY EmitDigit DEF Digit
  <1>2. PICK rest \in 0 .. Top - 1 : rest = c - Top * d
    BY <1>1, EmitDigit
  <1>3. ShiftWord(c) = rest * Base /\ d * Word + ShiftWord(c) = c * Base
    BY <1>1, <1>2, EmitDigit
  <1>4. rest * Base <= (Top - 1) * Base /\ rest * Base \in Nat
    BY Sizes, TimesMonotone
  <1>5. (Top - 1) * Base = Word - Base
    BY Sizes
  <1>6. rest * Base + b \in 0 .. Word - 1
    BY <1>4, <1>5, Sizes DEF Digit
  <1>7. c * Base + b = Word * d + (rest * Base + b)
    BY <1>3, Sizes DEF Digit
  <1>8. c * Base + b \in Nat
    BY Sizes DEF WordSet, Digit
  <1>9. (c * Base + b) % Word = rest * Base + b
    <2>1. PICK a \in Nat : a = c * Base + b
      BY <1>8
    <2>2. PICK r \in 0 .. Word - 1 : r = rest * Base + b
      BY <1>6
    <2>3. a = Word * d + r /\ Word \in Nat /\ Word > 0
      BY <1>7, <2>1, <2>2, Sizes
    <2>4. a % Word = r
      BY ONLY <2>3, d \in Nat, DivModUnique
    <2>5. QED
      BY <2>1, <2>2, <2>4
  <1>10. QED
    BY <1>3, <1>6, <1>9 DEF WordSet

(***************************************************************************)
(* The window that ends at a position, by the window one digit before.     *)
(***************************************************************************)
Window(bytes, n) ==
  LET f[i \in 0 .. n] ==
        IF i = 0 THEN 0 ELSE (f[i - 1] * Base + bytes[i]) % Word
  IN f[n]

LEMMA WindowGrows ==
  ASSUME NEW N \in Nat, NEW bytes, \A i \in 1 .. N : bytes[i] \in Digit
  PROVE  /\ Window(bytes, 0) = 0
         /\ \A n \in 0 .. N : Window(bytes, n) \in WordSet
         /\ \A n \in 0 .. N - 1 :
              Window(bytes, n + 1) = (Window(bytes, n) * Base + bytes[n + 1]) % Word
  <1> DEFINE Added(i, c) == (c * Base + bytes[i]) % Word
  <1>1. \A i \in 1 .. N, c \in WordSet : Added(i, c) \in WordSet
    BY DigitAtTheEnd
  <1> HIDE DEF Added
  <1>2. PICK F : /\ F \in [0 .. N -> WordSet]
                 /\ F[0] = 0
                 /\ \A i \in 1 .. N : F[i] = Added(i, F[i - 1])
    <2>1. PICK step \in [1 .. N -> [WordSet -> WordSet]] :
            step = [i \in 1 .. N |-> [c \in WordSet |-> Added(i, c)]]
      BY <1>1
    <2>2. PICK zero \in WordSet : zero = 0
      BY Sizes DEF WordSet
    <2>3. StepsIn(WordSet, zero, N, step)
      BY DEF StepsIn
    <2>4. PICK F : IsRun(F, WordSet, zero, N, step)
      BY <2>3, Recursion
    <2>5. ASSUME NEW i \in 1 .. N PROVE F[i] = Added(i, F[i - 1])
      <3>1. F[i - 1] \in WordSet
        BY <2>4 DEF IsRun
      <3>2. step[i][F[i - 1]] = Added(i, F[i - 1])
        BY <2>1, <3>1
      <3>3. QED
        BY <2>4, <3>2 DEF IsRun
    <2>6. QED
      BY <2>2, <2>4, <2>5 DEF IsRun
  <1>3. ASSUME NEW n \in Nat, n <= N PROVE Window(bytes, n) = F[n]
    <2> DEFINE E(f) == [i \in 0 .. n |-> IF i = 0 THEN 0 ELSE (f[i - 1] * Base + bytes[i]) % Word]
               g == [i \in 0 .. n |-> F[i]]
               f == CHOOSE f : f = E(f)
    <2>1. Window(bytes, n) = f[n]
      BY DEF Window
    <2>2. g = E(g)
      BY <1>2, <1>3 DEF Added
    <2> HIDE DEF E
    <2>3. f = E(f)
      BY <2>2
    <2> HIDE DEF f
    <2>4. f[0] = 0 /\ \A i \in 1 .. n : f[i] = Added(i, f[i - 1])
      <3>1. f[0] = E(f)[0] /\ E(f)[0] = 0
        BY <2>3 DEF E
      <3>2. ASSUME NEW i \in 1 .. n PROVE f[i] = Added(i, f[i - 1])
        <4>1. f[i] = E(f)[i]
          BY <2>3
        <4>2. E(f)[i] = Added(i, f[i - 1])
          BY DEF E, Added
        <4>3. QED
          BY <4>1, <4>2
      <3>3. QED
        BY <3>1, <3>2
    <2>5. PICK h : h = F
      OBVIOUS
    <2>6. h[0] = 0 /\ \A i \in 1 .. n : h[i] = Added(i, h[i - 1])
      BY <1>2, <1>3, <2>5
    <2> HIDE DEF g
    <2>7. StepAlike(f, h, n)
      BY <2>4, <2>6 DEF StepAlike
    <2>8. \A i \in 0 .. n : f[i] = h[i]
      BY <2>7, Determined
    <2>9. QED
      BY <1>3, <2>1, <2>5, <2>8
  <1>4. Window(bytes, 0) = 0
    BY <1>2, <1>3
  <1>5. ASSUME NEW n \in 0 .. N - 1
        PROVE  Window(bytes, n + 1) = (Window(bytes, n) * Base + bytes[n + 1]) % Word
    <2>1. n \in Nat /\ n <= N /\ n + 1 \in Nat /\ n + 1 <= N /\ n + 1 \in 1 .. N
          /\ (n + 1) - 1 = n
      OBVIOUS
    <2>2. Window(bytes, n) = F[n] /\ Window(bytes, n + 1) = F[n + 1]
      BY <1>3, <2>1
    <2>3. F[n + 1] = Added(n + 1, F[n])
      BY <1>2, <2>1
    <2>4. QED
      BY <2>2, <2>3 DEF Added
  <1>6. ASSUME NEW n \in 0 .. N PROVE Window(bytes, n) \in WordSet
    BY <1>2, <1>3
  <1>7. QED
    BY <1>4, <1>5, <1>6

(***************************************************************************)
(* Every step that moves pos reads the digit at pos into the code, and no  *)
(* other step touches either.                                              *)
(***************************************************************************)
LEMMA CodeFollows ==
  ASSUME DecoderTypeOK, CodeIsWindow, [DecoderNext]_decoderVars
  PROVE  CodeIsWindow'
  <1>1. WindowValue = Window(input, pos)
    BY DEF WindowValue, Window
  <1>2. WindowValue' = Window(input', pos')
    BY DEF WindowValue, Window
  <1>3. CASE OpenDigit \/ DecoderRenorm
    <2>1. input' = input /\ pos' = pos + 1 /\ code' = CodeWithNext /\ HasDigit
      BY <1>3 DEF OpenDigit, DecoderRenorm
    <2>2. input \in Seq(Digit) /\ code \in WordSet /\ pos \in 0 .. Len(input) - 1
      BY <2>1 DEF DecoderTypeOK, HasDigit
    <2>3. input[pos + 1] \in Digit
      BY <2>2
    <2>4. code' = (code * Base + input[pos + 1]) % Word
      BY <2>1, <2>2, <2>3, DigitAtTheEnd DEF CodeWithNext
    <2>5. Window(input, pos + 1) = (Window(input, pos) * Base + input[pos + 1]) % Word
      <3>1. PICK N \in Nat : N = Len(input)
        BY <2>2
      <3>2. \A i \in 1 .. N : input[i] \in Digit
        BY <2>2, <3>1
      <3>3. QED
        BY <2>2, <3>1, <3>2, WindowGrows
    <2>6. QED
      BY <1>1, <1>2, <2>1, <2>4, <2>5 DEF CodeIsWindow
  <1>4. CASE UNCHANGED <<input, pos, code>>
    BY <1>1, <1>2, <1>4 DEF CodeIsWindow
  <1>5. QED
    BY <1>3, <1>4
    DEF DecoderNext, OpenDone, Eof, DecodeFreq, Advance, DecoderRenormDone, decoderVars

(***************************************************************************)
(* The code is at any time the digits of the payload that end at pos: the  *)
(* decoder skips none, reads none twice and keeps none too many, whatever  *)
(* the payload and whatever the calls.                                     *)
(***************************************************************************)
THEOREM CodeIsWindowOfInput == DecoderSpec => []CodeIsWindow
  <1>1. DecoderInit => CodeIsWindow
    <2> SUFFICES ASSUME NEW bytes \in Payloads, Open(bytes) PROVE CodeIsWindow
      BY DEF DecoderInit
    <2>1. Window(bytes, 0) = 0
      <3>1. 0 \in Nat /\ \A i \in 1 .. 0 : bytes[i] \in Digit
        OBVIOUS
      <3>2. QED
        BY <3>1, WindowGrows
    <2>2. WindowValue = Window(input, pos)
      BY DEF WindowValue, Window
    <2>3. QED
      BY <2>1, <2>2 DEF Open, CodeIsWindow
  <1>2. DecoderInv /\ CodeIsWindow /\ [DecoderNext]_decoderVars => CodeIsWindow'
    BY CodeFollows DEF DecoderInv
  <1>3. QED
    BY <1>1, <1>2, DecoderInvariance, PTL DEF DecoderSpec

-----------------------------------------------------------------------------
(***************************************************************************)
(* The inductive invariant.  Neither part is inductive alone: narrowing    *)
(* keeps the interval non-empty only because the range is wide between     *)
(* calls, and the loop leaves a wide range only because it never cuts an   *)
(* interval to nothing.                                                    *)
(***************************************************************************)
EncoderInv ==
  /\ TypeOK
  /\ IntervalInWord
  /\ WideWhenReady

LEMMA EncoderInitInv == Init => EncoderInv
  <1> SUFFICES ASSUME Init PROVE EncoderInv
    OBVIOUS
  <1>1. low = 0 /\ range = Word - 1 /\ pc = "ready"
    BY DEF Init
  <1>2. IntervalOK(low, range) /\ range >= Bottom
    BY <1>1, Sizes DEF IntervalOK
  <1>3. TypeOK
    BY Sizes, RangeCoderAssumption, EncoderBounds DEF Init, TypeOK, WordSet
  <1>4. QED
    BY <1>2, <1>3 DEF EncoderInv, IntervalInWord, WideWhenReady

LEMMA EncodeStep ==
  ASSUME EncoderInv, NEW iv \in Intervals, Encode(iv[1], iv[2], iv[3])
  PROVE  EncoderInv' /\ NestedStep
  <1> DEFINE r == range \div iv[3]
  <1>1. /\ iv[1] \in Nat /\ iv[2] \in Nat /\ iv[3] \in Nat
        /\ Valid(iv[1], iv[2], iv[3])
    BY Sizes DEF Intervals
  <1>2. low \in WordSet /\ range \in WordSet /\ IntervalOK(low, range) /\ range >= Bottom
    BY DEF EncoderInv, TypeOK, IntervalInWord, WideWhenReady, Encode
  <1>3. low' = NarrowLow(low, r, iv[1]) /\ range' = NarrowRange(r, iv[2])
    BY DEF Encode
  <1>4. /\ low' \in WordSet /\ range' \in WordSet
        /\ IntervalOK(low', range')
        /\ low <= low' /\ low' + range' <= low + range
    BY <1>1, <1>2, <1>3, Narrow
  <1>5. pc' = "renorm" /\ out' = out
    BY DEF Encode
  <1>6. TypeOK'
    BY <1>4, <1>5, EncoderBounds DEF EncoderInv, TypeOK, Encode
  <1>7. QED
    BY <1>4, <1>5, <1>6 DEF EncoderInv, IntervalInWord, WideWhenReady, NestedStep

LEMMA AppendDigit ==
  ASSUME NEW s \in Seq(Digit), NEW d \in Digit
  PROVE  /\ Append(s, d) \in Seq(Digit)
         /\ Append(s, d) # s
         /\ Append(s, d)[Len(Append(s, d))] = d
  OBVIOUS

LEMMA EncoderRenormStep ==
  ASSUME EncoderInv, Renorm
  PROVE  EncoderInv' /\ NestedStep
  <1> DEFINE d   == TopDigit(low)
             cut == CutRange(low, range)
  <1>1. /\ low \in WordSet /\ range \in WordSet
        /\ IntervalOK(low, range) /\ NeedsDigit(low, range)
    BY DEF EncoderInv, TypeOK, IntervalInWord, Renorm
  <1>2. low' = ShiftWord(low) /\ range' = ShiftWord(cut) /\ out' = Append(out, d)
    BY DEF Renorm
  <1>3. /\ d \in Digit /\ cut \in 1 .. range
        /\ low' \in WordSet /\ range' \in WordSet
        /\ d * Word + low' = low * Base
        /\ range' = cut * Base
        /\ IntervalOK(low', range')
    BY <1>1, <1>2, Shift
  <1>4. out' \in Seq(Digit) /\ out' # out /\ out'[Len(out')] = d
    BY <1>2, <1>3, AppendDigit DEF EncoderInv, TypeOK
  <1>5. pc = "renorm" /\ pc' = "renorm"
    BY DEF Renorm
  <1>6. TypeOK'
    BY <1>3, <1>4, <1>5 DEF EncoderInv, TypeOK, Renorm
  <1>7. d * Word + low' + range' <= (low + range) * Base
    <2>1. cut * Base <= range * Base
      BY <1>1, <1>3, Sizes, TimesMonotone DEF WordSet
    <2>2. (low + range) * Base = low * Base + range * Base
      BY <1>1, Sizes DEF WordSet
    <2>3. QED
      BY <1>1, <1>3, <2>1, <2>2, Sizes DEF WordSet, Digit
  <1>8. NestedStep
    BY <1>1, <1>3, <1>4, <1>5, <1>7, Sizes DEF NestedStep, WordSet, Digit
  <1>9. QED
    BY <1>3, <1>5, <1>6, <1>8 DEF EncoderInv, IntervalInWord, WideWhenReady

LEMMA FinishDigitStep ==
  ASSUME EncoderInv, FinishDigit
  PROVE  EncoderInv' /\ NestedStep
  <1> DEFINE d == TopDigit(low)
  <1>1. low \in WordSet /\ low' = ShiftWord(low) /\ out' = Append(out, d)
    BY DEF EncoderInv, TypeOK, FinishDigit
  <1>2. d \in Digit /\ low' \in WordSet /\ d * Word + low' = low * Base
    BY <1>1, EmitDigit
  <1>3. out' \in Seq(Digit) /\ out' # out /\ out'[Len(out')] = d
    BY <1>1, <1>2, AppendDigit DEF EncoderInv, TypeOK
  <1>4. pc = "finish" /\ pc' = "finish"
    BY DEF FinishDigit
  <1>5. left' \in 0 .. Digits
    BY RangeCoderAssumption DEF EncoderInv, TypeOK, FinishDigit
  <1>6. TypeOK'
    BY <1>2, <1>3, <1>4, <1>5 DEF EncoderInv, TypeOK, FinishDigit
  <1>7. NestedStep
    BY <1>1, <1>2, <1>3, <1>4, Sizes DEF NestedStep, WordSet, Digit
  <1>8. QED
    BY <1>4, <1>6, <1>7 DEF EncoderInv, IntervalInWord, WideWhenReady

(***************************************************************************)
(* Every step keeps the invariant, and keeps the exact interval inside the *)
(* one it started from.                                                    *)
(***************************************************************************)
LEMMA EncoderNextInv ==
  EncoderInv /\ [Next]_vars => EncoderInv' /\ [NestedStep]_vars
  <1> SUFFICES ASSUME EncoderInv, [Next]_vars PROVE EncoderInv' /\ [NestedStep]_vars
    OBVIOUS
  <1>1. ASSUME NEW iv \in Intervals, Encode(iv[1], iv[2], iv[3])
        PROVE  EncoderInv' /\ NestedStep
    BY <1>1, EncodeStep
  <1>2. CASE Renorm
    BY <1>2, EncoderRenormStep
  <1>3. CASE RenormDone
    <2>1. EncoderInv'
      BY <1>3, Sizes DEF RenormDone, NeedsDigit, EncoderInv, TypeOK, IntervalInWord,
                  WideWhenReady, WordSet
    <2>2. NestedStep
      BY <1>3, Sizes DEF RenormDone, NestedStep, EncoderInv, TypeOK, WordSet
    <2>3. QED
      BY <2>1, <2>2
  <1>4. CASE Finish \/ FinishDone
    <2>1. EncoderInv'
      BY <1>4, RangeCoderAssumption
      DEF Finish, FinishDone, EncoderInv, TypeOK, IntervalInWord, WideWhenReady
    <2>2. NestedStep
      BY <1>4, Sizes DEF Finish, FinishDone, NestedStep, EncoderInv, TypeOK, WordSet
    <2>3. QED
      BY <2>1, <2>2
  <1>5. CASE FinishDigit
    BY <1>5, FinishDigitStep
  <1>6. CASE UNCHANGED vars
    BY <1>6 DEF vars, EncoderInv, TypeOK, IntervalInWord, WideWhenReady
  <1>7. QED
    BY <1>1, <1>2, <1>3, <1>4, <1>5, <1>6 DEF Next

LEMMA EncoderInvariance ==
  Spec => []EncoderInv
  <1>1. Init => EncoderInv
    BY EncoderInitInv
  <1>2. EncoderInv /\ [Next]_vars => EncoderInv'
    BY EncoderNextInv
  <1>3. QED
    BY <1>1, <1>2, PTL DEF Spec

(***************************************************************************)
(* The encoder's words stay words and its output stays digits.             *)
(***************************************************************************)
THEOREM EncoderTypeCorrect ==
  Spec => []TypeOK
  <1>1. EncoderInv => TypeOK
    BY DEF EncoderInv
  <1>2. QED
    BY <1>1, EncoderInvariance, PTL

(***************************************************************************)
(* The encoder's interval is never empty and never runs past the word.     *)
(***************************************************************************)
THEOREM EncoderIntervalStaysInWord ==
  Spec => []IntervalInWord
  <1>1. EncoderInv => IntervalInWord
    BY DEF EncoderInv
  <1>2. QED
    BY <1>1, EncoderInvariance, PTL

(***************************************************************************)
(* Between calls the range is at least BOTTOM.                             *)
(***************************************************************************)
THEOREM EncoderWideBetweenCalls ==
  Spec => []WideWhenReady
  <1>1. EncoderInv => WideWhenReady
    BY DEF EncoderInv
  <1>2. QED
    BY <1>1, EncoderInvariance, PTL

(***************************************************************************)
(* Encoding is carry-less: every step's interval lies in the previous one. *)
(***************************************************************************)
THEOREM CarryLess ==
  Spec => Nested
  <1>1. EncoderInv /\ [Next]_vars => [NestedStep]_vars
    BY EncoderNextInv
  <1>2. QED
    BY <1>1, EncoderInvariance, PTL DEF Spec, Nested
-----------------------------------------------------------------------------
(***************************************************************************)
(* The weights of the digits of a word, from the last one up.              *)
(***************************************************************************)
LEMMA Powers ==
  /\ Power[0] = 1
  /\ \A i \in 0 .. Digits - 1 : Power[i + 1] = Base * Power[i]
  /\ \A i \in 0 .. Digits : Power[i] \in Nat /\ Power[i] >= 1
  <1>1. PICK N \in Nat : N = Digits
    BY RangeCoderAssumption
  <1>2. PICK F : /\ F \in [0 .. N -> Nat]
                 /\ F[0] = 1
                 /\ \A i \in 1 .. N : F[i] = Base * F[i - 1]
    <2>1. PICK step \in [1 .. N -> [Nat -> Nat]] :
            step = [i \in 1 .. N |-> [p \in Nat |-> Base * p]]
      <3>1. \A p \in Nat : Base * p \in Nat
        BY Sizes
      <3>2. QED
        BY <3>1
    <2>2. PICK one \in Nat : one = 1
      OBVIOUS
    <2>3. StepsIn(Nat, one, N, step)
      BY DEF StepsIn
    <2>4. PICK F : IsRun(F, Nat, one, N, step)
      BY <2>3, Recursion
    <2>5. ASSUME NEW i \in 1 .. N PROVE F[i] = Base * F[i - 1]
      <3>1. F[i - 1] \in Nat
        BY <2>4 DEF IsRun
      <3>2. step[i][F[i - 1]] = Base * F[i - 1]
        BY <2>1, <3>1
      <3>3. QED
        BY <2>4, <3>2 DEF IsRun
    <2>6. QED
      BY <2>2, <2>4, <2>5 DEF IsRun
  <1> DEFINE E(f) == [i \in 0 .. Digits |-> IF i = 0 THEN 1 ELSE Base * f[i - 1]]
  <1>3. Power = E(Power)
    <2>1. PICK G : G = [i \in 0 .. Digits |-> F[i]]
      OBVIOUS
    <2>2. G = E(G)
      BY <1>1, <1>2, <2>1
    <2>3. Power = CHOOSE f : f = E(f)
      BY DEF Power
    <2> HIDE DEF E
    <2>4. QED
      BY <2>2, <2>3
  <1>4. Power[0] = 1
    BY <1>1, <1>3
  <1>5. ASSUME NEW i \in 0 .. Digits - 1 PROVE Power[i + 1] = Base * Power[i]
    <2>1. i + 1 \in 0 .. Digits /\ i + 1 # 0 /\ (i + 1) - 1 = i
      BY <1>1
    <2>2. QED
      BY <1>3, <2>1
  <1> DEFINE T == { i \in Nat : Power[i] \in Nat /\ Power[i] >= 1 }
  <1>6. 0 \in T
    BY <1>4
  <1>7. \A i \in 0 .. N - 1 : i \in T => i + 1 \in T
    BY <1>1, <1>5, Sizes
  <1> HIDE DEF T
  <1>8. 0 .. N \subseteq T
    BY <1>6, <1>7, InductionTo
  <1>9. QED
    BY <1>1, <1>4, <1>5, <1>8 DEF T

LEMMA PowerDivides ==
  ASSUME NEW i \in 0 .. Digits
  PROVE  \E c \in Nat : Word = Power[i] * c
  <1>1. PICK N \in Nat : N = Digits
    BY RangeCoderAssumption
  <1> DEFINE Divides(n) == \E c \in Nat : Word = Power[N - n] * c
             T == { n \in Nat : Divides(n) }
  <1>2. Divides(0)
    BY <1>1, Powers, RangeCoderAssumption
  <1>3. ASSUME NEW n \in 0 .. N - 1, Divides(n) PROVE Divides(n + 1)
    <2>1. PICK c \in Nat : Word = Power[N - n] * c
      BY <1>3
    <2>2. PICK k \in 0 .. Digits - 1 : k = N - (n + 1)
      BY <1>1
    <2>3. k + 1 = N - n
      BY <2>2
    <2>4. Power[k + 1] = Base * Power[k] /\ Power[k] \in Nat
      BY <2>2, Powers, RangeCoderAssumption
    <2>5. Word = Power[k] * (Base * c) /\ Base * c \in Nat
      BY <2>1, <2>3, <2>4, Sizes
    <2>6. QED
      BY <2>2, <2>5
  <1> HIDE DEF Divides
  <1>4. 0 \in T /\ \A n \in 0 .. N - 1 : n \in T => n + 1 \in T
    BY <1>2, <1>3
  <1> HIDE DEF T
  <1>5. 0 .. N \subseteq T
    BY <1>4, InductionTo
  <1>6. PICK n \in 0 .. N : n = N - i
    BY <1>1
  <1>7. Divides(n) /\ N - n = i
    BY <1>5, <1>6 DEF T
  <1>8. QED
    BY <1>7 DEF Divides

LEMMA TopIsPower == Power[Digits - 1] = Top
  <1>1. PICK k \in 0 .. Digits - 1 : k = Digits - 1
    BY RangeCoderAssumption
  <1>2. Power[k] \in Nat /\ Power[k + 1] = Base * Power[k] /\ k + 1 = Digits
    BY <1>1, Powers, RangeCoderAssumption
  <1>3. Base * Power[k] = Base * Top
    BY <1>2, Sizes, RangeCoderAssumption
  <1>4. QED
    BY <1>1, <1>2, <1>3, Sizes

(***************************************************************************)
(* A word that moves on by one digit: what leaves it and what it becomes   *)
(* spell the word and the digit that came.                                 *)
(***************************************************************************)
LEMMA WordMovesOn ==
  ASSUME NEW w \in WordSet, NEW b \in Digit, NEW z, z = (w * Base + b) % Word
  PROVE  /\ TopDigit(w) \in Digit
         /\ z \in WordSet
         /\ TopDigit(w) * Word + z = w * Base + b
  <1>1. /\ TopDigit(w) \in Digit
        /\ ShiftWord(w) \in WordSet
        /\ TopDigit(w) * Word + ShiftWord(w) = w * Base
    BY EmitDigit
  <1>2. z \in WordSet /\ z = ShiftWord(w) + b
    BY DigitAtTheEnd
  <1>3. PICK v \in Int, x \in Int, y \in Int :
          v = ShiftWord(w) /\ x = w * Base /\ y = TopDigit(w) * Word
    BY <1>1, Sizes DEF WordSet, Digit
  <1>4. y + v = x /\ z = v + b
    BY <1>1, <1>2, <1>3
  <1>5. y + z = x + b
    BY <1>3, <1>4 DEF Digit
  <1>6. TopDigit(w) * Word + z = w * Base + b
    BY <1>3, <1>5
  <1>7. QED
    BY <1>1, <1>2, <1>6

(***************************************************************************)
(* The window that ends Digits digits further than n begins with digit     *)
(* n + 1.  With i more digits read after that one, the window is that      *)
(* digit at weight Power[i], above it what will leave the word, below it   *)
(* what was read since.                                                    *)
(***************************************************************************)
LEMMA FirstDigitOfWindow ==
  ASSUME NEW N \in Nat, NEW bytes, \A i \in 1 .. N : bytes[i] \in Digit,
         NEW n \in Nat, n + Digits <= N
  PROVE  TopDigit(Window(bytes, n + Digits)) = bytes[n + 1]
  <1>1. PICK D \in Nat : D = Digits /\ D >= 2
    BY RangeCoderAssumption
  <1>2. PICK d \in Digit : d = bytes[n + 1]
    BY <1>1
  <1> DEFINE W(i) == Window(bytes, i)
             Begins(i) == \E q \in Int : \E s \in 0 .. Power[i] - 1 :
                            W(n + 1 + i) = q * Power[i + 1] + d * Power[i] + s
             T == { i \in Nat : Begins(i) }
  <1>3. /\ \A i \in 0 .. N : W(i) \in WordSet
        /\ \A i \in 0 .. N - 1 : W(i + 1) = (W(i) * Base + bytes[i + 1]) % Word
    BY WindowGrows
  <1> HIDE DEF W
  <1>4. Begins(0)
    <2>1. n \in 0 .. N - 1
      BY <1>1
    <2>2. PICK w \in WordSet : w = W(n)
      BY <1>3, <2>1
    <2>3. PICK z : z = W(n + 1)
      OBVIOUS
    <2>4. z = (w * Base + d) % Word
      BY <1>2, <1>3, <2>1, <2>2, <2>3
    <2>5. PICK e \in Digit : e = TopDigit(w)
      BY <2>2, EmitDigit
    <2>6. e * Word + z = w * Base + d /\ z \in WordSet
      BY <2>4, <2>5, WordMovesOn
    <2>7. Power[0] = 1 /\ Power[0 + 1] = Base
      BY <1>1, Powers, Sizes
    <2>8. e * Word = (e * Top) * Base
      BY Sizes DEF Digit
    <2>9. z = (w - e * Top) * Base + d * 1 + 0 /\ w - e * Top \in Int
      BY <2>6, <2>8, Sizes DEF Digit, WordSet
    <2>10. QED
      BY <2>3, <2>7, <2>9
  <1>5. ASSUME NEW i \in 0 .. (D - 1) - 1, Begins(i) PROVE Begins(i + 1)
    <2>1. PICK q \in Int, s \in 0 .. Power[i] - 1 :
            W(n + 1 + i) = q * Power[i + 1] + d * Power[i] + s
      BY <1>5
    <2>2. PICK m \in 0 .. N - 1 : m = n + 1 + i
      BY <1>1
    <2>3. PICK w \in WordSet : w = W(m)
      BY <1>3, <2>2
    <2>4. PICK b \in Digit : b = bytes[m + 1]
      BY <2>2
    <2>5. PICK z : z = W(m + 1)
      OBVIOUS
    <2>6. PICK e \in Digit : e = TopDigit(w)
      BY <2>3, EmitDigit
    <2>7. e * Word + z = w * Base + b /\ z \in WordSet
      <3>1. z = (w * Base + b) % Word
        BY <1>3, <2>2, <2>3, <2>4, <2>5
      <3>2. QED
        BY <2>6, <3>1, WordMovesOn
    <2>8. PICK p0 \in Nat, p1 \in Nat, p2 \in Nat :
            p0 = Power[i] /\ p1 = Power[i + 1] /\ p2 = Power[i + 1 + 1]
      BY <1>1, Powers
    <2>9. p1 = Base * p0 /\ p2 = Base * p1 /\ p0 >= 1
      BY <1>1, <2>8, Powers
    <2>10. PICK c \in Nat : Word = p2 * c
      BY <1>1, <2>8, PowerDivides
    <2>11. w = q * p1 + d * p0 + s
      BY <2>1, <2>2, <2>3, <2>8
    <2>12. z = (q - e * c) * p2 + d * p1 + (s * Base + b)
      <3>1. w * Base = q * p2 + d * p1 + s * Base
        BY <2>1, <2>8, <2>9, <2>11, Sizes DEF Digit
      <3>2. e * Word = (e * c) * p2
        BY <2>10 DEF Digit
      <3>3. (q - e * c) * p2 = q * p2 - (e * c) * p2
        BY DEF Digit
      <3>4. PICK x1 \in Int, x2 \in Int, x3 \in Int, x4 \in Int :
              x1 = q * p2 /\ x2 = d * p1 /\ x3 = s * Base /\ x4 = (e * c) * p2
        BY <2>1, <2>8, Sizes DEF Digit
      <3>5. x4 + z = x1 + x2 + x3 + b
        BY <2>7, <3>1, <3>2, <3>4
      <3>6. z = x1 - x4 + x2 + (x3 + b)
        BY <2>7, <3>4, <3>5 DEF WordSet, Digit
      <3>7. QED
        BY <3>3, <3>4, <3>6
    <2>13. s * Base + b \in 0 .. p1 - 1
      <3>1. s <= p0 - 1 /\ s \in Nat /\ p0 - 1 \in Nat /\ Base \in Nat
        BY <2>1, <2>8, <2>9, Sizes
      <3>2. Base * s <= Base * (p0 - 1) /\ Base * s \in Nat
        BY <3>1, TimesMonotone
      <3>3. Base * (p0 - 1) = p1 - Base /\ Base * s = s * Base
        BY <2>9, <3>1
      <3>4. QED
        BY <3>2, <3>3, Sizes DEF Digit
    <2>14. q - e * c \in Int
      BY DEF Digit
    <2>15. n + 1 + (i + 1) = m + 1
      BY <2>2
    <2>16. QED
      BY <2>5, <2>8, <2>12, <2>13, <2>14, <2>15
  <1> HIDE DEF Begins
  <1>6. 0 \in T /\ \A i \in 0 .. (D - 1) - 1 : i \in T => i + 1 \in T
    BY <1>4, <1>5
  <1> HIDE DEF T
  <1>7. D - 1 \in Nat /\ 0 .. D - 1 \subseteq T
    BY <1>1, <1>6, InductionTo
  <1>8. PICK k \in Nat : k = D - 1
    BY <1>7
  <1>9. Begins(k)
    BY <1>7, <1>8 DEF T
  <1>10. Power[k] = Top /\ Power[k + 1] = Word /\ n + 1 + k = n + Digits
    BY <1>1, <1>8, TopIsPower, RangeCoderAssumption
  <1>11. PICK q \in Int, s \in 0 .. Top - 1 : W(n + Digits) = q * Word + d * Top + s
    BY <1>9, <1>10 DEF Begins
  <1>12. PICK w \in WordSet : w = W(n + Digits)
    BY <1>1, <1>3
  <1>13. d * Top + s \in 0 .. Word - 1
    <2>1. Top * d <= Top * (Base - 1) /\ Top * d \in Nat
      BY Sizes, TimesMonotone DEF Digit
    <2>2. Top * (Base - 1) = Word - Top /\ Top * d = d * Top
      BY Sizes DEF Digit
    <2>3. QED
      BY <2>1, <2>2, Sizes
  <1>14. q = 0
    <2>1. PICK r \in 0 .. Word - 1 : r = d * Top + s
      BY <1>13
    <2>2. w = Word * q + r /\ w = Word * 0 + w /\ w \in Nat /\ w \in 0 .. Word - 1
      <3>1. PICK x \in Int, y \in Int : x = q * Word /\ y = d * Top
        BY Sizes DEF Digit
      <3>2. w = x + r /\ x = Word * q
        BY <1>11, <1>12, <2>1, <3>1, Sizes
      <3>3. QED
        BY <3>2, Sizes DEF WordSet
    <2>3. w \div Word = q
      BY <2>2, DivModUnique, Sizes
    <2>4. w \div Word = 0
      BY <2>2, DivModUnique, Sizes
    <2>5. QED
      BY <2>3, <2>4
  <1>15. w = Top * d + s /\ w \in Nat /\ d \in Int
    BY <1>11, <1>12, <1>14, Sizes DEF Digit, WordSet
  <1>16. w \div Top = d
    BY <1>15, DivModUnique, Sizes
  <1>17. QED
    BY <1>2, <1>12, <1>16 DEF TopDigit, W

\* The window of Digits zeros is 0.
LEMMA WindowOfZeros ==
  ASSUME NEW N \in Nat, NEW bytes, \A i \in 1 .. N : bytes[i] \in Digit,
         NEW n \in Nat, n + Digits <= N,
         \A i \in n + 1 .. n + Digits : bytes[i] = 0
  PROVE  Window(bytes, n + Digits) = 0
  <1>1. PICK D \in Nat : D = Digits
    BY RangeCoderAssumption
  <1> DEFINE W(i) == Window(bytes, i)
             Multiple(i) == \E q \in Int : W(n + i) = q * Power[i]
             T == { i \in Nat : Multiple(i) }
  <1>2. /\ \A i \in 0 .. N : W(i) \in WordSet
        /\ \A i \in 0 .. N - 1 : W(i + 1) = (W(i) * Base + bytes[i + 1]) % Word
    BY WindowGrows
  <1> HIDE DEF W
  <1>3. Multiple(0)
    <2>1. n \in 0 .. N /\ n + 0 = n /\ Power[0] = 1
      BY <1>1, Powers
    <2>2. PICK w \in WordSet : w = W(n)
      BY <1>2, <2>1
    <2>3. w \in Int /\ w = w * 1
      BY DEF WordSet
    <2>4. QED
      BY <2>1, <2>2, <2>3
  <1>4. ASSUME NEW i \in 0 .. D - 1, Multiple(i) PROVE Multiple(i + 1)
    <2>1. PICK q \in Int : W(n + i) = q * Power[i]
      BY <1>4
    <2>2. PICK m \in 0 .. N - 1 : m = n + i
      BY <1>1
    <2>3. PICK w \in WordSet : w = W(m)
      BY <1>2, <2>2
    <2>4. bytes[m + 1] = 0 /\ 0 \in Digit
      BY <1>1, <2>2, Sizes DEF Digit
    <2>5. PICK z : z = W(m + 1)
      OBVIOUS
    <2>6. PICK e \in Digit : e = TopDigit(w)
      BY <2>3, EmitDigit
    <2>7. e * Word + z = w * Base + 0 /\ z \in WordSet
      <3>1. z = (w * Base + 0) % Word
        BY <1>2, <2>2, <2>3, <2>4, <2>5
      <3>2. QED
        BY <2>4, <2>6, <3>1, WordMovesOn
    <2>8. PICK p0 \in Nat, p1 \in Nat : p0 = Power[i] /\ p1 = Power[i + 1]
      BY <1>1, Powers
    <2>9. p1 = Base * p0
      BY <1>1, <2>8, Powers
    <2>10. PICK c \in Nat : Word = p1 * c
      BY <1>1, <2>8, PowerDivides
    <2>11. z = (q - e * c) * p1
      <3>1. w * Base = q * p1
        BY <2>1, <2>2, <2>3, <2>8, <2>9, Sizes
      <3>2. e * Word = (e * c) * p1
        BY <2>10 DEF Digit
      <3>3. (q - e * c) * p1 = q * p1 - (e * c) * p1
        BY DEF Digit
      <3>4. PICK x1 \in Int, x2 \in Int : x1 = q * p1 /\ x2 = (e * c) * p1
        BY DEF Digit
      <3>5. z = x1 - x2
        BY <2>7, <3>1, <3>2, <3>4 DEF WordSet
      <3>6. QED
        BY <3>3, <3>4, <3>5
    <2>12. q - e * c \in Int /\ n + (i + 1) = m + 1
      BY <2>2 DEF Digit
    <2>13. QED
      BY <2>5, <2>8, <2>11, <2>12
  <1> HIDE DEF Multiple
  <1>5. 0 \in T /\ \A i \in 0 .. D - 1 : i \in T => i + 1 \in T
    BY <1>3, <1>4
  <1> HIDE DEF T
  <1>6. 0 .. D \subseteq T
    BY <1>1, <1>5, InductionTo
  <1>7. Multiple(D)
    BY <1>6 DEF T
  <1>8. PICK q \in Int : W(n + Digits) = q * Word
    BY <1>1, <1>7, RangeCoderAssumption DEF Multiple
  <1>9. PICK w \in WordSet : w = W(n + Digits)
    BY <1>1, <1>2
  <1>10. w = 0
    <2>1. w = Word * q + 0 /\ w \in Nat /\ w = Word * 0 + w /\ w \in 0 .. Word - 1
      BY <1>8, <1>9, Sizes DEF WordSet
    <2>2. w % Word = 0
      BY <2>1, DivModUnique, Sizes
    <2>3. w % Word = w
      BY <2>1, DivModUnique, Sizes
    <2>4. QED
      BY <2>2, <2>3
  <1>11. QED
    BY <1>9, <1>10 DEF W

-----------------------------------------------------------------------------
(***************************************************************************)
(* A trace is what one encoder does from new to the last digit of finish,  *)
(* turn by turn.  A turn is the encoder's interval, pc and left, and how   *)
(* many symbols it has coded and how many digits emitted; F gives the K    *)
(* intervals that are coded and P the N digits of the payload.             *)
(***************************************************************************)
IsInterval(iv) ==
  /\ iv.cum \in Nat /\ iv.freq \in Nat /\ iv.total \in Nat
  /\ Valid(iv.cum, iv.freq, iv.total)

First(t) ==
  /\ t.low = 0 /\ t.range = Word - 1
  /\ t.symbols = 0 /\ t.digits = 0
  /\ t.pc = "ready" /\ t.left = 0

Encodes(t, u, F, K) ==
  LET iv == F[t.symbols + 1]
      r  == t.range \div iv.total
  IN  /\ t.pc = "ready" /\ u.pc = "renorm"
      /\ t.symbols < K /\ IsInterval(iv)
      /\ u.low = NarrowLow(t.low, r, iv.cum)
      /\ u.range = NarrowRange(r, iv.freq)
      /\ u.symbols = t.symbols + 1
      /\ u.digits = t.digits /\ u.left = t.left

Shifts(t, u, P) ==
  /\ t.pc = "renorm" /\ u.pc = "renorm"
  /\ NeedsDigit(t.low, t.range)
  /\ P[t.digits + 1] = TopDigit(t.low)
  /\ u.low = ShiftWord(t.low)
  /\ u.range = ShiftWord(CutRange(t.low, t.range))
  /\ u.digits = t.digits + 1
  /\ u.symbols = t.symbols /\ u.left = t.left

Returns(t, u) ==
  /\ t.pc = "renorm" /\ u.pc = "ready"
  /\ ~NeedsDigit(t.low, t.range)
  /\ u.low = t.low /\ u.range = t.range
  /\ u.symbols = t.symbols /\ u.digits = t.digits /\ u.left = t.left

Finishes(t, u, K) ==
  /\ t.pc = "ready" /\ u.pc = "finish"
  /\ t.symbols = K
  /\ u.left = Digits
  /\ u.low = t.low /\ u.range = t.range
  /\ u.symbols = t.symbols /\ u.digits = t.digits

FinishesDigit(t, u, P) ==
  /\ t.pc = "finish" /\ u.pc = "finish"
  /\ t.left > 0
  /\ P[t.digits + 1] = TopDigit(t.low)
  /\ u.low = ShiftWord(t.low)
  /\ u.left = t.left - 1
  /\ u.digits = t.digits + 1
  /\ u.range = t.range /\ u.symbols = t.symbols

Follows(t, u, F, K, P) ==
  \/ Encodes(t, u, F, K)
  \/ Shifts(t, u, P)
  \/ Returns(t, u)
  \/ Finishes(t, u, K)
  \/ FinishesDigit(t, u, P)

(***************************************************************************)
(* What holds of every turn.  In finish, Digits - left digits have left    *)
(* low and as many zeros come in.                                          *)
(***************************************************************************)
Sound(t, K, N) ==
  /\ t.low \in WordSet /\ t.range \in WordSet
  /\ t.symbols \in 0 .. K /\ t.digits \in 0 .. N
  /\ t.pc \in {"ready", "renorm", "finish"}
  /\ t.left \in 0 .. Digits
  /\ t.pc # "finish" => IntervalOK(t.low, t.range)
  /\ t.pc = "ready" => t.range >= Bottom
  /\ t.pc = "finish" => /\ t.symbols = K
                        /\ \E q \in Int : t.low = q * Power[Digits - t.left]

IsTrace(tr, m, F, K, P, N) ==
  /\ First(tr[0])
  /\ \A j \in 0 .. m : Sound(tr[j], K, N)
  /\ \A j \in 0 .. m - 1 : Follows(tr[j], tr[j + 1], F, K, P)

LEMMA FirstIsSound ==
  ASSUME NEW t, First(t), NEW K \in Nat, NEW N \in Nat
  PROVE  Sound(t, K, N)
  BY Sizes, RangeCoderAssumption DEF First, Sound, IntervalOK, WordSet

LEMMA StaysSound ==
  ASSUME NEW t, NEW u, NEW F, NEW K \in Nat, NEW P, NEW N \in Nat,
         Sound(t, K, N), Follows(t, u, F, K, P), u.digits <= N
  PROVE  Sound(u, K, N)
  <1>0. PICK a \in WordSet, w \in WordSet, n \in 0 .. N, k \in 0 .. K, l \in 0 .. Digits :
           a = t.low /\ w = t.range /\ n = t.digits /\ k = t.symbols /\ l = t.left
    BY DEF Sound
  <1>1. CASE Encodes(t, u, F, K)
    <2>1. PICK cum \in Nat, freq \in Nat, total \in Nat :
            cum = F[k + 1].cum /\ freq = F[k + 1].freq /\ total = F[k + 1].total
      BY <1>0, <1>1 DEF Encodes, IsInterval
    <2>2. /\ Valid(cum, freq, total) /\ k < K
          /\ u.low = NarrowLow(a, w \div total, cum)
          /\ u.range = NarrowRange(w \div total, freq)
          /\ u.pc = "renorm" /\ u.symbols = k + 1 /\ u.digits = n /\ u.left = l
      BY <1>0, <1>1, <2>1 DEF Encodes, IsInterval
    <2>3. IntervalOK(a, w) /\ w >= Bottom
      BY <1>0, <1>1 DEF Encodes, Sound
    <2>4. PICK r : r = w \div total
      OBVIOUS
    <2>5. /\ NarrowLow(a, r, cum) \in WordSet
          /\ NarrowRange(r, freq) \in WordSet
          /\ IntervalOK(NarrowLow(a, r, cum), NarrowRange(r, freq))
      BY <2>2, <2>3, <2>4, Narrow
    <2>6. QED
      BY <1>0, <2>2, <2>4, <2>5 DEF Sound
  <1>2. CASE Shifts(t, u, P)
    <2>1. IntervalOK(a, w) /\ NeedsDigit(a, w)
      BY <1>0, <1>2 DEF Shifts, Sound
    <2>2. u.low = ShiftWord(a) /\ u.range = ShiftWord(CutRange(a, w))
      BY <1>0, <1>2 DEF Shifts
    <2>3. u.low \in WordSet /\ u.range \in WordSet /\ IntervalOK(u.low, u.range)
      BY <2>1, <2>2, Shift
    <2>4. u.pc = "renorm" /\ u.symbols = k /\ u.digits \in 0 .. N /\ u.left = l
      BY <1>0, <1>2 DEF Shifts
    <2>5. QED
      BY <1>0, <2>3, <2>4 DEF Sound
  <1>3. CASE Returns(t, u)
    <2>1. IntervalOK(a, w) /\ w >= Bottom
      BY <1>0, <1>3, Sizes DEF Returns, Sound, NeedsDigit, WordSet
    <2>2. QED
      BY <1>0, <1>3, <2>1 DEF Returns, Sound
  <1>4. CASE Finishes(t, u, K)
    <2>1. Digits - u.left = 0 /\ a = a * Power[0] /\ a \in Int
      BY <1>4, Powers, RangeCoderAssumption DEF Finishes, WordSet
    <2>2. u.low = a * Power[Digits - u.left]
      BY <1>0, <1>4, <2>1 DEF Finishes
    <2>3. u.low \in WordSet /\ u.range \in WordSet /\ u.symbols = K /\ u.digits \in 0 .. N
          /\ u.pc = "finish" /\ u.left \in 0 .. Digits
      BY <1>0, <1>4, RangeCoderAssumption DEF Finishes
    <2>4. QED
      BY <2>1, <2>2, <2>3 DEF Sound
  <1>5. CASE FinishesDigit(t, u, P)
    <2>1. t.pc = "finish" /\ u.pc = "finish" /\ l > 0 /\ u.left = l - 1 /\ u.low = ShiftWord(a)
          /\ u.range = w /\ u.symbols = k /\ u.digits = n + 1
      BY <1>0, <1>5 DEF FinishesDigit
    <2>2. PICK i \in 0 .. Digits - 1 : i = Digits - l
      BY <1>0, <2>1, RangeCoderAssumption
    <2>3. Digits - u.left = i + 1
      BY <2>1, <2>2, RangeCoderAssumption
    <2>4. PICK p0 \in Nat, p1 \in Nat : p0 = Power[i] /\ p1 = Power[i + 1]
      BY <2>2, Powers, RangeCoderAssumption
    <2>5. p1 = Base * p0
      BY <2>2, <2>4, Powers
    <2>6. PICK q \in Int : a = q * p0
      BY <1>0, <2>1, <2>2, <2>4 DEF Sound
    <2>7. PICK c \in Nat : Word = p1 * c
      <3>1. i + 1 \in 0 .. Digits
        BY <2>2, RangeCoderAssumption
      <3>2. QED
        BY <2>4, <3>1, PowerDivides
    <2>8. PICK d \in Digit, z \in WordSet : d = TopDigit(a) /\ z = ShiftWord(a) /\ d * Word + z = a * Base
      BY EmitDigit
    <2>9. z = (q - d * c) * p1
      <3>1. a * Base = q * p1
        BY <2>5, <2>6, Sizes
      <3>2. d * Word = (d * c) * p1
        BY <2>7 DEF Digit
      <3>3. (q - d * c) * p1 = q * p1 - (d * c) * p1
        BY DEF Digit
      <3>4. PICK x1 \in Int, x2 \in Int : x1 = q * p1 /\ x2 = (d * c) * p1
        BY DEF Digit
      <3>5. z = x1 - x2
        BY <2>8, <3>1, <3>2, <3>4 DEF WordSet
      <3>6. QED
        BY <3>3, <3>4, <3>5
    <2>10. q - d * c \in Int
      BY DEF Digit
    <2>11. u.low = (q - d * c) * Power[Digits - u.left]
      BY <2>1, <2>3, <2>4, <2>8, <2>9
    <2>12. u.symbols = K
      BY <1>0, <2>1 DEF Sound
    <2>13. u.low \in WordSet /\ u.range \in WordSet /\ u.digits \in 0 .. N /\ u.left \in 0 .. Digits
      BY <1>0, <2>1, <2>8, RangeCoderAssumption
    <2>14. QED
      BY <2>1, <2>10, <2>11, <2>12, <2>13 DEF Sound
  <1>6. QED
    BY <1>1, <1>2, <1>3, <1>4, <1>5 DEF Follows

(***************************************************************************)
(* A trace grows by a turn that follows its last one, when symbols or      *)
(* digits are added at the end; after finish there are no more symbols.    *)
(***************************************************************************)
Agree(f, g, n) == \A i \in 1 .. n : f[i] = g[i]

NotFinished(tr, m) == \A j \in 0 .. m : tr[j].pc # "finish"

Grows(tr, m, F, K, P, N, u, F2, K2, P2, N2) ==
  /\ m \in Nat /\ K \in Nat /\ N \in Nat /\ K2 \in Nat /\ N2 \in Nat
  /\ IsTrace(tr, m, F, K, P, N)
  /\ K2 >= K /\ Agree(F, F2, K)
  /\ N2 >= N /\ Agree(P, P2, N)
  /\ K2 = K \/ NotFinished(tr, m)
  /\ Follows(tr[m], u, F2, K2, P2)
  /\ u.digits <= N2

GrownBy(tr, m, u, tr2) == tr2[m + 1] = u /\ \A j \in 0 .. m : tr2[j] = tr[j]

LEMMA TraceGrows ==
  ASSUME NEW tr, NEW m, NEW F, NEW K, NEW P, NEW N, NEW u, NEW F2, NEW K2, NEW P2, NEW N2,
         Grows(tr, m, F, K, P, N, u, F2, K2, P2, N2)
  PROVE  \E tr2 : IsTrace(tr2, m + 1, F2, K2, P2, N2) /\ GrownBy(tr, m, u, tr2)
  <1>0. /\ m \in Nat /\ K \in Nat /\ N \in Nat /\ K2 \in Nat /\ N2 \in Nat
        /\ IsTrace(tr, m, F, K, P, N)
        /\ K2 >= K /\ Agree(F, F2, K)
        /\ N2 >= N /\ Agree(P, P2, N)
        /\ K2 = K \/ NotFinished(tr, m)
        /\ Follows(tr[m], u, F2, K2, P2)
        /\ u.digits <= N2
    BY DEF Grows
  <1>1. ASSUME NEW j \in 0 .. m PROVE Sound(tr[j], K2, N2)
    <2>1. Sound(tr[j], K, N)
      BY <1>0 DEF IsTrace
    <2>2. QED
      BY <1>0, <2>1 DEF Sound, NotFinished
  <1>2. ASSUME NEW j \in 0 .. m - 1 PROVE Follows(tr[j], tr[j + 1], F2, K2, P2)
    <2>1. Follows(tr[j], tr[j + 1], F, K, P) /\ j \in 0 .. m /\ j + 1 \in 0 .. m
      BY <1>0 DEF IsTrace
    <2>2. PICK t, v : t = tr[j] /\ v = tr[j + 1]
      OBVIOUS
    <2>3. /\ Follows(t, v, F, K, P)
          /\ t.symbols \in 0 .. K /\ v.symbols \in 0 .. K
          /\ t.digits \in 0 .. N /\ v.digits \in 0 .. N
          /\ v.pc = "finish" => K2 = K
      BY <1>0, <2>1, <2>2 DEF IsTrace, Sound, NotFinished
    <2>4. Encodes(t, v, F, K) => Encodes(t, v, F2, K2)
      <3> SUFFICES ASSUME Encodes(t, v, F, K) PROVE Encodes(t, v, F2, K2)
        OBVIOUS
      <3>1. t.symbols + 1 \in 1 .. K /\ t.symbols < K2
        BY <1>0, <2>3 DEF Encodes
      <3>2. F2[t.symbols + 1] = F[t.symbols + 1]
        BY <1>0, <3>1 DEF Agree
      <3>3. QED
        BY <1>0, <3>1, <3>2 DEF Encodes
    <2>5. Shifts(t, v, P) => Shifts(t, v, P2)
      <3> SUFFICES ASSUME Shifts(t, v, P) PROVE Shifts(t, v, P2)
        OBVIOUS
      <3>1. t.digits + 1 \in 1 .. N
        BY <1>0, <2>3 DEF Shifts
      <3>2. P2[t.digits + 1] = P[t.digits + 1]
        BY <1>0, <3>1 DEF Agree
      <3>3. QED
        BY <1>0, <3>2 DEF Shifts
    <2>6. FinishesDigit(t, v, P) => FinishesDigit(t, v, P2)
      <3> SUFFICES ASSUME FinishesDigit(t, v, P) PROVE FinishesDigit(t, v, P2)
        OBVIOUS
      <3>1. t.digits + 1 \in 1 .. N
        BY <1>0, <2>3 DEF FinishesDigit
      <3>2. P2[t.digits + 1] = P[t.digits + 1]
        BY <1>0, <3>1 DEF Agree
      <3>3. QED
        BY <1>0, <3>2 DEF FinishesDigit
    <2>7. Finishes(t, v, K) => Finishes(t, v, K2)
      BY <1>0, <2>3 DEF Finishes
    <2>8. QED
      BY <1>0, <2>2, <2>3, <2>4, <2>5, <2>6, <2>7 DEF Follows
  <1>3. Sound(u, K2, N2)
    <2>1. Sound(tr[m], K2, N2)
      BY <1>0, <1>1
    <2>2. QED
      BY <1>0, <2>1, StaysSound
  <1>4. PICK tr2 : tr2 = [j \in 0 .. m + 1 |-> IF j = m + 1 THEN u ELSE tr[j]]
    OBVIOUS
  <1>5. tr2[m + 1] = u /\ \A j \in 0 .. m : tr2[j] = tr[j]
    BY <1>0, <1>4
  <1>6. First(tr2[0])
    BY <1>0, <1>5 DEF IsTrace
  <1>7. \A j \in 0 .. m + 1 : Sound(tr2[j], K2, N2)
    BY <1>0, <1>1, <1>3, <1>5
  <1>8. \A j \in 0 .. (m + 1) - 1 : Follows(tr2[j], tr2[j + 1], F2, K2, P2)
    <2> SUFFICES ASSUME NEW j \in 0 .. m PROVE Follows(tr2[j], tr2[j + 1], F2, K2, P2)
      BY <1>0
    <2>1. CASE j = m
      BY <1>0, <1>5, <2>1
    <2>2. CASE j # m
      <3>1. j \in 0 .. m - 1 /\ j + 1 \in 0 .. m
        BY <1>0, <2>2
      <3>2. QED
        BY <1>0, <1>2, <1>5, <3>1
    <2>3. QED
      BY <1>0, <2>1, <2>2
  <1>9. QED
    BY <1>0, <1>5, <1>6, <1>7, <1>8 DEF IsTrace, GrownBy

-----------------------------------------------------------------------------
(***************************************************************************)
(* The payload, with the zeros a decoder would go on reading, as a number  *)
(* that every turn of the encoder already determines.                      *)
(***************************************************************************)
Padded(P, N) == [i \in 1 .. N + Digits |-> IF i <= N THEN P[i] ELSE 0]

Ahead(P, N, n) == Window(Padded(P, N), n + Digits)

IsPayload(P, N) == \A i \in 1 .. N : P[i] \in Digit

LEMMA AheadMovesOn ==
  ASSUME NEW P, NEW N \in Nat, IsPayload(P, N)
  PROVE  /\ Ahead(P, N, N) = 0
         /\ \A n \in 0 .. N : Ahead(P, N, n) \in WordSet
         /\ \A n \in 0 .. N - 1 :
              /\ P[n + 1] \in Digit
              /\ \E b \in Digit :
                   P[n + 1] * Word + Ahead(P, N, n + 1) = Ahead(P, N, n) * Base + b
  <1>1. PICK D \in Nat : D = Digits /\ D >= 2
    BY RangeCoderAssumption
  <1>2. PICK M \in Nat : M = N + D
    BY <1>1
  <1>3. PICK bytes : bytes = Padded(P, N)
    OBVIOUS
  <1>4. /\ \A i \in 1 .. N : bytes[i] = P[i]
        /\ \A i \in N + 1 .. M : bytes[i] = 0
    BY <1>1, <1>2, <1>3 DEF Padded
  <1>5. \A i \in 1 .. M : bytes[i] \in Digit
    BY <1>2, <1>4, Sizes DEF IsPayload, Digit
  <1>6. /\ \A i \in 0 .. M : Window(bytes, i) \in WordSet
        /\ \A i \in 0 .. M - 1 :
             Window(bytes, i + 1) = (Window(bytes, i) * Base + bytes[i + 1]) % Word
    BY <1>5, WindowGrows
  <1>7. \A n \in Nat : Ahead(P, N, n) = Window(bytes, n + D)
    BY <1>1, <1>3 DEF Ahead
  <1>8. Ahead(P, N, N) = 0
    <2>1. \A i \in N + 1 .. N + Digits : bytes[i] = 0
      BY <1>1, <1>2, <1>4
    <2>2. N + Digits <= M
      BY <1>1, <1>2
    <2>3. Window(bytes, N + Digits) = 0
      BY <1>5, <2>1, <2>2, WindowOfZeros
    <2>4. QED
      BY <1>1, <1>7, <2>3
  <1>9. ASSUME NEW n \in 0 .. N PROVE Ahead(P, N, n) \in WordSet
    BY <1>2, <1>6, <1>7
  <1>10. ASSUME NEW n \in 0 .. N - 1
         PROVE  /\ P[n + 1] \in Digit
                /\ \E b \in Digit :
                     P[n + 1] * Word + Ahead(P, N, n + 1) = Ahead(P, N, n) * Base + b
    <2>1. P[n + 1] \in Digit /\ bytes[n + 1] = P[n + 1]
      BY <1>4 DEF IsPayload
    <2>2. PICK m \in 0 .. M - 1 : m = n + D
      BY <1>2
    <2>3. PICK w \in WordSet : w = Window(bytes, m)
      BY <1>6, <2>2
    <2>4. PICK b \in Digit : b = bytes[m + 1]
      BY <1>5, <2>2
    <2>5. PICK z : z = Window(bytes, m + 1)
      OBVIOUS
    <2>6. z = (w * Base + b) % Word
      BY <1>6, <2>2, <2>3, <2>4, <2>5
    <2>7. TopDigit(w) * Word + z = w * Base + b
      BY <2>6, WordMovesOn
    <2>8. TopDigit(w) = P[n + 1]
      <3>1. n \in Nat /\ n + Digits <= M /\ n + Digits = m
        BY <1>1, <1>2, <2>2
      <3>2. TopDigit(Window(bytes, n + Digits)) = bytes[n + 1]
        BY <1>5, <3>1, FirstDigitOfWindow
      <3>3. QED
        BY <2>1, <2>3, <3>1, <3>2
    <2>9. Ahead(P, N, n) = w /\ Ahead(P, N, n + 1) = z
      <3>1. n \in Nat /\ n + 1 \in Nat /\ (n + 1) + D = m + 1
        BY <2>2
      <3>2. QED
        BY <1>7, <2>2, <2>3, <2>5, <3>1
    <2>10. QED
      BY <2>1, <2>7, <2>8, <2>9
  <1>11. QED
    BY <1>8, <1>9, <1>10

(***************************************************************************)
(* A turn is in the payload when the Digits digits the decoder has read by *)
(* then are a number in the turn's interval, and were there to be read; in *)
(* finish, when they are low itself.                                       *)
(***************************************************************************)
InPayload(t, P, N) ==
  IF t.pc = "finish"
  THEN /\ Ahead(P, N, t.digits) = t.low
       /\ t.digits + t.left = N
  ELSE /\ t.low <= Ahead(P, N, t.digits)
       /\ Ahead(P, N, t.digits) < t.low + t.range
       /\ t.digits + Digits <= N

\* When the next turn is in the payload, so is this one.
LEMMA InPayloadBefore ==
  ASSUME NEW t, NEW u, NEW F, NEW K \in Nat, NEW P, NEW N \in Nat, IsPayload(P, N),
         Sound(t, K, N), Sound(u, K, N), Follows(t, u, F, K, P), InPayload(u, P, N)
  PROVE  InPayload(t, P, N)
  <1>0. PICK a \in WordSet, w \in WordSet, n \in 0 .. N, k \in 0 .. K, l \in 0 .. Digits :
           a = t.low /\ w = t.range /\ n = t.digits /\ k = t.symbols /\ l = t.left
    BY DEF Sound
  <1>1. PICK x \in WordSet : x = Ahead(P, N, n)
    BY AheadMovesOn
  <1>2. CASE Encodes(t, u, F, K)
    <2>1. PICK cum \in Nat, freq \in Nat, total \in Nat :
            cum = F[k + 1].cum /\ freq = F[k + 1].freq /\ total = F[k + 1].total
      BY <1>0, <1>2 DEF Encodes, IsInterval
    <2>2. PICK r : r = w \div total
      OBVIOUS
    <2>3. /\ Valid(cum, freq, total)
          /\ u.low = NarrowLow(a, r, cum)
          /\ u.range = NarrowRange(r, freq)
          /\ u.pc = "renorm" /\ u.digits = n /\ t.pc = "ready"
      BY <1>0, <1>2, <2>1, <2>2 DEF Encodes, IsInterval
    <2>4. IntervalOK(a, w) /\ w >= Bottom
      BY <1>0, <2>3 DEF Sound
    <2>5. PICK a2 \in WordSet, w2 \in WordSet :
            a2 = u.low /\ w2 = u.range /\ a <= a2 /\ a2 + w2 <= a + w
      BY <2>2, <2>3, <2>4, Narrow
    <2>6. a2 <= x /\ x < a2 + w2 /\ n + Digits <= N
      BY <1>1, <2>3, <2>5 DEF InPayload
    <2>7. a <= x /\ x < a + w
      BY <2>5, <2>6 DEF WordSet
    <2>8. QED
      BY <1>0, <1>1, <2>3, <2>6, <2>7 DEF InPayload
  <1>3. CASE Shifts(t, u, P)
    <2>1. /\ t.pc = "renorm" /\ u.pc = "renorm" /\ u.digits = n + 1
          /\ IntervalOK(a, w) /\ NeedsDigit(a, w)
          /\ P[n + 1] = TopDigit(a)
          /\ u.low = ShiftWord(a) /\ u.range = ShiftWord(CutRange(a, w))
      BY <1>0, <1>3 DEF Shifts, Sound
    <2>2. PICK d \in Digit, cut \in 1 .. w, a2 \in WordSet, w2 \in WordSet :
            /\ d = TopDigit(a) /\ cut = CutRange(a, w) /\ a2 = u.low /\ w2 = u.range
            /\ d * Word + a2 = a * Base /\ w2 = cut * Base
      BY <2>1, Shift
    <2>3. n \in 0 .. N - 1 /\ n + 1 + Digits <= N
      BY <2>1, RangeCoderAssumption DEF InPayload
    <2>4. PICK z \in WordSet : z = Ahead(P, N, n + 1)
      BY <2>3, AheadMovesOn
    <2>5. PICK b \in Digit : d * Word + z = x * Base + b
      BY <1>1, <2>1, <2>2, <2>3, <2>4, AheadMovesOn
    <2>6. a2 <= z /\ z < a2 + w2
      BY <2>1, <2>2, <2>4 DEF InPayload
    <2>7. (x - a) * Base + b >= 0 /\ (x - a) * Base + b < cut * Base
      <3>1. PICK xb \in Int, ab \in Int, dw \in Int, cb \in Int :
              xb = x * Base /\ ab = a * Base /\ dw = d * Word /\ cb = cut * Base
        BY <2>2, Sizes DEF WordSet, Digit
      <3>2. z - a2 = xb + b - ab
        BY <2>2, <2>5, <3>1 DEF WordSet, Digit
      <3>3. (x - a) * Base = xb - ab
        BY <3>1, Sizes DEF WordSet
      <3>4. QED
        BY <2>2, <2>6, <3>1, <3>2, <3>3 DEF WordSet, Digit
    <2>8. x - a >= 0
      <3>1. CASE x - a <= -1
        <4>1. PICK y \in Nat : y = a - x
          BY <3>1 DEF WordSet
        <4>2. Base * 1 <= Base * y /\ (x - a) * Base = - (Base * y)
          BY <3>1, <4>1, Sizes, TimesMonotone DEF WordSet
        <4>3. QED
          BY <2>7, <4>2, Sizes DEF Digit
      <3>2. QED
        BY <3>1 DEF WordSet
    <2>9. x - a < cut
      <3>1. CASE x - a >= cut
        <4>1. PICK y \in Nat : y = x - a
          BY <2>8 DEF WordSet
        <4>2. Base * cut <= Base * y /\ (x - a) * Base = Base * y /\ Base * cut = cut * Base
          BY <2>2, <3>1, <4>1, Sizes, TimesMonotone DEF WordSet
        <4>3. QED
          BY <2>7, <4>1, <4>2, Sizes DEF Digit
      <3>2. QED
        BY <2>2, <3>1 DEF WordSet
    <2>10. a <= x /\ x < a + w
      BY <2>2, <2>8, <2>9 DEF WordSet
    <2>11. n + Digits <= N
      BY <2>3, RangeCoderAssumption
    <2>12. QED
      BY <1>0, <1>1, <2>1, <2>10, <2>11 DEF InPayload
  <1>4. CASE Returns(t, u)
    BY <1>4 DEF Returns, InPayload
  <1>5. CASE Finishes(t, u, K)
    <2>1. t.pc = "ready" /\ u.pc = "finish" /\ u.low = a /\ u.digits = n /\ u.left = Digits
      BY <1>0, <1>5 DEF Finishes
    <2>2. x = a /\ n + Digits = N
      BY <1>1, <2>1 DEF InPayload
    <2>3. w > 0
      BY <1>0, <2>1 DEF Sound, IntervalOK
    <2>4. a <= x /\ x < a + w /\ n + Digits <= N
      BY <2>2, <2>3, RangeCoderAssumption DEF WordSet
    <2>5. QED
      BY <1>0, <1>1, <2>1, <2>4 DEF InPayload
  <1>6. CASE FinishesDigit(t, u, P)
    <2>1. /\ t.pc = "finish" /\ u.pc = "finish" /\ u.digits = n + 1 /\ u.left = l - 1
          /\ P[n + 1] = TopDigit(a) /\ u.low = ShiftWord(a)
      BY <1>0, <1>6 DEF FinishesDigit
    <2>2. PICK d \in Digit, a2 \in WordSet :
            d = TopDigit(a) /\ a2 = u.low /\ d * Word + a2 = a * Base
      BY <2>1, EmitDigit
    <2>3. n \in 0 .. N - 1
      BY <2>1 DEF Sound
    <2>4. a2 = Ahead(P, N, n + 1) /\ n + 1 + (l - 1) = N
      BY <2>1, <2>2 DEF InPayload
    <2>5. PICK b \in Digit : d * Word + a2 = x * Base + b
      BY <1>1, <2>1, <2>2, <2>3, <2>4, AheadMovesOn
    <2>6. a = x
      <3>1. a * Base = Base * a + 0 /\ a * Base = Base * x + b
        <4>1. a * Base = x * Base + b
          BY <2>2, <2>5
        <4>2. QED
          BY <4>1, Sizes DEF WordSet, Digit
      <3>2. (a * Base) \div Base = a
        BY <3>1, DivModUnique, Sizes DEF WordSet
      <3>3. (a * Base) \div Base = x
        BY <3>1, DivModUnique, Sizes DEF WordSet, Digit
      <3>4. QED
        BY <3>2, <3>3
    <2>7. n + l = N
      BY <2>4, RangeCoderAssumption
    <2>8. QED
      BY <1>0, <1>1, <2>1, <2>6, <2>7 DEF InPayload
  <1>7. QED
    BY <1>2, <1>3, <1>4, <1>5, <1>6 DEF Follows

(***************************************************************************)
(* A trace that ends with the last digit of finish, and its payload.       *)
(***************************************************************************)
IsCoding(tr, m, F, K, P, N) ==
  /\ IsPayload(P, N)
  /\ IsTrace(tr, m, F, K, P, N)
  /\ tr[m].pc = "finish" /\ tr[m].left = 0
  /\ tr[m].digits = N

LEMMA LastInPayload ==
  ASSUME NEW tr, NEW m \in Nat, NEW F, NEW K \in Nat, NEW P, NEW N \in Nat,
         IsCoding(tr, m, F, K, P, N)
  PROVE  InPayload(tr[m], P, N)
  <1>1. PICK t : t = tr[m]
    OBVIOUS
  <1>2. Sound(t, K, N) /\ t.pc = "finish" /\ t.left = 0 /\ t.digits = N
    BY <1>1 DEF IsCoding, IsTrace
  <1>3. PICK q \in Int : t.low = q * Word
    <2>1. Digits - t.left = Digits
      BY <1>2, RangeCoderAssumption
    <2>2. QED
      BY <1>2, <2>1, RangeCoderAssumption DEF Sound
  <1>4. PICK a \in WordSet : a = t.low
    BY <1>2 DEF Sound
  <1>5. a = 0
    <2>1. a = Word * q + 0 /\ a = Word * 0 + a /\ a \in Nat /\ a \in 0 .. Word - 1
      BY <1>3, <1>4, Sizes DEF WordSet
    <2>2. a % Word = 0
      BY <2>1, DivModUnique, Sizes
    <2>3. a % Word = a
      BY <2>1, DivModUnique, Sizes
    <2>4. QED
      BY <2>2, <2>3
  <1>6. Ahead(P, N, N) = 0
    BY AheadMovesOn DEF IsCoding
  <1>7. QED
    BY <1>1, <1>2, <1>4, <1>5, <1>6 DEF InPayload

(***************************************************************************)
(* The payload lies in the interval of every turn of the encoder, and goes *)
(* on for Digits digits at least after what was emitted by then: whatever  *)
(* was coded later, and whatever finish emitted at the end.                *)
(***************************************************************************)
THEOREM PayloadInEveryInterval ==
  ASSUME NEW tr, NEW m \in Nat, NEW F, NEW K \in Nat, NEW P, NEW N \in Nat,
         IsCoding(tr, m, F, K, P, N)
  PROVE  \A j \in 0 .. m : InPayload(tr[j], P, N)
  <1> DEFINE T == { i \in Nat : InPayload(tr[m - i], P, N) }
  <1>1. 0 \in T
    BY LastInPayload
  <1>2. ASSUME NEW i \in 0 .. m - 1, i \in T PROVE i + 1 \in T
    <2>1. PICK j \in 0 .. m - 1 : j = m - (i + 1)
      OBVIOUS
    <2>2. PICK t, u : t = tr[j] /\ u = tr[j + 1]
      OBVIOUS
    <2>3. InPayload(u, P, N)
      <3>1. j + 1 = m - i
        BY <2>1
      <3>2. QED
        BY <1>2, <2>2, <3>1
    <2>4. /\ IsPayload(P, N)
          /\ Sound(t, K, N) /\ Sound(u, K, N) /\ Follows(t, u, F, K, P)
      <3>1. j \in 0 .. m /\ j + 1 \in 0 .. m
        OBVIOUS
      <3>2. QED
        BY <2>2, <3>1 DEF IsCoding, IsTrace
    <2>5. InPayload(t, P, N)
      BY <2>3, <2>4, InPayloadBefore
    <2>6. QED
      BY <2>1, <2>2, <2>5
  <1> HIDE DEF T
  <1>3. 0 .. m \subseteq T
    BY <1>1, <1>2, InductionTo
  <1>4. ASSUME NEW j \in 0 .. m PROVE InPayload(tr[j], P, N)
    <2>1. m - j \in T /\ m - (m - j) = j
      BY <1>3
    <2>2. QED
      BY <2>1 DEF T
  <1>5. QED
    BY <1>4

-----------------------------------------------------------------------------
(***************************************************************************)
(* What a decoder, or the encoder run once more, does next when it stands  *)
(* at a turn of the coding: it is what the encoder did.                    *)
(***************************************************************************)
LEMMA TurnFacts ==
  ASSUME NEW tr, NEW m \in Nat, NEW F, NEW K \in Nat, NEW P, NEW N \in Nat,
         IsCoding(tr, m, F, K, P, N), NEW j \in 0 .. m, NEW t, t = tr[j]
  PROVE  /\ Sound(t, K, N) /\ InPayload(t, P, N)
         /\ t.pc # "finish" \/ t.left # 0 =>
              j + 1 \in 0 .. m /\ \E u : u = tr[j + 1] /\ Follows(t, u, F, K, P)
  <1>1. Sound(t, K, N)
    BY DEF IsCoding, IsTrace
  <1>2. InPayload(t, P, N)
    BY PayloadInEveryInterval
  <1>3. CASE j = m
    BY <1>1, <1>2, <1>3 DEF IsCoding
  <1>4. CASE j # m
    <2>1. j \in 0 .. m - 1
      BY <1>4
    <2>2. Follows(tr[j], tr[j + 1], F, K, P)
      BY <2>1 DEF IsCoding, IsTrace
    <2>3. QED
      BY <1>1, <1>2, <2>1, <2>2
  <1>5. QED
    BY <1>3, <1>4

SymbolsLeft(t, K) == t.symbols < K
NextInterval(t, F) == F[t.symbols + 1]
UnitWidth(t, iv) == t.range \div iv.total
ValueAt(t, iv, P, N) == ((Ahead(P, N, t.digits) - t.low) % Word) \div UnitWidth(t, iv)

FallsOn(iv, r, v) ==
  /\ IsInterval(iv)
  /\ r \in Nat /\ r > 0
  /\ v \in Nat /\ iv.cum <= v /\ v < iv.cum + iv.freq /\ v < iv.total

AtTheEnd(t, N) == t.digits + Digits = N

\* A symbol is left: its interval is the one the payload falls on.
LEMMA SymbolTurn ==
  ASSUME NEW tr, NEW m \in Nat, NEW F, NEW K \in Nat, NEW P, NEW N \in Nat,
         IsCoding(tr, m, F, K, P, N), NEW j \in 0 .. m, NEW t, t = tr[j],
         t.pc = "ready", SymbolsLeft(t, K),
         NEW iv, iv = NextInterval(t, F)
  PROVE  /\ j + 1 \in 0 .. m
         /\ \E u : u = tr[j + 1] /\ Encodes(t, u, F, K)
         /\ FallsOn(iv, UnitWidth(t, iv), ValueAt(t, iv, P, N))
  <1>1. PICK u : u = tr[j + 1] /\ j + 1 \in 0 .. m /\ Encodes(t, u, F, K)
    <2>0. t.pc # "finish" \/ t.left # 0
      OBVIOUS
    <2>1. PICK u : u = tr[j + 1] /\ j + 1 \in 0 .. m /\ Follows(t, u, F, K, P)
      BY <2>0, TurnFacts
    <2>2. QED
      BY <2>1 DEF Follows, Shifts, Returns, Finishes, FinishesDigit, SymbolsLeft
  <1>0. Sound(t, K, N) /\ IsPayload(P, N)
    BY TurnFacts DEF IsCoding
  <1>2. PICK a \in WordSet, w \in WordSet : a = t.low /\ w = t.range /\ IntervalOK(a, w) /\ w >= Bottom
    BY <1>0 DEF Sound
  <1>3. PICK cum \in Nat, freq \in Nat, total \in Nat :
          cum = iv.cum /\ freq = iv.freq /\ total = iv.total /\ Valid(cum, freq, total)
    BY <1>1 DEF Encodes, IsInterval, NextInterval
  <1>4. PICK r : r = UnitWidth(t, iv) /\ r = w \div total
    BY <1>2, <1>3 DEF UnitWidth
  <1>5. /\ r \in Nat /\ r > 0
        /\ NarrowLow(a, r, cum) = a + r * cum
        /\ NarrowRange(r, freq) = r * freq
    BY <1>2, <1>3, <1>4, Narrow
  <1>6. PICK x \in WordSet : x = Ahead(P, N, t.digits)
    <2>1. t.digits \in 0 .. N
      BY <1>0 DEF Sound
    <2>2. QED
      BY <1>0, <2>1, AheadMovesOn
  <1>7. a + r * cum <= x /\ x < a + r * cum + r * freq
    <2>1. InPayload(u, P, N)
      BY <1>1, PayloadInEveryInterval
    <2>2. u.pc = "renorm" /\ u.digits = t.digits
          /\ u.low = NarrowLow(a, r, cum) /\ u.range = NarrowRange(r, freq)
      BY <1>1, <1>2, <1>3, <1>4 DEF Encodes, NextInterval
    <2>3. QED
      BY <1>5, <1>6, <2>1, <2>2 DEF InPayload
  <1>8. PICK y \in Nat : y = x - a /\ r * cum <= y /\ y < r * cum + r * freq /\ y < Word
    <2>1. r * cum \in Nat /\ r * freq \in Nat
      BY <1>5, TimesMonotone
    <2>2. PICK rc \in Nat, rf \in Nat : rc = r * cum /\ rf = r * freq
      BY <2>1
    <2>3. a + rc <= x /\ x < a + rc + rf
      BY <1>7, <2>2
    <2>4. x - a \in Nat /\ x - a < Word /\ rc <= x - a /\ x - a < rc + rf
      BY <2>3, Sizes DEF WordSet
    <2>5. QED
      BY <2>2, <2>4
  <1>9. y % Word = y
    <2>1. y = Word * 0 + y /\ y \in 0 .. Word - 1
      BY <1>8, Sizes
    <2>2. QED
      BY <2>1, DivModUnique, Sizes
  <1>10. PICK v : v = ValueAt(t, iv, P, N) /\ v = y \div r
    BY <1>2, <1>4, <1>6, <1>8, <1>9 DEF ValueAt
  <1>11. PICK e \in Nat : e = v /\ cum <= e /\ e < cum + freq
    BY <1>5, <1>8, <1>10, QuotientBetween
  <1>12. e < total
    BY <1>3, <1>11 DEF Valid
  <1>13. IsInterval(iv)
    BY <1>1 DEF Encodes, NextInterval
  <1>14. FallsOn(iv, r, v)
    BY <1>3, <1>5, <1>11, <1>12, <1>13 DEF FallsOn
  <1>15. QED
    BY <1>1, <1>4, <1>10, <1>14

\* A digit is settled or the range too narrow: the digit is in the payload,
\* and so is the one a decoder reads.
LEMMA ShiftTurn ==
  ASSUME NEW tr, NEW m \in Nat, NEW F, NEW K \in Nat, NEW P, NEW N \in Nat,
         IsCoding(tr, m, F, K, P, N), NEW j \in 0 .. m, NEW t, t = tr[j],
         t.pc = "renorm", NeedsDigit(t.low, t.range)
  PROVE  /\ j + 1 \in 0 .. m
         /\ \E u : u = tr[j + 1] /\ Shifts(t, u, P)
         /\ t.digits + 1 + Digits <= N
  <1>1. PICK u : u = tr[j + 1] /\ j + 1 \in 0 .. m /\ Follows(t, u, F, K, P)
    BY TurnFacts
  <1>2. Shifts(t, u, P)
    BY <1>1 DEF Follows, Encodes, Returns, Finishes, FinishesDigit
  <1>3. InPayload(u, P, N)
    BY <1>1, TurnFacts
  <1>4. QED
    BY <1>1, <1>2, <1>3 DEF Shifts, InPayload

LEMMA ReturnTurn ==
  ASSUME NEW tr, NEW m \in Nat, NEW F, NEW K \in Nat, NEW P, NEW N \in Nat,
         IsCoding(tr, m, F, K, P, N), NEW j \in 0 .. m, NEW t, t = tr[j],
         t.pc = "renorm", ~NeedsDigit(t.low, t.range)
  PROVE  /\ j + 1 \in 0 .. m
         /\ \E u : u = tr[j + 1] /\ Returns(t, u)
  <1>1. PICK u : u = tr[j + 1] /\ j + 1 \in 0 .. m /\ Follows(t, u, F, K, P)
    BY TurnFacts
  <1>2. QED
    BY <1>1 DEF Follows, Encodes, Shifts, Finishes, FinishesDigit

\* No symbol is left: a decoder has read the payload to its end.
LEMMA EndTurn ==
  ASSUME NEW tr, NEW m \in Nat, NEW F, NEW K \in Nat, NEW P, NEW N \in Nat,
         IsCoding(tr, m, F, K, P, N), NEW j \in 0 .. m, NEW t, t = tr[j],
         t.pc = "ready", ~ SymbolsLeft(t, K)
  PROVE  /\ j + 1 \in 0 .. m
         /\ \E u : u = tr[j + 1] /\ Finishes(t, u, K)
         /\ AtTheEnd(t, N)
  <1>0. t.pc # "finish" \/ t.left # 0
    OBVIOUS
  <1>1. PICK u : u = tr[j + 1] /\ j + 1 \in 0 .. m /\ Follows(t, u, F, K, P)
    BY <1>0, TurnFacts
  <1>2. Finishes(t, u, K)
    BY <1>1 DEF Follows, Encodes, Shifts, Returns, FinishesDigit, SymbolsLeft
  <1>3. InPayload(u, P, N)
    BY <1>1, TurnFacts
  <1>4. QED
    BY <1>1, <1>2, <1>3 DEF Finishes, InPayload, AtTheEnd

\* finish has run to its end: every digit of the payload is emitted.
Finished(t) == t.pc = "finish" /\ t.left = 0
AllEmitted(t, N) == t.digits = N

LEMMA FinishedTurn ==
  ASSUME NEW tr, NEW m \in Nat, NEW F, NEW K \in Nat, NEW P, NEW N \in Nat,
         IsCoding(tr, m, F, K, P, N), NEW j \in 0 .. m, NEW t, t = tr[j], Finished(t)
  PROVE  AllEmitted(t, N)
  <1>1. InPayload(t, P, N) /\ Sound(t, K, N)
    BY TurnFacts
  <1>2. QED
    BY <1>1 DEF InPayload, Sound, Finished, AllEmitted

\* A turn leaves no choice of the next: whoever makes it gets the same turn,
\* and emits the same digit if it emits one.
SameTurn(t, u) ==
  /\ t.low = u.low /\ t.range = u.range
  /\ t.symbols = u.symbols /\ t.digits = u.digits
  /\ t.pc = u.pc /\ t.left = u.left

LEMMA NextTurnIsDetermined ==
  ASSUME NEW s, NEW t, SameTurn(s, t), t.digits \in Nat,
         NEW u, NEW v, NEW F, NEW K \in Nat, NEW P, NEW Q,
         Follows(s, u, F, K, P), Follows(t, v, F, K, Q)
  PROVE  /\ SameTurn(u, v)
         /\ \/ v.digits = t.digits
            \/ v.digits = t.digits + 1 /\ P[t.digits + 1] = Q[t.digits + 1]
  <1>1. CASE Encodes(s, u, F, K)
    <2>1. Encodes(t, v, F, K)
      BY <1>1 DEF Follows, SameTurn, Encodes, Shifts, Returns, Finishes, FinishesDigit
    <2>2. SameTurn(u, v)
      BY <1>1, <2>1 DEF SameTurn, Encodes
    <2>3. v.digits = t.digits
      BY <2>1 DEF Encodes
    <2>4. QED
      BY <2>2, <2>3
  <1>2. CASE Shifts(s, u, P)
    <2>1. Shifts(t, v, Q)
      BY <1>2 DEF Follows, SameTurn, Encodes, Shifts, Returns, Finishes, FinishesDigit
    <2>2. QED
      BY <1>2, <2>1 DEF SameTurn, Shifts
  <1>3. CASE Returns(s, u)
    <2>1. Returns(t, v)
      BY <1>3 DEF Follows, SameTurn, Encodes, Shifts, Returns, Finishes, FinishesDigit
    <2>2. SameTurn(u, v)
      BY <1>3, <2>1 DEF SameTurn, Returns
    <2>3. v.digits = t.digits
      BY <2>1 DEF Returns
    <2>4. QED
      BY <2>2, <2>3
  <1>4. CASE Finishes(s, u, K)
    <2>1. Finishes(t, v, K)
      BY <1>4 DEF Follows, SameTurn, Encodes, Shifts, Returns, Finishes, FinishesDigit
    <2>2. SameTurn(u, v)
      BY <1>4, <2>1 DEF SameTurn, Finishes
    <2>3. v.digits = t.digits
      BY <2>1 DEF Finishes
    <2>4. QED
      BY <2>2, <2>3
  <1>5. CASE FinishesDigit(s, u, P)
    <2>1. FinishesDigit(t, v, Q)
      BY <1>5 DEF Follows, SameTurn, Encodes, Shifts, Returns, Finishes, FinishesDigit
    <2>2. QED
      BY <1>5, <2>1 DEF SameTurn, FinishesDigit
  <1>6. QED
    BY <1>1, <1>2, <1>3, <1>4, <1>5 DEF Follows
=====
