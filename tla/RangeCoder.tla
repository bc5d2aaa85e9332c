----------------------------- MODULE RangeCoder -----------------------------
(***************************************************************************)
(* The arithmetic that det-coder/src/range.rs shares between its encoder   *)
(* and its decoder: the word size, the coding thresholds, the validation   *)
(* of a frequency interval and one test of the renormalisation loop.       *)
(*                                                                         *)
(* The code works on u64 words and emits bytes.  Here a word has Digits    *)
(* digits in base Base.  All the arithmetic is modulo Word, as it is       *)
(* modulo 2^64 in the code.                                                *)
(***************************************************************************)
EXTENDS CoderConstants

Top  == Base * Bottom      \* TOP: the weight of the first digit of a word
Word == Base * Top         \* 2^64: words are 0 .. Word - 1

\* Base to the power i.
Power[i \in 0 .. Digits] == IF i = 0 THEN 1 ELSE Base * Power[i - 1]

ASSUME RangeCoderAssumption ==
  /\ Base \in Nat /\ Base >= 2
  /\ Bottom \in Nat /\ Bottom >= 1
  /\ Digits \in Nat /\ Digits >= 2
  /\ Word = Power[Digits]
  /\ MaxTotal \in Nat /\ MaxTotal <= Bottom

WordSet == 0 .. Word - 1

(***************************************************************************)
(* A frequency interval (cum, freq) of a table of the given total.         *)
(***************************************************************************)
Valid(cum, freq, total) ==
  /\ freq > 0
  /\ total > 0
  /\ total < MaxTotal
  /\ cum + freq <= total

Intervals ==
  { iv \in (0 .. MaxTotal - 1) \X (1 .. MaxTotal - 1) \X (1 .. MaxTotal - 1) :
      Valid(iv[1], iv[2], iv[3]) }

(***************************************************************************)
(* Narrowing the interval [low, low + range) to a symbol's share: what     *)
(* encode and advance do to low and range before they renormalise.  r is   *)
(* the width of one unit of frequency, range / total.                      *)
(***************************************************************************)
NarrowLow(low, r, cum)  == (low + r * cum) % Word
NarrowRange(r, freq)    == (r * freq) % Word

(***************************************************************************)
(* One test of the renormalisation loop.  The first digit of low is        *)
(* settled when low and low + range agree on it; when they do not and the  *)
(* range is below Bottom, the range is cut so that the interval ends at    *)
(* the next multiple of Bottom.  Either way a digit leaves the word.       *)
(***************************************************************************)
TopDigit(low) == low \div Top

Settled(low, range) == TopDigit(low) = TopDigit((low + range) % Word)

\* Mutated form: a range below Bottom is not a reason to go on.
NeedsDigitSettledOnly(low, range) == Settled(low, range)

NeedsDigit(low, range) == Settled(low, range) \/ range < Bottom

\* Mutated form: the two tests swapped.
CutRangeFirst(low, range) ==
  IF range < Bottom THEN (Word - low) % Bottom ELSE range

CutRange(low, range) ==
  IF Settled(low, range) THEN range ELSE (Word - low) % Bottom

ShiftWord(w) == (w * Base) % Word

(***************************************************************************)
(* What makes (low, range) an interval the loop can test: it is not empty  *)
(* and it does not run past the word.  low + range may be Word exactly,    *)
(* when normalize_step sees it wrap to 0, but only with low in the last    *)
(* Top of the word, where that 0 is not taken for a settled first digit.   *)
(***************************************************************************)
IntervalOK(low, range) ==
  /\ range > 0
  /\ low + range <= Word
  /\ low + range = Word => low >= Word - Top

-----------------------------------------------------------------------------
(***************************************************************************)
(* What the encoder and the decoder both keep: the interval and where the  *)
(* caller or a loop stands.  out, code and the rest are each coder's own.  *)
(***************************************************************************)
VARIABLES
  low, range,   \* the interval
  pc,           \* "ready" between calls, otherwise the loop that runs
  left          \* digits the loop of finish or of new has left

(***************************************************************************)
(* While symbols are coded, the interval is never empty and never runs     *)
(* past the word: the wrapping additions of encode, advance and            *)
(* normalize_step never mistake a wrapped end for a settled digit.  For    *)
(* the decoder this is so on any payload and for any sequence of calls.    *)
(***************************************************************************)
IntervalInWord == pc \in {"open", "ready", "renorm"} => IntervalOK(low, range)

(***************************************************************************)
(* Between calls the range is at least BOTTOM, so that range / total is at *)
(* least 1 for every total below 2^31: the width of a symbol's share is    *)
(* never 0, whatever was coded before, and decode_freq never divides by 0. *)
(***************************************************************************)
WideWhenReady == pc = "ready" => range >= Bottom
=============================================================================
