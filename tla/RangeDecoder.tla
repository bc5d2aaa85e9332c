---------------------------- MODULE RangeDecoder ----------------------------
(***************************************************************************)
(* RangeDecoder of det-coder/src/range.rs: reads a payload one digit at a  *)
(* time and narrows the same interval as the encoder did.  A symbol takes  *)
(* two calls: decode_freq returns the frequency the code falls on and      *)
(* leaves it pending, advance narrows to the symbol's share and            *)
(* renormalises.  Here they are called in any order, with any argument, on *)
(* any payload: TokenStream adds the caller that det-coder has.            *)
(*                                                                         *)
(* A call that returns InvalidFrequency changes nothing; CanDecode and     *)
(* CanAdvance say when a call does not.  A call that runs out of input     *)
(* leaves the decoder "failed": every caller gives up on it.               *)
(***************************************************************************)
EXTENDS RangeCoder

CONSTANT Payloads     \* the inputs a decoder may be opened on

ASSUME PayloadsAssumption == Payloads \subseteq Seq(Digit)

\* Besides low, range, left and pc: "open" in the loop of new, "ready" between
\* calls, "renorm" in the loop of advance, "failed".
VARIABLES
  code,         \* the last Digits digits read, as a word
  pending,      \* <<r, total>> between decode_freq and advance, else <<>>
  input, pos    \* the payload and how much of it was read

decoderVars == <<low, range, code, pending, input, pos, left, pc>>

Open(bytes) ==
  /\ low = 0
  /\ range = Word - 1
  /\ code = 0
  /\ pending = <<>>
  /\ input = bytes
  /\ pos = 0
  /\ left = Digits
  /\ pc = "open"

\* The same as an action: a decoder opened in place of this one.
Reopen(bytes) ==
  /\ low' = 0
  /\ range' = Word - 1
  /\ code' = 0
  /\ pending' = <<>>
  /\ input' = bytes
  /\ pos' = 0
  /\ left' = Digits
  /\ pc' = "open"

DecoderInit == \E bytes \in Payloads : Open(bytes)

-----------------------------------------------------------------------------
HasDigit == pos < Len(input)

\* (code << 8) | read_byte()
CodeWithNext == ShiftWord(code) + input[pos + 1]

OpenDigit ==
  /\ pc = "open"
  /\ left > 0
  /\ HasDigit
  /\ code' = CodeWithNext
  /\ pos' = pos + 1
  /\ left' = left - 1
  /\ UNCHANGED <<low, range, pending, input, pc>>

OpenDone ==
  /\ pc = "open"
  /\ left = 0
  /\ pc' = "ready"
  /\ UNCHANGED <<low, range, code, pending, input, pos, left>>

\* UnexpectedEof: in new, or in the middle of a turn of renorm, after
\* normalize_step may have cut the range and before low is shifted.
Eof ==
  /\ ~HasDigit
  /\ \/ /\ pc = "open"
        /\ left > 0
        /\ UNCHANGED range
     \/ /\ pc = "renorm"
        /\ NeedsDigit(low, range)
        /\ range' = CutRange(low, range)
  /\ pc' = "failed"
  /\ UNCHANGED <<low, code, pending, input, pos, left>>

\* The frequency the code falls on, in units of r = range / total.
FreqValue(total) == ((code - low) % Word) \div (range \div total)

CanDecode(total) ==
  /\ pending = <<>>
  /\ total > 0 /\ total < MaxTotal
  /\ range \div total # 0
  /\ FreqValue(total) < total

DecodeFreq(total) ==
  /\ pc = "ready"
  /\ CanDecode(total)
  /\ pending' = <<range \div total, total>>
  /\ UNCHANGED <<low, range, code, input, pos, left, pc>>

CanAdvance(cum, freq, total) ==
  /\ Valid(cum, freq, total)
  /\ pending # <<>>
  /\ pending[2] = total

AdvanceKeepsPending(cum, freq, total) ==   \* mutated form
  /\ pc = "ready"
  /\ CanAdvance(cum, freq, total)
  /\ low' = NarrowLow(low, pending[1], cum)
  /\ range' = NarrowRange(pending[1], freq)
  /\ pc' = "renorm"
  /\ UNCHANGED <<pending, code, input, pos, left>>

Advance(cum, freq, total) ==
  /\ pc = "ready"
  /\ CanAdvance(cum, freq, total)
  /\ pending' = <<>>
  /\ low' = NarrowLow(low, pending[1], cum)
  /\ range' = NarrowRange(pending[1], freq)
  /\ pc' = "renorm"
  /\ UNCHANGED <<code, input, pos, left>>

\* Mutated form: the digit read is added without shifting the code.
RenormCodeKept ==
  /\ pc = "renorm"
  /\ NeedsDigit(low, range)
  /\ HasDigit
  /\ code' = (code + input[pos + 1]) % Word
  /\ pos' = pos + 1
  /\ low' = ShiftWord(low)
  /\ range' = ShiftWord(CutRange(low, range))
  /\ UNCHANGED <<pending, input, left, pc>>

DecoderRenorm ==
  /\ pc = "renorm"
  /\ NeedsDigit(low, range)
  /\ HasDigit
  /\ code' = CodeWithNext
  /\ pos' = pos + 1
  /\ low' = ShiftWord(low)
  /\ range' = ShiftWord(CutRange(low, range))
  /\ UNCHANGED <<pending, input, left, pc>>

DecoderRenormDone ==
  /\ pc = "renorm"
  /\ ~NeedsDigit(low, range)
  /\ pc' = "ready"
  /\ UNCHANGED <<low, range, code, pending, input, pos, left>>

DecoderNext ==
  \/ OpenDigit
  \/ OpenDone
  \/ Eof
  \/ \E total \in 1 .. MaxTotal - 1 : DecodeFreq(total)
  \/ \E iv \in Intervals : Advance(iv[1], iv[2], iv[3])
  \/ DecoderRenorm
  \/ DecoderRenormDone

DecoderSpec == DecoderInit /\ [][DecoderNext]_decoderVars

-----------------------------------------------------------------------------
DecoderTypeOK ==
  /\ low \in WordSet
  /\ range \in WordSet
  /\ code \in WordSet
  /\ pending = <<>> \/ pending \in Nat \X (1 .. MaxTotal - 1)
  /\ input \in Seq(Digit)
  /\ pos \in 0 .. Len(input)
  /\ left \in 0 .. Digits
  /\ pc \in {"open", "ready", "renorm", "failed"}

(***************************************************************************)
(* The width decode_freq left pending is that of the interval advance will *)
(* narrow: it is never one computed before the interval changed.           *)
(***************************************************************************)
PendingFresh ==
  pending # <<>> =>
    /\ pc = "ready"
    /\ pending[1] = range \div pending[2]

(***************************************************************************)
(* The code is the window of the payload that ends at pos: no turn of the  *)
(* loop skips a digit, reads one twice or keeps one too many.              *)
(***************************************************************************)
WindowValue ==
  LET f[i \in 0 .. pos] ==
        IF i = 0 THEN 0 ELSE (f[i - 1] * Base + input[i]) % Word
  IN f[pos]

CodeIsWindow == code = WindowValue
=============================================================================
