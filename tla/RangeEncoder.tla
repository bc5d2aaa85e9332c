---------------------------- MODULE RangeEncoder ----------------------------
(***************************************************************************)
(* RangeEncoder of det-coder/src/range.rs: a carry-less range coder that   *)
(* narrows [low, low + range) by one symbol per call of encode and emits   *)
(* digits from the top of low.                                             *)
(*                                                                         *)
(* encode is its narrowing followed by the loop of renorm; a step of the   *)
(* model is one of them: Encode narrows, each Renorm is one iteration, and *)
(* RenormDone is the loop's exit and the return of encode.                 *)
(***************************************************************************)
EXTENDS RangeCoder

CONSTANTS
  MaxSymbols,   \* bound: calls of encode in one stream
  MaxOut        \* bound: digits emitted by renorm

ASSUME EncoderBounds == MaxSymbols \in Nat /\ MaxOut \in Nat

\* Besides low, range, left and pc: "ready" between calls, "renorm" in the
\* loop of a call, "finish" in the loop of finish, "finished" after it.
VARIABLES
  out,          \* the digits emitted so far
  count         \* calls of encode, for the bound

vars == <<low, range, out, pc, left, count>>

Init ==
  /\ low = 0
  /\ range = Word - 1
  /\ out = <<>>
  /\ pc = "ready"
  /\ left = 0
  /\ count = 0

\* The same as an action: a new encoder in place of this one.
Restart ==
  /\ low' = 0
  /\ range' = Word - 1
  /\ out' = <<>>
  /\ pc' = "ready"
  /\ left' = 0
  /\ count' = 0

-----------------------------------------------------------------------------
\* A call with an invalid interval returns an error and changes nothing.
Encode(cum, freq, total) ==
  /\ pc = "ready"
  /\ count < MaxSymbols
  /\ Valid(cum, freq, total)
  /\ LET r == range \div total IN
       /\ low' = NarrowLow(low, r, cum)
       /\ range' = NarrowRange(r, freq)
  /\ pc' = "renorm"
  /\ count' = count + 1
  /\ UNCHANGED <<out, left>>

\* Mutated forms: low is shifted before its first digit is emitted; range is
\* not shifted.
RenormShiftFirst ==
  /\ pc = "renorm"
  /\ NeedsDigit(low, range)
  /\ Len(out) < MaxOut
  /\ out' = Append(out, TopDigit(ShiftWord(low)))
  /\ low' = ShiftWord(low)
  /\ range' = ShiftWord(CutRange(low, range))
  /\ UNCHANGED <<pc, left, count>>

RenormRangeKept ==
  /\ pc = "renorm"
  /\ NeedsDigit(low, range)
  /\ Len(out) < MaxOut
  /\ out' = Append(out, TopDigit(low))
  /\ low' = ShiftWord(low)
  /\ range' = CutRange(low, range)
  /\ UNCHANGED <<pc, left, count>>

Renorm ==
  /\ pc = "renorm"
  /\ NeedsDigit(low, range)
  /\ Len(out) < MaxOut
  /\ out' = Append(out, TopDigit(low))
  /\ low' = ShiftWord(low)
  /\ range' = ShiftWord(CutRange(low, range))
  /\ UNCHANGED <<pc, left, count>>

RenormDone ==
  /\ pc = "renorm"
  /\ ~NeedsDigit(low, range)
  /\ pc' = "ready"
  /\ UNCHANGED <<low, range, out, left, count>>

Finish ==
  /\ pc = "ready"
  /\ pc' = "finish"
  /\ left' = Digits
  /\ UNCHANGED <<low, range, out, count>>

FinishDigit ==
  /\ pc = "finish"
  /\ left > 0
  /\ out' = Append(out, TopDigit(low))
  /\ low' = ShiftWord(low)
  /\ left' = left - 1
  /\ UNCHANGED <<range, pc, count>>

FinishDone ==
  /\ pc = "finish"
  /\ left = 0
  /\ pc' = "finished"
  /\ UNCHANGED <<low, range, out, left, count>>

Next ==
  \/ \E iv \in Intervals : Encode(iv[1], iv[2], iv[3])
  \/ Renorm
  \/ RenormDone
  \/ Finish
  \/ FinishDigit
  \/ FinishDone

Spec == Init /\ [][Next]_vars

\* A call of encode or finish runs to its return: its loop is never suspended.
Fairness ==
  /\ WF_vars(Renorm) /\ WF_vars(RenormDone)
  /\ WF_vars(FinishDigit) /\ WF_vars(FinishDone)

FairSpec == Spec /\ Fairness

-----------------------------------------------------------------------------
TypeOK ==
  /\ low \in WordSet
  /\ range \in WordSet
  /\ out \in Seq(Digit)
  /\ pc \in {"ready", "renorm", "finish", "finished"}
  /\ left \in 0 .. Digits
  /\ count \in 0 .. MaxSymbols

(***************************************************************************)
(* Encoding is carry-less: every step keeps the exact interval inside the  *)
(* one it started from.  A step that emits no digit narrows it; one that   *)
(* emits digit d scales it by Base, and d * Word + low continues the       *)
(* number the digits spell.  So no later symbol changes a digit already    *)
(* in out, and the payload lies in the interval of every symbol's prefix;  *)
(* finish spells low itself.                                               *)
(***************************************************************************)
NestedStep ==
  IF out' = out
  THEN /\ low <= low'
       /\ low' + range' <= low + range
  ELSE LET d == out'[Len(out')] IN
         /\ low * Base <= d * Word + low'
         /\ IF pc = "finish"
            THEN d * Word + low' = low * Base
            ELSE d * Word + low' + range' <= (low + range) * Base

Nested == [][NestedStep]_vars

(***************************************************************************)
(* Every call returns: the loop of renorm ends, and finish has nothing     *)
(* left of low when its loop does.                                         *)
(***************************************************************************)
CallsReturn ==
  /\ (pc = "renorm") ~> (pc = "ready")
  /\ (pc = "finish") ~> (pc = "finished" /\ low = 0)
=============================================================================
