--------------------------- MODULE ContextWindow ----------------------------
(***************************************************************************)
(* Which tokens a symbol is coded with: the window of the token sequence   *)
(* that next_window_start, in det-cli/src/main.rs and xtask/src/main.rs,   *)
(* slides over it.                                                         *)
(***************************************************************************)
EXTENDS Integers, Sequences

CONSTANTS
  NCtx,      \* n_ctx, the most tokens the model sees at once
  Overlap    \* tokens kept when the window slides

\* What validate_window lets through.
ASSUME WindowAssumption ==
  /\ NCtx \in Nat /\ NCtx > 0
  /\ Overlap \in Nat /\ Overlap < NCtx

\* Mutated form: the window slides by Overlap.
NextWindowStartBy(pos, start) ==
  IF pos - start >= NCtx THEN start + Overlap ELSE start

NextWindowStart(pos, start) ==
  IF pos - start >= NCtx THEN pos - Overlap ELSE start

(***************************************************************************)
(* The start of the window at a position, without the history of how the   *)
(* window got there: the window first slides at position NCtx, and then    *)
(* every Stride positions, by Stride.                                      *)
(***************************************************************************)
Stride == NCtx - Overlap

StartAt(pos) ==
  IF pos < NCtx THEN 0 ELSE ((pos - NCtx) \div Stride + 1) * Stride

WindowOf(tokens) == SubSeq(tokens, StartAt(Len(tokens)) + 1, Len(tokens))
=============================================================================
