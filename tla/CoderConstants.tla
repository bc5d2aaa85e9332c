--------------------------- MODULE CoderConstants ---------------------------
(***************************************************************************)
(* The sizes of the range coder, which the streams and files it codes are  *)
(* made with.  The code of det-coder/src/range.rs is the instance          *)
(*    Base = 256, Bottom = 2^48, Digits = 8, MaxTotal = 2^31               *)
(* and TLC explores small ones.                                            *)
(***************************************************************************)
EXTENDS Integers, Sequences

CONSTANTS
  Base,      \* values of one digit of a payload (256: a byte)
  Bottom,    \* BOTTOM, the range below which the interval is cut (2^48)
  Digits,    \* digits of a word, emitted by finish, read by new (8)
  MaxTotal   \* totals are below this (2^31)

Digit == 0 .. Base - 1
=============================================================================
