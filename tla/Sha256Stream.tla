--------------------------- MODULE Sha256Stream ----------------------------
(***************************************************************************)
(* The SHA-256 of det-num (hash.rs) as a stream: update buffers what does  *)
(* not fill a block, finalize pads.  compress folds one block into the     *)
(* eight words of the state; the state is kept here as what has been       *)
(* compressed so far, which the words are a function of.                   *)
(*                                                                         *)
(* The code has Block = 64, LenBytes = 8, Word = 2^64, Pad = 128.          *)
(***************************************************************************)
EXTENDS Integers, Sequences

CONSTANTS
  Block,      \* bytes of a block
  LenBytes,   \* bytes of the length at its end
  Word, LengthOf,   \* the word of the length, to_be_bytes of a word
  Pad,
  Updates,    \* what update may be called with
  MaxMessage   \* bound of the runs: bytes of a message

ASSUME StreamAssumption ==
  /\ Block \in Nat /\ LenBytes \in Nat \ {0} /\ LenBytes < Block
  /\ Word \in Nat \ {0} /\ LengthOf \in [0 .. Word - 1 -> [1 .. LenBytes -> Nat]]
  /\ Pad \in Nat
  /\ Updates \subseteq Seq(Nat)
  /\ MaxMessage \in Nat

VARIABLES
  compressed,   \* state: the blocks compressed so far, end to end
  len,          \* bytes seen, modulo the word
  buf, bufLen,
  message,      \* history: everything given to update
  done

shaVars == <<compressed, len, buf, bufLen, message, done>>

LenAt == Block - LenBytes
\* The length in bits, with wrapping_mul.
Length(n) == LengthOf[(8 * n) % Word]

\* copy_from_slice into a buffer after its first `at' bytes.
Copied(b, at, s) == [i \in 1 .. Block |-> IF i - at \in 1 .. Len(s) THEN s[i - at] ELSE b[i]]
Zeroed(b, from, to) == [i \in 1 .. Block |-> IF i \in from + 1 .. to THEN 0 ELSE b[i]]

ShaInit ==
  /\ compressed = <<>> /\ len = 0
  /\ buf = [i \in 1 .. Block |-> 0] /\ bufLen = 0
  /\ message = <<>> /\ done = FALSE

-----------------------------------------------------------------------------
\* Mutated form: a block that was begun is left alone.
TopUpNone(input) == 0

\* How much of the input tops up a block that was begun.
TopUp(input) ==
  IF bufLen = 0 THEN 0
  ELSE IF Block - bufLen <= Len(input) THEN Block - bufLen ELSE Len(input)

\* The bytes of the whole blocks in what is left.
Whole(rest) == (Len(rest) \div Block) * Block

Update(input) ==
  LET n == TopUp(input)
      top == Copied(buf, bufLen, SubSeq(input, 1, n))
      full == bufLen + n = Block
      rest == SubSeq(input, n + 1, Len(input))
      tail == SubSeq(rest, Whole(rest) + 1, Len(rest))
  IN  /\ ~done /\ Len(message) + Len(input) <= MaxMessage
      /\ compressed' = compressed \o (IF full THEN top ELSE <<>>) \o SubSeq(rest, 1, Whole(rest))
      /\ buf' = Copied(top, 0, tail)
      /\ bufLen' = IF tail # <<>> THEN Len(tail) ELSE IF full THEN 0 ELSE bufLen + n
      /\ len' = (len + Len(input)) % Word
      /\ message' = message \o input
      /\ UNCHANGED done

\* finalize: the length goes to a block of its own when the padding byte has
\* not left room for it.
Finalize ==
  LET padded == Copied(buf, bufLen, <<Pad>>)
      n == bufLen + 1
      over == n > LenAt
      last == Copied(Zeroed(padded, IF over THEN 0 ELSE n, LenAt), LenAt, Length(len))
  IN  /\ ~done /\ done' = TRUE
      /\ compressed' = compressed \o (IF over THEN Zeroed(padded, n, Block) ELSE <<>>) \o last
      /\ UNCHANGED <<len, buf, bufLen, message>>

ShaNext == (\E input \in Updates : Update(input)) \/ Finalize
ShaSpec == ShaInit /\ [][ShaNext]_shaVars

-----------------------------------------------------------------------------
\* The padding of FIPS 180-4, on the message as a whole.
Padded(s) ==
  s \o <<Pad>> \o [i \in 1 .. (LenAt - Len(s) - 1) % Block |-> 0] \o Length(Len(s))

\* However a message is cut into calls of update (chunks of the model file
\* and of the input are cut by whoever reads them), its digest is that of the
\* padded message, and until finalize every block compressed is one of the
\* message's: a digest never depends on stale bytes of the buffer.
DigestOfMessage ==
  IF done THEN compressed = Padded(message)
  ELSE compressed = SubSeq(message, 1, (Len(message) \div Block) * Block)
=============================================================================
