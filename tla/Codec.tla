------------------------------- MODULE Codec --------------------------------
(***************************************************************************)
(* From bytes to codec symbols and back, in det-token/src/lib.rs:          *)
(* codec_symbol_stream with the longest-match tokenizer                    *)
(* (SentencePieceTokenizer), and decode_codec_symbol.                      *)
(*                                                                         *)
(* Bytes and symbols are numbered from 1.  A symbol up to VocabLen is a    *)
(* token of the model; the one VocabLen above byte b is the escape of b.   *)
(* Of longer tokens with equal pieces the code keeps the one with the best *)
(* score; here the longer pieces of emittable tokens are told apart.       *)
(***************************************************************************)
EXTENDS Integers, Sequences

LOCAL INSTANCE SequencesExt

CONSTANTS
  NumBytes,   \* byte values (256)
  Pieces,     \* the bytes of every token
  ByteToken,  \* the byte-fallback token of every byte
  Emits       \* the tokens the emit mask lets the tokenizer produce

VocabLen == Len(Pieces)
Bytes    == 1 .. NumBytes
Tokens   == 1 .. VocabLen
Symbols  == 1 .. VocabLen + NumBytes

\* There is a fallback token for every byte, emitted or not.
ASSUME CodecAssumption ==
  /\ NumBytes \in Nat
  /\ Pieces \in Seq(Seq(Bytes)) /\ Emits \subseteq Tokens
  /\ ByteToken \in [Bytes -> Tokens] /\ \A b \in Bytes : Pieces[ByteToken[b]] = <<b>>
  /\ \A t, u \in Emits : Len(Pieces[t]) > 1 /\ Pieces[t] = Pieces[u] => t = u

-----------------------------------------------------------------------------
IsToken(symbol) == symbol <= VocabLen

Escape(b) == VocabLen + b

\* decode_codec_symbol, and the bytes of a sequence of symbols.
PieceOf(symbol) ==
  IF IsToken(symbol) THEN Pieces[symbol] ELSE <<symbol - VocabLen>>

BytesOf(symbols) == FlattenSeq([i \in 1 .. Len(symbols) |-> PieceOf(symbols[i])])

HasSingleByteToken(b) == ByteToken[b] \in Emits

(***************************************************************************)
(* The symbol at a position of the input: a byte whose fallback token is   *)
(* not emitted is escaped; otherwise the longest piece is taken that       *)
(* matches there and does not reach past such a byte, or, if none does,    *)
(* the byte's fallback token.  Other tokens of one byte are never used.    *)
(***************************************************************************)
Fits(input, pos, t) ==
  LET last == pos + Len(Pieces[t]) - 1
  IN  /\ Len(Pieces[t]) > 1 /\ last <= Len(input)
      /\ SubSeq(input, pos, last) = Pieces[t]
      /\ \A i \in pos .. last : HasSingleByteToken(input[i])

LongestAt(input, pos) ==
  CHOOSE t \in {u \in Emits : Fits(input, pos, u)} :
    \A u \in Emits : Fits(input, pos, u) => Len(Pieces[u]) <= Len(Pieces[t])

SymbolAt(input, pos) ==
  IF ~HasSingleByteToken(input[pos]) THEN Escape(input[pos])
  ELSE IF \E t \in Emits : Fits(input, pos, t) THEN LongestAt(input, pos)
  ELSE ByteToken[input[pos]]

CodecSymbols(input) ==
  LET from[pos \in 1 .. Len(input) + 1] ==
        IF pos > Len(input) THEN <<>>
        ELSE LET symbol == SymbolAt(input, pos)
             IN  <<symbol>> \o from[pos + Len(PieceOf(symbol))]
  IN  from[1]
=============================================================================
