---------------------------- MODULE Vocabulary -----------------------------
(***************************************************************************)
(* From the tokenizer metadata of a GGUF file to a tokenizer, in det-token *)
(* (lib.rs): which of the three is built, from which tokens, and what it   *)
(* then makes of an input and the decoder makes of that.                   *)
(*                                                                         *)
(* The text of a token is a sequence of character codes; a canonical       *)
(* <0xNN> token is marked, its text is its byte.  Tokens are numbered from *)
(* 1.  A score is a number or NonFinite.  The heap of the BPE loop is left *)
(* to BpeMerge, the merges it makes are those of RankScan.                 *)
(***************************************************************************)
EXTENDS Integers, Sequences, FiniteSets, SequencesExt, FiniteSetsExt, Functions

CONSTANTS
  Bytes,      \* byte values (0 .. 255)
  Files,      \* [tokens, types, merges, model, scores] with None for a key that is absent
  Inputs,     \* what is tokenized
  None, NonFinite

VARIABLES
  file,
  tokenizer,  \* what Tokenizer::from_gguf gives, or None
  source,     \* the bytes that are tokenized
  symbols,
  decoded,
  step

vocabVars == <<file, tokenizer, source, symbols, decoded, step>>

-----------------------------------------------------------------------------
(***************************************************************************)
(* Pieces.                                                                 *)
(***************************************************************************)
Printable == 33 .. 126 \cup 161 .. 172 \cup 174 .. 255

\* gpt2_char_to_byte: the bytes that do not print follow from 256 on.
CharToByte ==
  AntiFunction([b \in 0 .. 255 |->
    IF b \in Printable THEN b ELSE 256 + Cardinality({ c \in 0 .. b - 1 : c \notin Printable })])

\* String::as_bytes: UTF-8, below U+10000.
Utf8(code) ==
  IF code < 128 THEN <<code>>
  ELSE IF code < 2048 THEN <<192 + (code \div 64), 128 + (code % 64)>>
  ELSE <<224 + (code \div 4096), 128 + ((code \div 64) % 64), 128 + (code % 64)>>
AsBytes(text) == FlattenSeq([i \in DOMAIN text |-> Utf8(text[i])])

SpaceMarker == 9601

\* token_piece_bytes.
PieceBytes(token) ==
  CASE token.canonical -> token.text
    [] ~token.canonical /\ \A i \in DOMAIN token.text : token.text[i] \in DOMAIN CharToByte ->
         [i \in DOMAIN token.text |-> CharToByte[token.text[i]]]
    [] OTHER -> IF token.text[1] = SpaceMarker THEN <<32>> \o AsBytes(Tail(token.text))
                                               ELSE AsBytes(token.text)

Piece(t) == PieceBytes(file.tokens[t])
Tokens == DOMAIN file.tokens

\* token_is_emittable: normal, user-defined and byte tokens, and all if nothing is said.
IsEmittable(t) == file.types = None \/ file.types[t] \in {1, 4, 6}
TypesOk ==
  file.types # None => Len(file.types) = Len(file.tokens) /\ \A t \in Tokens : file.types[t] \in 1 .. 6

ScoresOk ==
  file.scores # None => Len(file.scores) = Len(file.tokens) /\ \A t \in Tokens : file.scores[t] # NonFinite

-----------------------------------------------------------------------------
(***************************************************************************)
(* The three tokenizers.  byte_to_token is a function on the bytes that    *)
(* have a token to be emitted for.                                         *)
(***************************************************************************)
Canonical(b) == { t \in Tokens : file.tokens[t].canonical /\ file.tokens[t].text = <<b>> }

\* Exactly one canonical token for every byte, emitted or not.
FallbackOk == \A b \in Bytes : Cardinality(Canonical(b)) = 1
Fallback ==
  LET emitted == { b \in Bytes : \E t \in Canonical(b) : IsEmittable(t) }
  IN  [b \in emitted |-> CHOOSE t \in Canonical(b) : TRUE]

\* from_tokens_merges_and_emit_mask: emitted pieces are unique, and name the
\* tokens of the merges.
BpeTokensOk == \A t, u \in Tokens : IsEmittable(t) /\ IsEmittable(u) /\ Piece(t) = Piece(u) => t = u
WithPiece(bytes) == { t \in Tokens : IsEmittable(t) /\ Piece(t) = bytes }

\* A line of the merges, of any number of parts; its tokens and its result.
LineOk(line) == Len(line) = 2 /\ \A i \in 1 .. 2 : line[i].text # <<>>
\* Mutated form: the result is looked up by its characters.
MergedText(line) == PieceBytes([canonical |-> FALSE, text |-> line[1].text \o line[2].text])
Merged(line) == PieceBytes(line[1]) \o PieceBytes(line[2])
LineTokens(line) ==
  WithPiece(PieceBytes(line[1])) \X WithPiece(PieceBytes(line[2])) \X WithPiece(Merged(line))

Merges == IF file.merges = None THEN <<>> ELSE file.merges
\* A line whose tokens are not all emitted is passed over when there is a mask.
MergesOk ==
  /\ \A i \in DOMAIN Merges : LineOk(Merges[i]) /\ (file.types = None => LineTokens(Merges[i]) # {})
  /\ \A i, j \in DOMAIN Merges : \A r \in LineTokens(Merges[i]), s \in LineTokens(Merges[j]) :
       r[1] = s[1] /\ r[2] = s[2] => i = j

MergeRanks ==
  LET entries == UNION { { <<i, r>> : r \in LineTokens(Merges[i]) } : i \in DOMAIN Merges }
      entry(pair) == CHOOSE e \in entries : <<e[2][1], e[2][2]>> = pair
  IN  [pair \in { <<e[2][1], e[2][2]>> : e \in entries } |-> [rank |-> entry(pair)[1], id |-> entry(pair)[2][3]]]

Bpe ==
  IF BpeTokensOk /\ MergesOk
  THEN [kind |-> "bpe", merge_ranks |-> MergeRanks, pieces |-> <<>>,
        byte_to_token |-> [b \in { c \in Bytes : WithPiece(<<c>>) # {} } |-> CHOOSE t \in WithPiece(<<b>>) : TRUE]]
  ELSE None

\* from_tokens_scores_and_emit_mask: of equal pieces, the one with the best
\* score, and of those the first.
Score(t) == IF file.scores = None THEN 0 ELSE file.scores[t]
LongPieces == { Piece(t) : t \in { u \in Tokens : IsEmittable(u) /\ Len(Piece(u)) > 1 } }
BestPiece(bytes) ==
  CHOOSE t \in WithPiece(bytes) : \A u \in WithPiece(bytes) :
    Score(t) > Score(u) \/ (Score(t) = Score(u) /\ t <= u)
SentencePiece ==
  IF ScoresOk /\ FallbackOk
  THEN [kind |-> "sentencepiece", merge_ranks |-> <<>>, byte_to_token |-> Fallback,
        pieces |-> [bytes \in LongPieces |-> BestPiece(bytes)]]
  ELSE None

ByteFallback ==
  IF FallbackOk
  THEN [kind |-> "bytes", merge_ranks |-> <<>>, byte_to_token |-> Fallback, pieces |-> <<>>] ELSE None

\* Tokenizer::from_gguf: the model decides, or else what else there is.
Built ==
  IF ~TypesOk THEN None
  ELSE CASE file.model = "gpt2" -> Bpe
         [] file.model = "llama" -> SentencePiece
         [] file.model = None /\ Merges # <<>> -> Bpe
         [] file.model = None /\ Merges = <<>> /\ file.scores # None -> SentencePiece
         [] file.model = None /\ Merges = <<>> /\ file.scores = None -> ByteFallback
         [] OTHER -> None

-----------------------------------------------------------------------------
(***************************************************************************)
(* Tokenization of a run of bytes that have tokens of their own.           *)
(***************************************************************************)
HasByteToken(b) == b \in DOMAIN tokenizer.byte_to_token
ByteIds(bytes) == [i \in DOMAIN bytes |-> tokenizer.byte_to_token[bytes[i]]]

\* The merges of RankScan, on a sequence.
MergeAll(ids) ==
  LET ranks == tokenizer.merge_ranks
      after[s \in Seq(Tokens)] ==
        LET open == { i \in 1 .. Len(s) - 1 : <<s[i], s[i + 1]>> \in DOMAIN ranks }
            rank(i) == ranks[<<s[i], s[i + 1]>>].rank
            first == CHOOSE i \in open : \A j \in open : rank(i) < rank(j) \/ (rank(i) = rank(j) /\ i <= j)
        IN  IF open = {} THEN s
            ELSE after[SubSeq(s, 1, first - 1) \o <<ranks[<<s[first], s[first + 1]>>].id>>
                       \o SubSeq(s, first + 2, Len(s))]
  IN  after[ids]

\* SentencePieceTokenizer::tokenize_bytes: the longest piece at every place.
LongestMatches(bytes) ==
  LET from[pos \in 1 .. Len(bytes) + 1] ==
        LET fits == { e \in pos + 1 .. Len(bytes) : SubSeq(bytes, pos, e) \in DOMAIN tokenizer.pieces }
        IN  IF pos > Len(bytes) THEN <<>>
            ELSE IF fits = {} THEN <<tokenizer.byte_to_token[bytes[pos]]>> \o from[pos + 1]
            ELSE <<tokenizer.pieces[SubSeq(bytes, pos, Max(fits))]>> \o from[Max(fits) + 1]
  IN  from[1]

TokenizeBytes(bytes) ==
  CASE tokenizer.kind = "bytes" -> ByteIds(bytes)
    [] tokenizer.kind = "bpe" -> MergeAll(ByteIds(bytes))
    [] tokenizer.kind = "sentencepiece" -> LongestMatches(bytes)

\* codec_symbol_stream: bytes without a token are escaped, the runs between tokenized.
Escape(b) == [escape |-> TRUE, value |-> b]
Token(t) == [escape |-> FALSE, value |-> t]
CodecSymbols(bytes) ==
  LET n == Len(bytes)
      tokens(a, b) == LET ids == TokenizeBytes(SubSeq(bytes, a, b)) IN [i \in DOMAIN ids |-> Token(ids[i])]
      from[pos \in 1 .. n + 1] ==
        IF pos > n THEN <<>>
        ELSE IF ~HasByteToken(bytes[pos]) THEN <<Escape(bytes[pos])>> \o from[pos + 1]
        ELSE LET end == Min({ e \in pos .. n : e = n \/ ~HasByteToken(bytes[e + 1]) })
             IN  tokens(pos, end) \o from[end + 1]
  IN  from[1]

\* decode_codec_symbol.
SymbolBytes(s) == IF s.escape THEN <<s.value>> ELSE Piece(s.value)

-----------------------------------------------------------------------------
VocabInit == file \in Files /\ tokenizer = None /\ source = <<>> /\ symbols = <<>> /\ decoded = <<>> /\ step = "load"

Load ==
  /\ step = "load" /\ tokenizer' = Built
  /\ step' = IF tokenizer' = None THEN "refused" ELSE "ready"
  /\ UNCHANGED <<file, source, symbols, decoded>>

Encode ==
  /\ step = "ready" /\ step' = "decode"
  /\ source' \in Inputs /\ symbols' = CodecSymbols(source')
  /\ UNCHANGED <<file, tokenizer, decoded>>

\* The symbols are decoded one by one, as they come out of the range decoder.
Decode ==
  /\ step = "decode" /\ symbols # <<>>
  /\ decoded' = decoded \o SymbolBytes(symbols[1]) /\ symbols' = Tail(symbols)
  /\ UNCHANGED <<file, tokenizer, source, step>>

VocabNext == Load \/ Encode \/ Decode
VocabSpec == VocabInit /\ [][VocabNext]_vocabVars

-----------------------------------------------------------------------------
\* byte_coverage_from_tokens: the bytes that some emitted token is the piece of.
MissingEmittable == { b \in Bytes : WithPiece(<<b>>) = {} }

\* Whatever the metadata let through: what is still to be decoded gives back
\* the rest of the input; only emitted tokens are produced, and a byte is
\* escaped if the coverage report misses it, for BPE only then; the merge
\* table satisfies what BpeMerge assumes, with a result spelled as its parts.
TokenizerIsSound ==
  /\ step = "decode" =>
       /\ decoded \o FlattenSeq([i \in DOMAIN symbols |-> SymbolBytes(symbols[i])]) = source
       /\ \A i \in DOMAIN symbols : ~symbols[i].escape => IsEmittable(symbols[i].value)
       /\ LET escaped == { symbols[i].value : i \in { j \in DOMAIN symbols : symbols[j].escape } }
              missing == MissingEmittable \cap ToSet(SubSeq(source, Len(decoded) + 1, Len(source)))
          IN  missing \subseteq escaped /\ (tokenizer.kind = "bpe" => escaped = missing)
  /\ step \in {"ready", "decode"} =>
       LET ranks == tokenizer.merge_ranks
       IN  \A p, q \in DOMAIN ranks :
             /\ ranks[p].rank = ranks[q].rank => p = q
             /\ Piece(ranks[p].id) = Piece(p[1]) \o Piece(p[2])
=============================================================================
