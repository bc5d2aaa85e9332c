-------------------------------- MODULE Dtlz --------------------------------
(***************************************************************************)
(* compress and decompress of det-cli/src/main.rs and the DTLZ file        *)
(* between them, composed of the codec symbols, the window over the        *)
(* context, the frequency tables and the range coder.  compress codes the  *)
(* symbols of the input, each under the model's table for the window;      *)
(* decompress has no count of symbols to go by, stops when it has restored *)
(* orig_len bytes, encodes what it decoded once more and compares.         *)
(*                                                                         *)
(* The table of a symbol is a function of the model and the window, which  *)
(* WindowedState shows of the incremental state.  A file of an older       *)
(* release has no byte escapes; decompress tells it by its flag.           *)
(***************************************************************************)
EXTENDS Storage, Cdf, Codec

CONSTANTS
  Inputs,           \* the byte sequences that are compressed
  Models,           \* GGUF files
  Weights(_, _),    \* a model's frequencies for a window that is not empty
  ContextLength,    \* model.config.context_length
  NCtxArgs,         \* the values of --n-ctx that are tried
  Faults,           \* what may happen to a file: subset of FaultKinds
  MaxSymbols,       \* bound: symbols of a stream
  MaxOut            \* bound: digits of a payload

FaultKinds == {"payload", "window", "flags", "shrunk", "inflated"}

VARIABLES
  \* the encoder and the decoder
  elow, erange, eout, epc, eleft, ecount,
  dlow, drange, dcode, dpending, dinput, dpos, dleft, dpc,
  \* the commands
  phase,     \* "compress", "stored", "decompress", "reencode", "done"
  input,     \* the bytes that are compressed
  symbols,   \* their codec symbols
  header,    \* the header that is being written, then the one that was read
  written,   \* the file as it was written: [header, payload]
  file,      \* the file as decompress finds it
  context,   \* context_tokens of decode_bytes_with_model
  decoded,   \* its symbols
  bytes,     \* its bytes
  verdict    \* "none", or how decompress ended: "ok", "error"

encVars  == <<elow, erange, eout, epc, eleft, ecount>>
decVars  == <<dlow, drange, dcode, dpending, dinput, dpos, dleft, dpc>>
files    == <<input, symbols, header, written, file>>
restored == <<context, decoded, bytes>>
progress == <<phase, verdict>>
vars     == <<encVars, decVars, files, restored, progress>>

Enc == INSTANCE RangeEncoder WITH
  low <- elow, range <- erange, out <- eout, pc <- epc, left <- eleft,
  count <- ecount

Dec == INSTANCE RangeDecoder WITH
  Payloads <- {<<>>},
  low <- dlow, range <- drange, code <- dcode, pending <- dpending,
  input <- dinput, pos <- dpos, left <- dleft, pc <- dpc

Window(n_ctx, overlap) ==
  INSTANCE ContextWindow WITH NCtx <- n_ctx, Overlap <- overlap

NoFile == [header |-> <<>>, payload |-> <<>>]

-----------------------------------------------------------------------------
\* validate_window, which comes after the header's own validate.
ValidWindow(n_ctx, overlap) ==
  n_ctx > 0 /\ n_ctx <= ContextLength /\ overlap < n_ctx

(***************************************************************************)
(* The frequency table for a window: uniform when it is empty; the escapes *)
(* of the alphabet, if any, follow the vocabulary with frequency 1.        *)
(***************************************************************************)
Windows == UNION { [1 .. n -> Tokens] : n \in 0 .. ContextLength }

TableFor(model, escapes, window) ==
  TableOf((IF window = <<>> THEN [t \in Tokens |-> 1] ELSE Weights(model, window))
          \o [b \in 1 .. (IF escapes THEN NumBytes ELSE 0) |-> 1])

Tables == [k \in Models \X BOOLEAN \X Windows |-> TableFor(k[1], k[2], k[3])]

\* What the coder asks of its sizes; and a table is validated before anything is
\* coded with it, so a model has valid ones.
ASSUME DtlzAssumption ==
  /\ Inputs \subseteq Seq(Bytes)
  /\ ContextLength \in Nat \ {0} /\ NCtxArgs \subseteq Nat
  /\ Faults \subseteq FaultKinds
  /\ Enc!RangeCoderAssumption
  /\ MaxSymbols \in Nat /\ MaxOut \in Nat
  /\ \A model \in Models, window \in Windows :
       window # <<>> => Weights(model, window) \in [Tokens -> Nat]
  /\ \A k \in DOMAIN Tables : ValidTable(Tables[k])

TableAfter(tokens) ==
  Tables[<<header.model, header.escapes,
           Window(header.n_ctx, header.overlap)!WindowOf(tokens)>>]

(***************************************************************************)
(* compress, up to the encoding: the input, the model and the window.      *)
(***************************************************************************)
Init ==
  /\ input \in Inputs
  /\ \E model \in Models, n_ctx \in NCtxArgs \cup {ContextLength},
        escapes \in BOOLEAN :
       /\ ValidWindow(n_ctx, n_ctx \div 4)
       /\ symbols = CodecSymbols(input)
       /\ escapes \/ \A i \in DOMAIN symbols : IsToken(symbols[i])
       /\ header = [model |-> model, escapes |-> escapes, n_ctx |-> n_ctx,
                    overlap |-> n_ctx \div 4, orig_len |-> Len(input)]
  /\ phase = "compress"
  /\ Enc!Init
  /\ Dec!Open(<<>>)
  /\ written = NoFile /\ file = NoFile
  /\ context = <<>> /\ decoded = <<>> /\ bytes = <<>>
  /\ verdict = "none"

-----------------------------------------------------------------------------
(***************************************************************************)
(* encode_symbols_with_model, over the symbols of the input and later over *)
(* the decoded ones.  An escape does not enter the context.                *)
(***************************************************************************)
TokensBefore(source, n) ==
  LET tokens[i \in 0 .. n] ==
        IF i = 0 THEN <<>>
        ELSE IF IsToken(source[i]) THEN Append(tokens[i - 1], source[i])
        ELSE tokens[i - 1]
  IN  tokens[n]

Source == IF phase = "compress" THEN symbols ELSE decoded

EncodeSymbol ==
  /\ phase \in {"compress", "reencode"}
  /\ ecount < Len(Source)
  /\ \E iv \in {IntervalOf(TableAfter(TokensBefore(Source, ecount)), Source[ecount + 1])} :
       Enc!Encode(iv.cum, iv.freq, iv.total)
  /\ UNCHANGED <<decVars, files, restored, progress>>

FinishPayload ==
  /\ phase \in {"compress", "reencode"}
  /\ ecount = Len(Source)
  /\ Enc!Finish
  /\ UNCHANGED <<decVars, files, restored, progress>>

\* The loops of the coder's calls.
EncoderRuns ==
  /\ phase \in {"compress", "reencode"}
  /\ Enc!Renorm \/ Enc!RenormDone \/ Enc!FinishDigit \/ Enc!FinishDone
  /\ UNCHANGED <<decVars, files, restored, progress>>

Store ==
  /\ phase = "compress"
  /\ epc = "finished"
  /\ phase' = "stored"
  /\ written' = [header |-> header, payload |-> eout]
  /\ file' = written'
  /\ UNCHANGED <<encVars, decVars, restored, input, symbols, header, verdict>>

(***************************************************************************)
(* The file is damaged in one place.                                       *)
(***************************************************************************)
Damaged(kind, f) ==
  CASE kind = "payload"  -> { [f EXCEPT !.payload = p] : p \in Delivered(f.payload) \ {f.payload} }
    [] kind = "window"   -> { [f EXCEPT !.header.n_ctx = n, !.header.overlap = o] :
                              n \in 0 .. ContextLength + 1, o \in {f.header.overlap, ContextLength} }
    [] kind = "flags"    -> { [f EXCEPT !.header.escapes = ~@] }
    [] kind = "shrunk"   -> { [f EXCEPT !.header.orig_len = n] : n \in 0 .. f.header.orig_len - 1 }
    [] kind = "inflated" -> { [f EXCEPT !.header.orig_len = @ + 1] }

Damage ==
  /\ phase = "stored"
  /\ file = written
  /\ \E kind \in Faults : file' \in Damaged(kind, file)
  /\ UNCHANGED <<encVars, decVars, restored, progress, input, symbols, header, written>>

-----------------------------------------------------------------------------
(***************************************************************************)
(* decompress.  The header is read and checked against the model given.    *)
(***************************************************************************)
Give(v) ==
  /\ phase' = "done"
  /\ verdict' = v

Open(model) ==
  /\ phase = "stored"
  /\ header' = file.header
  /\ IF model = header'.model /\ ValidWindow(header'.n_ctx, header'.overlap)
     THEN /\ phase' = "decompress"
          /\ Dec!Reopen(file.payload)
          /\ UNCHANGED verdict
     ELSE Give("error") /\ UNCHANGED decVars
  /\ UNCHANGED <<encVars, restored, input, symbols, written, file>>

DecoderRuns ==
  /\ phase = "decompress"
  /\ Dec!OpenDigit \/ Dec!OpenDone \/ Dec!DecoderRenorm \/ Dec!DecoderRenormDone
  /\ UNCHANGED <<encVars, files, restored, progress>>

DecoderEof ==
  /\ phase = "decompress"
  /\ Dec!Eof
  /\ Give("error")
  /\ UNCHANGED <<encVars, files, restored>>

Restored == Len(bytes) >= header.orig_len

DecodeValue ==
  /\ phase = "decompress"
  /\ dpc = "ready" /\ dpending = <<>>
  /\ ~Restored
  /\ LET total == TableAfter(context).total
     IN  IF Dec!CanDecode(total)
         THEN Dec!DecodeFreq(total) /\ UNCHANGED progress
         ELSE Give("error") /\ UNCHANGED decVars
  /\ UNCHANGED <<encVars, files, restored>>

DecodedSymbol == SymbolFor(TableAfter(context), Dec!FreqValue(dpending[2]))

\* A symbol without bytes is an error; an escape does not enter the context.
DecodeSymbolFallback ==   \* mutated form: it does, as its byte's token
  /\ phase = "decompress"
  /\ dpc = "ready" /\ dpending # <<>>
  /\ \E symbol \in {DecodedSymbol} :
       /\ \E iv \in {IntervalOf(TableAfter(context), symbol)} :
            Dec!Advance(iv.cum, iv.freq, iv.total)
       /\ IF PieceOf(symbol) = <<>>
          THEN Give("error") /\ UNCHANGED restored
          ELSE /\ decoded' = Append(decoded, symbol)
               /\ bytes' = bytes \o PieceOf(symbol)
               /\ context' = Append(context, IF IsToken(symbol) THEN symbol ELSE ByteToken[symbol - VocabLen])
               /\ UNCHANGED progress
  /\ UNCHANGED <<encVars, files>>

DecodeSymbol ==
  /\ phase = "decompress"
  /\ dpc = "ready" /\ dpending # <<>>
  /\ \E symbol \in {DecodedSymbol} :
       /\ \E iv \in {IntervalOf(TableAfter(context), symbol)} :
            Dec!Advance(iv.cum, iv.freq, iv.total)
       /\ IF PieceOf(symbol) = <<>>
          THEN Give("error") /\ UNCHANGED restored
          ELSE /\ decoded' = Append(decoded, symbol)
               /\ bytes' = bytes \o PieceOf(symbol)
               /\ context' = IF IsToken(symbol) THEN Append(context, symbol) ELSE context
               /\ UNCHANGED progress
  /\ UNCHANGED <<encVars, files>>

Reencode ==
  /\ phase = "decompress"
  /\ dpc = "ready" /\ dpending = <<>>
  /\ Restored
  /\ phase' = "reencode"
  /\ Enc!Restart
  /\ UNCHANGED <<decVars, files, restored, verdict>>

OutputWhole == bytes   \* mutated form: not cut at the end of the last piece

\* The bytes that decompress writes.
Output == SubSeq(bytes, 1, header.orig_len)

\* The payload must be the canonical one; the output is written only then.
Compare ==
  /\ phase = "reencode"
  /\ epc = "finished"
  /\ Give(IF eout = file.payload THEN "ok" ELSE "error")
  /\ UNCHANGED <<encVars, decVars, files, restored>>

Next ==
  \/ EncodeSymbol \/ FinishPayload \/ EncoderRuns
  \/ Store \/ Damage
  \/ \E model \in Models : Open(model)
  \/ DecoderRuns \/ DecoderEof
  \/ DecodeValue \/ DecodeSymbol
  \/ Reencode \/ Compare

Spec == Init /\ [][Next]_vars

-----------------------------------------------------------------------------
IsPrefixOf(s, t) == Len(s) <= Len(t) /\ s = SubSeq(t, 1, Len(s))

(***************************************************************************)
(* The promise of the program: the file compress wrote, decompressed with  *)
(* the same model, restores the input, symbol by symbol as it decodes, and *)
(* stops at its end although the file holds no count of symbols.           *)
(***************************************************************************)
RoundTrip ==
  file = written /\ dinput = file.payload =>
    /\ IsPrefixOf(decoded, symbols)
    /\ phase \in {"reencode", "done"} =>
         verdict # "error" /\ decoded = symbols /\ Output = input

(***************************************************************************)
(* orig_len is authoritative: a file in which only that is wrong, and too  *)
(* small, gives that many bytes of the input, wherever in the piece of a   *)
(* token that is, or an error; never bytes the input does not start with.  *)
(***************************************************************************)
OrigLenIsAuthoritative ==
  LET n == header.orig_len
  IN  verdict = "ok" /\ n <= written.header.orig_len
        /\ file = [written EXCEPT !.header.orig_len = n]
      => Output = SubSeq(input, 1, n)

(***************************************************************************)
(* Under the header it was written with, the input's stream of symbols has *)
(* one accepted payload.                                                   *)
(***************************************************************************)
OnePayloadPerStream ==
  verdict = "ok" /\ file.header = written.header /\ decoded = symbols =>
    file.payload = written.payload

(***************************************************************************)
(* What decompress accepts of a file that was damaged after compress wrote *)
(* it: a shorter length gives less of the input, another payload nothing.  *)
(***************************************************************************)
DamageIsSeen == OrigLenIsAuthoritative /\ OnePayloadPerStream

(***************************************************************************)
(* docs/validation.md: "A corrupted file with an inflated orig_len is      *)
(* expected to fail without writing the restored output path".             *)
(***************************************************************************)
InflatedLengthFails ==
  verdict = "ok" => file.header.orig_len <= written.header.orig_len
=============================================================================
