---------------------------- MODULE TokenStream -----------------------------
(***************************************************************************)
(* det-coder/src/stream.rs: a sequence of tokens is coded with one         *)
(* frequency table per token (encode_token_stream), the payload goes       *)
(* through storage that may damage it, and decode_token_stream decodes it, *)
(* encodes what it decoded once more and accepts the payload only if it is *)
(* the canonical encoding.  RangeEncoder and RangeDecoder do the coding.   *)
(*                                                                         *)
(* One encoder serves both encodings: the second starts from a new one.    *)
(***************************************************************************)
EXTENDS Storage, Cdf

CONSTANTS
  Tables,      \* the frequency tables a token may be coded with
  MaxTokens,   \* bound: tokens in a stream
  MaxOut       \* bound: digits of a payload

VARIABLES
  \* the encoder and the decoder
  elow, erange, eout, epc, eleft, ecount,
  dlow, drange, dcode, dpending, dinput, dpos, dleft, dpc,
  \* the stream
  phase,       \* "encode", "decode", "reencode", "done"
  cdfs,        \* the table of each token, known to both sides
  tokens,      \* the tokens that were encoded
  sent,        \* the payload encode_token_stream returned
  out,         \* the tokens decoded so far
  verdict      \* "none", or the result of decode_token_stream

encVars == <<elow, erange, eout, epc, eleft, ecount>>
decVars == <<dlow, drange, dcode, dpending, dinput, dpos, dleft, dpc>>
vars == <<encVars, decVars, phase, cdfs, tokens, sent, out, verdict>>

Enc == INSTANCE RangeEncoder WITH
  MaxSymbols <- MaxTokens, MaxOut <- MaxOut,
  low <- elow, range <- erange, out <- eout, pc <- epc, left <- eleft,
  count <- ecount

Dec == INSTANCE RangeDecoder WITH
  Payloads <- {<<>>},
  low <- dlow, range <- drange, code <- dcode, pending <- dpending,
  input <- dinput, pos <- dpos, left <- dleft, pc <- dpc

\* What the coder asks of its sizes; and encode_token_stream and
\* decode_token_stream validate every table before they use it.
ASSUME TokenStreamAssumption ==
  /\ Enc!RangeCoderAssumption
  /\ MaxTokens \in Nat /\ MaxOut \in Nat
  /\ \A table \in Tables :
       /\ table.freq \in Seq(Nat) /\ table.cum \in Seq(Nat) /\ table.total \in Nat
       /\ ValidTable(table)

Init ==
  /\ Enc!Init
  /\ Dec!Open(<<>>)
  /\ phase = "encode"
  /\ cdfs = <<>> /\ tokens = <<>> /\ sent = <<>> /\ out = <<>>
  /\ verdict = "none"

-----------------------------------------------------------------------------
(***************************************************************************)
(* encode_token_stream.  The streams explored are those of any length up   *)
(* to MaxTokens, over any tables: each step picks the next of both.        *)
(***************************************************************************)
EncodeToken(table, token) ==
  /\ phase = "encode"
  /\ LET iv == IntervalOf(table, token)
     IN Enc!Encode(iv.cum, iv.freq, iv.total)
  /\ cdfs' = Append(cdfs, table)
  /\ tokens' = Append(tokens, token)
  /\ UNCHANGED <<decVars, phase, sent, out, verdict>>

\* The loops of the coder's calls, during either encoding.
EncoderRuns ==
  /\ phase \in {"encode", "reencode"}
  /\ \/ Enc!Renorm
     \/ Enc!RenormDone
     \/ Enc!FinishDigit
     \/ Enc!FinishDone
  /\ UNCHANGED <<decVars, phase, cdfs, tokens, sent, out, verdict>>

FinishStream ==
  /\ phase = "encode"
  /\ Enc!Finish
  /\ UNCHANGED <<decVars, phase, cdfs, tokens, sent, out, verdict>>

\* The payload goes through storage to a decoder.
Deliver ==
  /\ phase = "encode"
  /\ epc = "finished"
  /\ sent' = eout
  /\ \E bytes \in Delivered(eout) : Dec!Reopen(bytes)
  /\ phase' = "decode"
  /\ UNCHANGED <<encVars, cdfs, tokens, out, verdict>>

-----------------------------------------------------------------------------
(***************************************************************************)
(* decode_token_stream                                                     *)
(***************************************************************************)
Give(v) ==
  /\ phase' = "done"
  /\ verdict' = v

NextTable == cdfs[Len(out) + 1]

DecoderRuns ==
  /\ phase = "decode"
  /\ Dec!OpenDigit \/ Dec!OpenDone \/ Dec!DecoderRenorm \/ Dec!DecoderRenormDone
  /\ UNCHANGED <<encVars, phase, cdfs, tokens, sent, out, verdict>>

DecoderEof ==
  /\ phase = "decode"
  /\ Dec!Eof
  /\ Give("UnexpectedEof")
  /\ UNCHANGED <<encVars, cdfs, tokens, sent, out>>

DecodeValue ==
  /\ phase = "decode"
  /\ dpc = "ready"
  /\ dpending = <<>>
  /\ Len(out) < Len(cdfs)
  /\ IF Dec!CanDecode(NextTable.total)
     THEN /\ Dec!DecodeFreq(NextTable.total)
          /\ UNCHANGED <<phase, verdict>>
     ELSE /\ Give("InvalidFrequency")
          /\ UNCHANGED decVars
  /\ UNCHANGED <<encVars, cdfs, tokens, sent, out>>

DecodeSymbol ==
  /\ phase = "decode"
  /\ dpc = "ready"
  /\ dpending # <<>>
  /\ LET token == SymbolFor(NextTable, Dec!FreqValue(NextTable.total))
         iv    == IntervalOf(NextTable, token)
     IN /\ Dec!Advance(iv.cum, iv.freq, iv.total)
        /\ out' = Append(out, token)
  /\ UNCHANGED <<encVars, phase, cdfs, tokens, sent, verdict>>

ReencodeEarly ==   \* mutated form: the loop of the last advance is not waited for
  /\ phase = "decode"
  /\ dpc \in {"ready", "renorm"}
  /\ Len(out) = Len(cdfs)
  /\ Enc!Restart
  /\ phase' = "reencode"
  /\ UNCHANGED <<decVars, cdfs, tokens, sent, out, verdict>>

\* Every token is decoded: encode_token_stream(cdfs, out) starts.
Reencode ==
  /\ phase = "decode"
  /\ dpc = "ready"
  /\ Len(out) = Len(cdfs)
  /\ Enc!Restart
  /\ phase' = "reencode"
  /\ UNCHANGED <<decVars, cdfs, tokens, sent, out, verdict>>

ReencodeToken ==
  /\ phase = "reencode"
  /\ ecount < Len(out)
  /\ LET iv == IntervalOf(cdfs[ecount + 1], out[ecount + 1])
     IN Enc!Encode(iv.cum, iv.freq, iv.total)
  /\ UNCHANGED <<decVars, phase, cdfs, tokens, sent, out, verdict>>

ReencodeFinish ==
  /\ phase = "reencode"
  /\ ecount = Len(out)
  /\ Enc!Finish
  /\ UNCHANGED <<decVars, phase, cdfs, tokens, sent, out, verdict>>

CompareConsumed ==   \* mutated form: only the digits the decoder read are compared
  /\ phase = "reencode"
  /\ epc = "finished"
  /\ Give(IF eout = SubSeq(dinput, 1, dpos) THEN "Ok" ELSE "NonCanonicalPayload")
  /\ UNCHANGED <<encVars, decVars, cdfs, tokens, sent, out>>

Compare ==
  /\ phase = "reencode"
  /\ epc = "finished"
  /\ Give(IF eout = dinput THEN "Ok" ELSE "NonCanonicalPayload")
  /\ UNCHANGED <<encVars, decVars, cdfs, tokens, sent, out>>

Next ==
  \/ \E table \in Tables : \E token \in DOMAIN table.freq : EncodeToken(table, token)
  \/ EncoderRuns
  \/ FinishStream
  \/ Deliver
  \/ DecoderRuns
  \/ DecoderEof
  \/ DecodeValue
  \/ DecodeSymbol
  \/ Reencode
  \/ ReencodeToken
  \/ ReencodeFinish
  \/ Compare

Spec == Init /\ [][Next]_vars

-----------------------------------------------------------------------------
IsPrefixOf(s, t) == Len(s) <= Len(t) /\ s = SubSeq(t, 1, Len(s))

(***************************************************************************)
(* What decode_token_stream gets right on the payload that was sent: each  *)
(* token as it decodes it, no error on the way, and acceptance at the end. *)
(***************************************************************************)
RoundTrip ==
  phase # "encode" /\ dinput = sent =>
    /\ IsPrefixOf(out, tokens)
    /\ phase = "done" => verdict = "Ok" /\ out = tokens

(***************************************************************************)
(* The decoder reads every digit of a payload before it returns its last   *)
(* token: a payload cut anywhere ends in UnexpectedEof, never in tokens.   *)
(***************************************************************************)
TruncationSeen ==
  phase = "done" /\ dinput \in Truncated(sent) => verdict = "UnexpectedEof"

(***************************************************************************)
(* A sequence of tokens has one accepted payload: a payload that decodes   *)
(* to the tokens that were sent but is not the one sent is refused.        *)
(***************************************************************************)
OnePayloadPerStream ==
  verdict = "Ok" /\ out = tokens => dinput = sent
=============================================================================
