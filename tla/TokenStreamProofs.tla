------------------------- MODULE TokenStreamProofs --------------------------
(***************************************************************************)
(* The codec of a token stream, for every base and word, every set of      *)
(* valid tables, every number of tokens and whatever the storage delivers: *)
(* the payload that was sent decodes to the tokens that were encoded, a    *)
(* shorter one never does, and no other one does either.                   *)
(*                                                                         *)
(* The argument follows the digits.  Encoder and decoder walk the same     *)
(* trace of turns, the decoder Digits digits ahead, and the last lemmas of *)
(* RangeCoderProofs say that the payload lies in the interval of every     *)
(* turn, so the value the decoder finds is the symbol's.                   *)
(***************************************************************************)
EXTENDS TokenStream, NumberLemmas, SequenceTheorems

(***************************************************************************)
(* The tables: the running sums of Starts, and that the search over them   *)
(* finds one symbol.                                                       *)
(***************************************************************************)
LEMMA StartsGrow ==
  ASSUME NEW freq \in Seq(Nat)
  PROVE  /\ \A i \in 1 .. Len(freq) + 1 : Starts(freq)[i] \in Nat
         /\ Starts(freq)[1] = 0
         /\ \A i \in 1 .. Len(freq) : Starts(freq)[i + 1] = Starts(freq)[i] + freq[i]
  <1>1. Starts(freq) = RunningTotal(freq)
    BY DEF Starts, RunningTotal
  <1>2. QED
    BY <1>1, TotalsGrow

\* The starts do not decrease.
LEMMA StartsOrdered ==
  ASSUME NEW freq \in Seq(Nat), NEW i \in 1 .. Len(freq) + 1, NEW j \in i .. Len(freq) + 1
  PROVE  Starts(freq)[i] <= Starts(freq)[j]
  <1>1. Starts(freq) = RunningTotal(freq)
    BY DEF Starts, RunningTotal
  <1>2. QED
    BY <1>1, TotalsOrdered

\* A table that stream.rs validates before it codes with it.
IsTable(table) ==
  /\ table.freq \in Seq(Nat) /\ table.cum \in Seq(Nat) /\ table.total \in Nat
  /\ ValidTable(table)

HoldsValue(table, s, v) ==
  /\ s \in DOMAIN table.freq
  /\ table.cum[s] <= v /\ v < table.cum[s] + table.freq[s]

(***************************************************************************)
(* The symbol found for a value is the one whose interval holds it.        *)
(***************************************************************************)
LEMMA SymbolOfValue ==
  ASSUME NEW table, IsTable(table), NEW s, NEW v \in Nat, HoldsValue(table, s, v)
  PROVE  SymbolFor(table, v) = s
  <1>1. PICK freq \in Seq(Nat) : freq = table.freq
    BY DEF IsTable
  <1>2. PICK cum : cum = table.cum
    OBVIOUS
  <1>3. PICK S : S = Starts(freq)
    OBVIOUS
  <1>4. PICK N \in Nat : N = Len(freq)
    OBVIOUS
  <1>5. /\ N = Len(cum)
        /\ \A i \in 1 .. N : cum[i] = S[i]
    BY <1>1, <1>2, <1>3, <1>4 DEF IsTable, ValidTable
  <1>6. Ascend(S, N) /\ StartsAt(cum, S, N)
    BY <1>3, <1>4, <1>5, StartsGrow, StartsOrdered DEF Ascend, StartsAt
  <1>7. PICK k \in 1 .. N : k = s /\ S[k] <= v /\ v < S[k + 1]
    <2>1. s \in 1 .. N /\ cum[s] <= v /\ v < cum[s] + freq[s]
      BY <1>1, <1>2, <1>4 DEF HoldsValue
    <2>2. PICK k \in 1 .. N : k = s
      BY <2>1
    <2>3. cum[k] = S[k] /\ S[k + 1] = S[k] + freq[k]
      BY <1>3, <1>4, <1>5, StartsGrow
    <2>4. QED
      BY <2>1, <2>2, <2>3
  <1>8. \A n \in 0 .. N : IsPoint(cum, v, N, n) <=> n = k
    BY <1>6, <1>7, OnePoint
  <1>9. PartitionPoint(table.cum, v) = CHOOSE n \in 0 .. N : IsPoint(cum, v, N, n)
    BY <1>2, <1>5 DEF PartitionPoint, IsPoint
  <1>10. (CHOOSE n \in 0 .. N : IsPoint(cum, v, N, n)) = k
    BY <1>8
  <1>11. PICK n : n = PartitionPoint(table.cum, v) /\ n = k
    BY <1>9, <1>10
  <1>12. n # 0
    BY <1>11
  <1>13. SymbolFor(table, v) = n
    BY <1>11, <1>12 DEF SymbolFor
  <1>14. QED
    BY <1>7, <1>11, <1>13

-----------------------------------------------------------------------------
(***************************************************************************)
(* The coder's lemmas, at the constants of the stream; the encoder and the *)
(* decoder of a stream compute with the same operators.                    *)
(***************************************************************************)
RC == INSTANCE RangeCoderProofs WITH
  MaxSymbols <- MaxTokens, Payloads <- {<<>>},
  low <- elow, range <- erange, out <- eout, pc <- epc, left <- eleft,
  count <- ecount,
  code <- dcode, pending <- dpending, input <- dinput, pos <- dpos

LEMMA SameEncoder ==
  /\ Enc!Word = RC!Word /\ Enc!Power = RC!Power
  /\ \A a, b, c : Enc!Valid(a, b, c) <=> RC!Valid(a, b, c)
  /\ \A a, b, c : Enc!NarrowLow(a, b, c) = RC!NarrowLow(a, b, c)
  /\ \A a, b : Enc!NarrowRange(a, b) = RC!NarrowRange(a, b)
  /\ \A a : Enc!TopDigit(a) = RC!TopDigit(a)
  /\ \A a, b : Enc!NeedsDigit(a, b) <=> RC!NeedsDigit(a, b)
  /\ \A a, b : Enc!CutRange(a, b) = RC!CutRange(a, b)
  /\ \A a : Enc!ShiftWord(a) = RC!ShiftWord(a)
  BY DEF Enc!Word, RC!Word, Enc!Top, RC!Top, Enc!Power, RC!Power,
    Enc!Valid, RC!Valid, Enc!NarrowLow, RC!NarrowLow, Enc!NarrowRange, RC!NarrowRange,
    Enc!TopDigit, RC!TopDigit, Enc!Settled, RC!Settled, Enc!NeedsDigit, RC!NeedsDigit,
    Enc!CutRange, RC!CutRange, Enc!ShiftWord, RC!ShiftWord

LEMMA SameDecoder ==
  /\ Dec!Word = RC!Word
  /\ \A a, b, c : Dec!Valid(a, b, c) <=> RC!Valid(a, b, c)
  /\ \A a, b, c : Dec!NarrowLow(a, b, c) = RC!NarrowLow(a, b, c)
  /\ \A a, b : Dec!NarrowRange(a, b) = RC!NarrowRange(a, b)
  /\ \A a, b : Dec!NeedsDigit(a, b) <=> RC!NeedsDigit(a, b)
  /\ \A a, b : Dec!CutRange(a, b) = RC!CutRange(a, b)
  /\ \A a : Dec!ShiftWord(a) = RC!ShiftWord(a)
  BY DEF Dec!Word, RC!Word, Dec!Top, RC!Top,
    Dec!Valid, RC!Valid, Dec!NarrowLow, RC!NarrowLow, Dec!NarrowRange, RC!NarrowRange,
    Dec!TopDigit, RC!TopDigit, Dec!Settled, RC!Settled, Dec!NeedsDigit, RC!NeedsDigit,
    Dec!CutRange, RC!CutRange, Dec!ShiftWord, RC!ShiftWord

LEMMA CoderSizes == RC!RangeCoderAssumption /\ RC!EncoderBounds /\ RC!PayloadsAssumption
  <1>1. RC!RangeCoderAssumption
    BY TokenStreamAssumption, SameEncoder DEF Enc!RangeCoderAssumption, RC!RangeCoderAssumption
  <1>2. RC!EncoderBounds
    BY TokenStreamAssumption DEF RC!EncoderBounds
  <1>3. RC!PayloadsAssumption
    BY DEF RC!PayloadsAssumption
  <1>4. QED
    BY <1>1, <1>2, <1>3

-----------------------------------------------------------------------------
(***************************************************************************)
(* The encoder stands at a turn, and each of its steps makes a turn that   *)
(* follows.                                                                *)
(***************************************************************************)
EncoderTurn ==
  [low |-> elow, range |-> erange, symbols |-> ecount, digits |-> Len(eout),
   pc |-> IF epc = "finished" THEN "finish" ELSE epc, left |-> eleft]

EncoderAt(t) ==
  /\ RC!SameTurn(t, EncoderTurn)
  /\ eout \in Seq(RC!Digit)
  /\ epc = "finished" => eleft = 0

EncoderMoves(F, K) ==
  \/ /\ ecount < K /\ RC!IsInterval(F[ecount + 1])
     /\ Enc!Encode(F[ecount + 1].cum, F[ecount + 1].freq, F[ecount + 1].total)
  \/ Enc!Renorm
  \/ Enc!RenormDone
  \/ ecount = K /\ Enc!Finish
  \/ Enc!FinishDigit

LEMMA EncoderStep ==
  ASSUME NEW t, EncoderAt(t), t.low \in RC!WordSet, NEW F, NEW K, EncoderMoves(F, K)
  PROVE  /\ RC!Follows(t, EncoderTurn', F, K, eout')
         /\ eout' \in Seq(RC!Digit)
         /\ Len(eout') >= Len(eout)
         /\ \A i \in 1 .. Len(eout) : eout'[i] = eout[i]
         /\ epc' # "finished"
  <1>1. eout \in Seq(RC!Digit) /\ RC!SameTurn(t, EncoderTurn)
    BY DEF EncoderAt
  <1>2. CASE /\ ecount < K /\ RC!IsInterval(F[ecount + 1])
             /\ Enc!Encode(F[ecount + 1].cum, F[ecount + 1].freq, F[ecount + 1].total)
    <2>1. RC!Encodes(t, EncoderTurn', F, K)
      BY <1>1, <1>2, SameEncoder DEF Enc!Encode, RC!Encodes, EncoderTurn, RC!SameTurn
    <2>2. eout' = eout /\ epc' = "renorm"
      BY <1>2 DEF Enc!Encode
    <2>3. QED
      BY <1>1, <2>1, <2>2 DEF RC!Follows
  <1>3. ASSUME epc' \in {"renorm", "finish"}, eout' = Append(eout, RC!TopDigit(elow))
        PROVE  /\ eout' \in Seq(RC!Digit)
               /\ Len(eout') = Len(eout) + 1
               /\ \A i \in 1 .. Len(eout) : eout'[i] = eout[i]
               /\ eout'[Len(eout) + 1] = RC!TopDigit(elow)
               /\ epc' # "finished"
    <2>1. RC!TopDigit(elow) \in RC!Digit
      BY <1>1, RC!EmitDigit, CoderSizes DEF RC!SameTurn, EncoderTurn
    <2>2. QED
      BY <1>1, <1>3, <2>1
  <1>4. CASE Enc!Renorm
    <2>1. epc' \in {"renorm", "finish"} /\ eout' = Append(eout, RC!TopDigit(elow))
      BY <1>4, SameEncoder DEF Enc!Renorm
    <2>2. RC!Shifts(t, EncoderTurn', eout')
      BY <1>1, <1>3, <1>4, <2>1, SameEncoder DEF Enc!Renorm, RC!Shifts, EncoderTurn, RC!SameTurn
    <2>3. QED
      BY <1>1, <1>3, <2>1, <2>2 DEF RC!Follows
  <1>5. CASE Enc!RenormDone
    <2>1. RC!Returns(t, EncoderTurn')
      BY <1>1, <1>5, SameEncoder DEF Enc!RenormDone, RC!Returns, EncoderTurn, RC!SameTurn
    <2>2. eout' = eout /\ epc' = "ready"
      BY <1>5 DEF Enc!RenormDone
    <2>3. QED
      BY <1>1, <2>1, <2>2 DEF RC!Follows
  <1>6. CASE ecount = K /\ Enc!Finish
    <2>1. RC!Finishes(t, EncoderTurn', K)
      BY <1>1, <1>6 DEF Enc!Finish, RC!Finishes, EncoderTurn, RC!SameTurn
    <2>2. eout' = eout /\ epc' = "finish"
      BY <1>6 DEF Enc!Finish
    <2>3. QED
      BY <1>1, <2>1, <2>2 DEF RC!Follows
  <1>7. CASE Enc!FinishDigit
    <2>1. epc' \in {"renorm", "finish"} /\ eout' = Append(eout, RC!TopDigit(elow))
      BY <1>7, SameEncoder DEF Enc!FinishDigit
    <2>2. RC!FinishesDigit(t, EncoderTurn', eout')
      BY <1>1, <1>3, <1>7, <2>1, SameEncoder
      DEF Enc!FinishDigit, RC!FinishesDigit, EncoderTurn, RC!SameTurn
    <2>3. QED
      BY <1>1, <1>3, <2>1, <2>2 DEF RC!Follows
  <1>8. QED
    BY <1>2, <1>4, <1>5, <1>6, <1>7 DEF EncoderMoves

-----------------------------------------------------------------------------
(***************************************************************************)
(* While the stream is encoded, its turns so far are a trace of what was   *)
(* given and emitted so far.                                               *)
(***************************************************************************)
Coded(cs, ts) == [k \in 1 .. Len(ts) |-> IntervalOf(cs[k], ts[k])]

StreamOK ==
  /\ cdfs \in Seq(Tables) /\ tokens \in Seq(Nat)
  /\ Len(cdfs) = Len(tokens)
  /\ \A k \in 1 .. Len(tokens) : tokens[k] \in DOMAIN cdfs[k].freq

IsEncoding(tr, m) ==
  /\ RC!IsTrace(tr, m, Coded(cdfs, tokens), Len(tokens), eout, Len(eout))
  /\ EncoderAt(tr[m])
  /\ epc \in {"ready", "renorm"} => RC!NotFinished(tr, m)

Encoding ==
  /\ ecount = Len(tokens)
  /\ \E m \in Nat : \E tr : IsEncoding(tr, m)

LEMMA EncodingStarts ==
  ASSUME Enc!Init, cdfs = <<>>, tokens = <<>>
  PROVE  Encoding
  <1>1. PICK t : t = EncoderTurn
    OBVIOUS
  <1>2. PICK tr : tr = [j \in {0} |-> t]
    OBVIOUS
  <1>3. RC!First(t)
    BY <1>1, SameEncoder DEF Enc!Init, EncoderTurn, RC!First
  <1>4. tr[0] = t
    BY <1>2
  <1>5. PICK F, P : F = Coded(cdfs, tokens) /\ P = eout
    OBVIOUS
  <1>6. RC!IsTrace(tr, 0, F, 0, P, 0)
    <2>1. RC!Sound(t, 0, 0)
      BY <1>3, RC!FirstIsSound, CoderSizes
    <2>2. QED
      BY <1>3, <1>4, <2>1 DEF RC!IsTrace
  <1>7. Len(tokens) = 0 /\ Len(eout) = 0 /\ eout = <<>> /\ ecount = 0 /\ epc = "ready"
    BY DEF Enc!Init
  <1>8. EncoderAt(tr[0])
    BY <1>1, <1>4, <1>7 DEF EncoderAt, RC!SameTurn
  <1>9. RC!NotFinished(tr, 0)
    BY <1>3, <1>4 DEF RC!NotFinished, RC!First
  <1>10. IsEncoding(tr, 0)
    BY <1>5, <1>6, <1>7, <1>8, <1>9 DEF IsEncoding
  <1>11. QED
    BY <1>7, <1>10 DEF Encoding

\* What a step of the caller may do to the stream.
StreamGrows ==
  \/ cdfs' = cdfs /\ tokens' = tokens
  \/ /\ epc = "ready"
     /\ \E table \in Tables : \E token \in DOMAIN table.freq :
          cdfs' = Append(cdfs, table) /\ tokens' = Append(tokens, token)

LEMMA StreamGrowsOK ==
  ASSUME StreamOK, StreamGrows
  PROVE  /\ StreamOK'
         /\ Len(tokens') >= Len(tokens)
         /\ RC!Agree(Coded(cdfs, tokens), Coded(cdfs', tokens'), Len(tokens))
         /\ Len(tokens') = Len(tokens) \/ epc = "ready"
  <1>1. CASE cdfs' = cdfs /\ tokens' = tokens
    BY <1>1 DEF StreamOK, RC!Agree
  <1>2. ASSUME epc = "ready", NEW table \in Tables, NEW token \in DOMAIN table.freq,
               cdfs' = Append(cdfs, table), tokens' = Append(tokens, token)
        PROVE  /\ StreamOK'
               /\ Len(tokens') >= Len(tokens)
               /\ RC!Agree(Coded(cdfs, tokens), Coded(cdfs', tokens'), Len(tokens))
    <2>1. token \in Nat
      BY TokenStreamAssumption
    <2>2. /\ cdfs' \in Seq(Tables) /\ tokens' \in Seq(Nat)
          /\ Len(cdfs') = Len(tokens) + 1 /\ Len(tokens') = Len(tokens) + 1
          /\ \A k \in 1 .. Len(tokens) : cdfs'[k] = cdfs[k] /\ tokens'[k] = tokens[k]
          /\ cdfs'[Len(tokens) + 1] = table /\ tokens'[Len(tokens) + 1] = token
      BY <1>2, <2>1 DEF StreamOK
    <2>3. \A k \in 1 .. Len(tokens') : k \in 1 .. Len(tokens) \/ k = Len(tokens) + 1
      BY <2>2 DEF StreamOK
    <2>4. \A k \in 1 .. Len(tokens') : tokens'[k] \in DOMAIN cdfs'[k].freq
      BY <2>2, <2>3 DEF StreamOK
    <2>5. RC!Agree(Coded(cdfs, tokens), Coded(cdfs', tokens'), Len(tokens))
      BY <2>2 DEF RC!Agree, Coded, StreamOK
    <2>6. QED
      BY <2>2, <2>4, <2>5 DEF StreamOK
  <1>3. QED
    BY <1>1, <1>2 DEF StreamGrows

LEMMA EncodingStep ==
  ASSUME StreamOK, Encoding, StreamGrows, ecount' = Len(tokens'),
         EncoderMoves(Coded(cdfs', tokens'), Len(tokens'))
  PROVE  Encoding'
  <1>1. PICK m \in Nat : \E tr : IsEncoding(tr, m)
    BY DEF Encoding
  <1>2. PICK tr : IsEncoding(tr, m)
    BY <1>1
  <1>3. PICK t : t = tr[m]
    OBVIOUS
  <1>4. PICK F : F = Coded(cdfs, tokens)
    OBVIOUS
  <1>5. PICK P : P = eout
    OBVIOUS
  <1>6. PICK F2 : F2 = Coded(cdfs', tokens')
    OBVIOUS
  <1>7. PICK P2 : P2 = eout'
    OBVIOUS
  <1>8. PICK u : u = EncoderTurn'
    OBVIOUS
  <1>9. eout \in Seq(RC!Digit) /\ EncoderAt(t) /\ RC!IsTrace(tr, m, F, Len(tokens), P, Len(eout))
    BY <1>2, <1>3, <1>4, <1>5 DEF IsEncoding, EncoderAt
  <1>10. PICK K \in Nat, N \in Nat, K2 \in Nat :
           K = Len(tokens) /\ N = Len(eout) /\ K2 = Len(tokens')
    BY <1>9, StreamGrowsOK DEF StreamOK
  <1>11. t.low \in RC!WordSet
    BY <1>3, <1>9 DEF RC!IsTrace, RC!Sound
  <1>12. EncoderMoves(F2, K2)
    BY <1>6, <1>10
  <1>13. /\ RC!Follows(t, EncoderTurn', F2, K2, eout')
         /\ eout' \in Seq(RC!Digit) /\ Len(eout') >= Len(eout)
         /\ \A i \in 1 .. Len(eout) : eout'[i] = eout[i]
         /\ epc' # "finished"
    BY <1>9, <1>11, <1>12, EncoderStep
  <1>14. PICK N2 \in Nat : N2 = Len(eout')
    BY <1>13
  <1>15. /\ RC!Follows(tr[m], u, F2, K2, P2)
         /\ N2 >= N /\ RC!Agree(P, P2, N) /\ u.digits <= N2
    BY <1>3, <1>5, <1>7, <1>8, <1>10, <1>13, <1>14 DEF RC!Agree, EncoderTurn
  <1>16. /\ K2 >= K /\ RC!Agree(F, F2, K)
         /\ K2 = K \/ RC!NotFinished(tr, m)
    BY <1>2, <1>4, <1>6, <1>10, StreamGrowsOK DEF IsEncoding
  <1>17. RC!IsTrace(tr, m, F, K, P, N)
    BY <1>9, <1>10
  <1>18. PICK tr2 : /\ RC!IsTrace(tr2, m + 1, F2, K2, P2, N2)
                    /\ tr2[m + 1] = u
                    /\ \A j \in 0 .. m : tr2[j] = tr[j]
    <2>1. RC!Grows(tr, m, F, K, P, N, u, F2, K2, P2, N2)
      BY <1>15, <1>16, <1>17 DEF RC!Grows
    <2>2. QED
      BY <2>1, RC!TraceGrows, CoderSizes DEF RC!GrownBy
  <1>19. EncoderAt(tr2[m + 1])'
    BY <1>8, <1>13, <1>18 DEF EncoderAt, RC!SameTurn
  <1>20. epc' \in {"ready", "renorm"} => RC!NotFinished(tr2, m + 1)
    <2> SUFFICES ASSUME epc' \in {"ready", "renorm"} PROVE RC!NotFinished(tr2, m + 1)
      OBVIOUS
    <2>1. epc \in {"ready", "renorm"}
      BY <1>12 DEF EncoderMoves, Enc!Encode, Enc!Renorm, Enc!RenormDone, Enc!Finish, Enc!FinishDigit
    <2>2. \A j \in 0 .. m : tr2[j].pc # "finish"
      BY <1>2, <1>18, <2>1 DEF IsEncoding, RC!NotFinished
    <2>3. tr2[m + 1].pc # "finish"
      BY <1>8, <1>18 DEF EncoderTurn
    <2>4. \A j \in 0 .. m + 1 : j \in 0 .. m \/ j = m + 1
      OBVIOUS
    <2>5. QED
      BY <2>2, <2>3, <2>4 DEF RC!NotFinished
  <1>21. m + 1 \in Nat /\ IsEncoding(tr2, m + 1)'
    BY <1>6, <1>7, <1>10, <1>14, <1>18, <1>19, <1>20 DEF IsEncoding
  <1>22. QED
    BY <1>21 DEF Encoding
-----------------------------------------------------------------------------
(***************************************************************************)
(* While a prefix of the payload is decoded, the decoder stands at a turn  *)
(* of the encoder, Digits digits ahead of it.                              *)
(***************************************************************************)
Coding(tr, m) == RC!IsCoding(tr, m, Coded(cdfs, tokens), Len(tokens), sent, Len(sent))

\* What was delivered starts like what was sent: a cut, or the whole.
Prefix ==
  /\ dinput \in Seq(RC!Digit)
  /\ Len(dinput) <= Len(sent)
  /\ RC!Agree(dinput, sent, Len(dinput))

Decoded(n) ==
  /\ out \in Seq(Nat)
  /\ Len(out) = n /\ n <= Len(tokens)
  /\ \A i \in 1 .. n : out[i] = tokens[i]

\* What decode_freq left for decode_symbol is of the next symbol's table.
PendingAt(t) ==
  \/ dpending = <<>>
  \/ /\ dpc = "ready" /\ t.symbols < Len(tokens)
     /\ dpending = <<drange \div NextTable.total, NextTable.total>>

Opening(t) ==
  /\ dpc = "open" /\ RC!First(t)
  /\ dpending = <<>> /\ out = <<>>
  /\ dleft \in 0 .. Digits /\ dpos = Digits - dleft

Underway(t) ==
  /\ dpc = t.pc /\ dpc \in {"ready", "renorm"}
  /\ dpos = t.digits + Digits
  /\ Decoded(t.symbols)
  /\ PendingAt(t)

DecoderAt(t) ==
  /\ dlow = t.low /\ drange = t.range
  /\ dpos \in 0 .. Len(dinput)
  /\ dcode = RC!Window(RC!Padded(sent, Len(sent)), dpos)
  /\ Opening(t) \/ Underway(t)

StreamKept == cdfs' = cdfs /\ tokens' = tokens /\ sent' = sent

Decoding(tr, m) ==
  /\ StreamOK /\ sent \in Seq(RC!Digit) /\ Prefix /\ Coding(tr, m)

\* Reading a digit moves the window of the payload by one.
LEMMA DigitRead ==
  ASSUME sent \in Seq(RC!Digit), Prefix, dpos \in 0 .. Len(dinput), Dec!HasDigit,
         dcode = RC!Window(RC!Padded(sent, Len(sent)), dpos)
  PROVE  /\ Dec!CodeWithNext = RC!Window(RC!Padded(sent, Len(sent)), dpos + 1)
         /\ dpos + 1 \in 0 .. Len(dinput)
  <1>1. PICK N \in Nat, n \in Nat, D \in Nat :
          N = Len(sent) /\ n = dpos /\ D = Digits /\ n < N /\ n < Len(dinput)
    BY CoderSizes DEF Dec!HasDigit, Prefix, RC!RangeCoderAssumption
  <1>2. PICK bytes : bytes = RC!Padded(sent, N)
    OBVIOUS
  <1>3. PICK M \in Nat : M = N + D
    OBVIOUS
  <1>4. \A i \in 1 .. M : bytes[i] = IF i <= N THEN sent[i] ELSE 0
    BY <1>1, <1>2, <1>3 DEF RC!Padded
  <1>5. \A i \in 1 .. N : sent[i] \in RC!Digit
    BY <1>1
  <1>6. 0 \in RC!Digit
    BY CoderSizes DEF RC!Digit, RC!RangeCoderAssumption
  <1>7. \A i \in 1 .. M : bytes[i] \in RC!Digit
    BY <1>4, <1>5, <1>6
  <1>8. /\ RC!Window(bytes, n) \in RC!WordSet
        /\ RC!Window(bytes, n + 1) = (RC!Window(bytes, n) * Base + bytes[n + 1]) % RC!Word
    <2>1. n \in 0 .. M /\ n \in 0 .. M - 1
      BY <1>1, <1>3
    <2>2. QED
      BY <1>7, <2>1, RC!WindowGrows, CoderSizes
  <1>9. bytes[n + 1] = dinput[n + 1] /\ dinput[n + 1] \in RC!Digit
    <2>1. n + 1 \in 1 .. M /\ n + 1 <= N /\ n + 1 \in 1 .. Len(dinput)
      BY <1>1, <1>3
    <2>2. QED
      BY <1>4, <2>1 DEF Prefix, RC!Agree
  <1>10. PICK c, b : c = dcode /\ b = dinput[n + 1]
    OBVIOUS
  <1>11. c \in RC!WordSet /\ b \in RC!Digit /\ c = RC!Window(bytes, n)
    BY <1>1, <1>2, <1>8, <1>9, <1>10
  <1>12. RC!ShiftWord(c) + b = (c * Base + b) % RC!Word
    BY <1>11, RC!DigitAtTheEnd, CoderSizes
  <1>13. Dec!CodeWithNext = RC!ShiftWord(c) + b
    BY <1>1, <1>10, SameDecoder DEF Dec!CodeWithNext
  <1>14. QED
    BY <1>1, <1>2, <1>8, <1>9, <1>10, <1>11, <1>12, <1>13

LEMMA OpenDigitStep ==
  ASSUME NEW tr, NEW m \in Nat, Decoding(tr, m), NEW j \in 0 .. m, DecoderAt(tr[j]),
         Dec!OpenDigit, StreamKept, out' = out
  PROVE  DecoderAt(tr[j])'
  <1>1. PICK t : t = tr[j]
    OBVIOUS
  <1>2. DecoderAt(t) /\ Opening(t) /\ Prefix /\ sent \in Seq(RC!Digit)
    BY <1>1 DEF DecoderAt, Underway, Dec!OpenDigit, Decoding
  <1>3. /\ Dec!CodeWithNext = RC!Window(RC!Padded(sent, Len(sent)), dpos + 1)
        /\ dpos + 1 \in 0 .. Len(dinput)
    BY <1>2, DigitRead DEF Dec!OpenDigit, DecoderAt
  <1>4. Opening(t)'
    BY <1>2, CoderSizes DEF Opening, Dec!OpenDigit, RC!RangeCoderAssumption
  <1>5. DecoderAt(t)'
    BY <1>2, <1>3, <1>4 DEF DecoderAt, Dec!OpenDigit, StreamKept
  <1>6. QED
    BY <1>1, <1>5

LEMMA OpenDoneStep ==
  ASSUME NEW tr, NEW m \in Nat, Decoding(tr, m), NEW j \in 0 .. m, DecoderAt(tr[j]),
         Dec!OpenDone, StreamKept, out' = out
  PROVE  DecoderAt(tr[j])'
  <1>1. PICK t : t = tr[j]
    OBVIOUS
  <1>2. DecoderAt(t) /\ Opening(t)
    BY <1>1 DEF DecoderAt, Underway, Dec!OpenDone
  <1>3. tokens \in Seq(Nat) /\ Digits \in Nat
    BY CoderSizes DEF Decoding, StreamOK, RC!RangeCoderAssumption
  <1>4. Decoded(t.symbols)'
    BY <1>2, <1>3 DEF Decoded, Opening, RC!First, StreamKept
  <1>5. PendingAt(t)'
    BY <1>2 DEF PendingAt, Opening, Dec!OpenDone
  <1>6. Underway(t)'
    BY <1>2, <1>3, <1>4, <1>5 DEF Underway, Opening, RC!First, Dec!OpenDone
  <1>7. DecoderAt(t)'
    BY <1>2, <1>6 DEF DecoderAt, Dec!OpenDone, StreamKept
  <1>8. QED
    BY <1>1, <1>7

LEMMA DecoderRenormStep ==
  ASSUME NEW tr, NEW m \in Nat, Decoding(tr, m), NEW j \in 0 .. m, DecoderAt(tr[j]),
         Dec!DecoderRenorm, StreamKept, out' = out
  PROVE  \E k \in 0 .. m : DecoderAt(tr[k])'
  <1>1. PICK t : t = tr[j]
    OBVIOUS
  <1>2. DecoderAt(t) /\ Underway(t) /\ Prefix /\ sent \in Seq(RC!Digit)
    BY <1>1 DEF DecoderAt, Opening, Dec!DecoderRenorm, Decoding
  <1>3. PICK F, P : F = Coded(cdfs, tokens) /\ P = sent
    OBVIOUS
  <1>4. PICK K \in Nat, N \in Nat : K = Len(tokens) /\ N = Len(sent)
    BY <1>2 DEF Decoding, StreamOK
  <1>5. RC!IsCoding(tr, m, F, K, P, N)
    BY <1>3, <1>4 DEF Decoding, Coding
  <1>6. t.pc = "renorm" /\ RC!NeedsDigit(t.low, t.range)
    BY <1>2, SameDecoder DEF DecoderAt, Underway, Dec!DecoderRenorm
  <1>7. PICK u : u = tr[j + 1] /\ j + 1 \in 0 .. m /\ RC!Shifts(t, u, P)
    BY <1>1, <1>5, <1>6, RC!ShiftTurn, CoderSizes
  <1>8. /\ Dec!CodeWithNext = RC!Window(RC!Padded(sent, Len(sent)), dpos + 1)
        /\ dpos + 1 \in 0 .. Len(dinput)
    BY <1>2, DigitRead DEF Dec!DecoderRenorm, DecoderAt
  <1>9. t.digits \in Nat /\ Digits \in Nat
    BY <1>1, <1>5, CoderSizes DEF RC!IsCoding, RC!IsTrace, RC!Sound, RC!RangeCoderAssumption
  <1>10. Decoded(u.symbols)'
    BY <1>2, <1>7 DEF Underway, Decoded, RC!Shifts, StreamKept
  <1>11. dpending = <<>>
    BY <1>2, <1>6 DEF Underway, PendingAt
  <1>12. Underway(u)'
    BY <1>2, <1>6, <1>7, <1>9, <1>10, <1>11 DEF Underway, PendingAt, RC!Shifts, Dec!DecoderRenorm
  <1>13. DecoderAt(u)'
    BY <1>2, <1>7, <1>8, <1>12, SameDecoder DEF DecoderAt, RC!Shifts, Dec!DecoderRenorm, StreamKept
  <1>14. QED
    BY <1>7, <1>13

LEMMA DecoderRenormDoneStep ==
  ASSUME NEW tr, NEW m \in Nat, Decoding(tr, m), NEW j \in 0 .. m, DecoderAt(tr[j]),
         Dec!DecoderRenormDone, StreamKept, out' = out
  PROVE  \E k \in 0 .. m : DecoderAt(tr[k])'
  <1>1. PICK t : t = tr[j]
    OBVIOUS
  <1>2. DecoderAt(t) /\ Underway(t) /\ sent \in Seq(RC!Digit)
    BY <1>1 DEF DecoderAt, Opening, Dec!DecoderRenormDone, Decoding
  <1>3. PICK F, P : F = Coded(cdfs, tokens) /\ P = sent
    OBVIOUS
  <1>4. PICK K \in Nat, N \in Nat : K = Len(tokens) /\ N = Len(sent)
    BY <1>2 DEF Decoding, StreamOK
  <1>5. RC!IsCoding(tr, m, F, K, P, N)
    BY <1>3, <1>4 DEF Decoding, Coding
  <1>6. t.pc = "renorm" /\ ~ RC!NeedsDigit(t.low, t.range)
    BY <1>2, SameDecoder DEF DecoderAt, Underway, Dec!DecoderRenormDone
  <1>7. PICK u : u = tr[j + 1] /\ j + 1 \in 0 .. m /\ RC!Returns(t, u)
    BY <1>1, <1>5, <1>6, RC!ReturnTurn, CoderSizes
  <1>8. Decoded(u.symbols)'
    BY <1>2, <1>7 DEF Underway, Decoded, RC!Returns, StreamKept
  <1>9. dpending = <<>>
    BY <1>2, <1>6 DEF Underway, PendingAt
  <1>10. Underway(u)'
    BY <1>2, <1>7, <1>8, <1>9 DEF Underway, PendingAt, RC!Returns, Dec!DecoderRenormDone
  <1>11. DecoderAt(u)'
    BY <1>2, <1>7, <1>10 DEF DecoderAt, RC!Returns, Dec!DecoderRenormDone, StreamKept
  <1>12. QED
    BY <1>7, <1>11
\* The table's interval of the next token is the one the code falls on.
NextToken == tokens[Len(out) + 1]

TokensLeft == Len(out) < Len(cdfs)

\* With tokens left the trace goes on, by a turn that encodes the next one.
LEMMA NextSymbol ==
  ASSUME NEW tr, NEW m \in Nat, Decoding(tr, m), NEW j \in 0 .. m, DecoderAt(tr[j]),
         dpc = "ready", TokensLeft
  PROVE  /\ j + 1 \in 0 .. m
         /\ \E u : u = tr[j + 1] /\ RC!Encodes(tr[j], u, Coded(cdfs, tokens), Len(tokens))
         /\ Coded(cdfs, tokens)[Len(out) + 1] = IntervalOf(NextTable, NextToken)
         /\ tr[j].symbols = Len(out) /\ Underway(tr[j])
         /\ NextTable.total > 0 /\ NextTable.total < MaxTotal
         /\ RC!Valid(NextTable.cum[NextToken], NextTable.freq[NextToken], NextTable.total)
         /\ drange \div NextTable.total # 0
         /\ Dec!FreqValue(NextTable.total) < NextTable.total
         /\ SymbolFor(NextTable, Dec!FreqValue(NextTable.total)) = NextToken
  <1>1. PICK t : t = tr[j]
    OBVIOUS
  <1>2. DecoderAt(t) /\ Underway(t) /\ StreamOK /\ sent \in Seq(RC!Digit)
    BY <1>1 DEF DecoderAt, Opening, Decoding
  <1>3. PICK F, P : F = Coded(cdfs, tokens) /\ P = sent
    OBVIOUS
  <1>4. PICK K \in Nat, N \in Nat : K = Len(tokens) /\ N = Len(sent)
    BY <1>2 DEF StreamOK
  <1>5. RC!IsCoding(tr, m, F, K, P, N)
    BY <1>3, <1>4 DEF Decoding, Coding
  <1>6. /\ t.pc = "ready" /\ t.symbols = Len(out) /\ Len(out) \in Nat
        /\ Len(out) < K /\ Len(out) + 1 \in 1 .. Len(tokens)
    BY <1>2, <1>4 DEF Underway, Decoded, StreamOK, TokensLeft
  <1>7. PICK table, token : table = NextTable /\ token = NextToken
    OBVIOUS
  <1>8. PICK iv : iv = RC!NextInterval(t, F)
    OBVIOUS
  <1>9. /\ iv = IntervalOf(table, token)
        /\ iv.cum = table.cum[token] /\ iv.freq = table.freq[token] /\ iv.total = table.total
    BY <1>3, <1>6, <1>7, <1>8 DEF Coded, NextTable, NextToken, IntervalOf, RC!NextInterval
  <1>10. PICK r : r = RC!UnitWidth(t, iv)
    OBVIOUS
  <1>11. PICK v : v = RC!ValueAt(t, iv, P, N)
    OBVIOUS
  <1>12. /\ j + 1 \in 0 .. m
         /\ \E u : u = tr[j + 1] /\ RC!Encodes(t, u, F, K)
         /\ RC!FallsOn(iv, r, v)
    <2>1. RC!SymbolsLeft(t, K)
      BY <1>6 DEF RC!SymbolsLeft
    <2>2. t.pc = "ready"
      BY <1>6
    <2>3. j + 1 \in 0 .. m
      BY <1>1, <1>5, <1>8, <2>1, <2>2, RC!SymbolTurn, CoderSizes
    <2>4. \E u : u = tr[j + 1] /\ RC!Encodes(t, u, F, K)
      BY <1>1, <1>5, <1>8, <2>1, <2>2, RC!SymbolTurn, CoderSizes
    <2>5. RC!FallsOn(iv, RC!UnitWidth(t, iv), RC!ValueAt(t, iv, P, N))
      BY <1>1, <1>5, <1>8, <2>1, <2>2, RC!SymbolTurn, CoderSizes
    <2>6. QED
      BY <1>10, <1>11, <2>3, <2>4, <2>5
  <1>13. r = drange \div table.total
    BY <1>2, <1>9, <1>10 DEF DecoderAt, RC!UnitWidth
  <1>14. v = Dec!FreqValue(table.total)
    <2>1. RC!Ahead(P, N, t.digits) = dcode
      BY <1>2, <1>3, <1>4 DEF DecoderAt, Underway, RC!Ahead
    <2>2. QED
      BY <1>2, <1>9, <1>11, <2>1, SameDecoder
      DEF Dec!FreqValue, DecoderAt, RC!ValueAt, RC!UnitWidth
  <1>15. IsTable(table) /\ token \in DOMAIN table.freq
    <2>1. table \in Tables /\ token \in DOMAIN table.freq
      BY <1>2, <1>6, <1>7 DEF StreamOK, NextTable, NextToken
    <2>2. QED
      BY <2>1, TokenStreamAssumption DEF IsTable
  <1>16. HoldsValue(table, token, v)
    BY <1>9, <1>12, <1>15 DEF HoldsValue, RC!FallsOn
  <1>17. SymbolFor(table, v) = token
    BY <1>12, <1>15, <1>16, SymbolOfValue DEF RC!FallsOn
  <1>18. table.total > 0 /\ table.total < MaxTotal /\ RC!Valid(table.cum[token], table.freq[token], table.total)
    BY <1>9, <1>12 DEF RC!IsInterval, RC!Valid, RC!FallsOn
  <1>19. F[Len(out) + 1] = IntervalOf(table, token)
    BY <1>6, <1>8, <1>9 DEF RC!NextInterval
  <1>20. r # 0 /\ v < table.total
    BY <1>9, <1>12 DEF RC!FallsOn
  <1>21. QED
    BY <1>1, <1>2, <1>3, <1>4, <1>6, <1>7, <1>12, <1>13, <1>14, <1>17, <1>18, <1>19, <1>20

LEMMA DecodeFreqIsPossible ==
  ASSUME NEW tr, NEW m \in Nat, Decoding(tr, m), NEW j \in 0 .. m, DecoderAt(tr[j]),
         dpc = "ready", dpending = <<>>, TokensLeft
  PROVE  Dec!CanDecode(NextTable.total)
  BY NextSymbol DEF Dec!CanDecode

LEMMA DecodeFreqStep ==
  ASSUME NEW tr, NEW m \in Nat, Decoding(tr, m), NEW j \in 0 .. m, DecoderAt(tr[j]),
         TokensLeft, Dec!DecodeFreq(NextTable.total), StreamKept, out' = out
  PROVE  DecoderAt(tr[j])'
  <1>1. PICK t : t = tr[j]
    OBVIOUS
  <1>2. DecoderAt(t) /\ Underway(t) /\ StreamOK
    BY <1>1 DEF DecoderAt, Opening, Decoding, Dec!DecodeFreq
  <1>3. t.symbols < Len(tokens)
    BY <1>2 DEF Underway, Decoded, StreamOK, TokensLeft
  <1>4. PendingAt(t)'
    BY <1>3 DEF PendingAt, Dec!DecodeFreq, StreamKept, NextTable
  <1>5. Underway(t)'
    BY <1>2, <1>4 DEF Underway, Decoded, Dec!DecodeFreq, StreamKept
  <1>6. DecoderAt(t)'
    BY <1>2, <1>5 DEF DecoderAt, Dec!DecodeFreq, StreamKept
  <1>7. QED
    BY <1>1, <1>6

LEMMA DecodeSymbolStep ==
  ASSUME NEW tr, NEW m \in Nat, Decoding(tr, m), NEW j \in 0 .. m, DecoderAt(tr[j]),
         phase = "decode", DecodeSymbol, StreamKept
  PROVE  \E k \in 0 .. m : DecoderAt(tr[k])'
  <1>1. PICK t : t = tr[j]
    OBVIOUS
  <1>2. DecoderAt(t) /\ Underway(t) /\ StreamOK /\ dpc = "ready" /\ dpending # <<>>
    BY <1>1 DEF DecoderAt, Opening, Decoding, DecodeSymbol
  <1>3. dpending = <<drange \div NextTable.total, NextTable.total>> /\ TokensLeft
    BY <1>2 DEF Underway, PendingAt, Decoded, StreamOK, TokensLeft
  <1>4. PICK table, token : table = NextTable /\ token = NextToken
    OBVIOUS
  <1>5. PICK u : u = tr[j + 1] /\ j + 1 \in 0 .. m /\ RC!Encodes(t, u, Coded(cdfs, tokens), Len(tokens))
    BY <1>1, <1>2, <1>3, NextSymbol
  <1>6. /\ Coded(cdfs, tokens)[t.symbols + 1] = IntervalOf(table, token)
        /\ SymbolFor(table, Dec!FreqValue(table.total)) = token
        /\ t.symbols = Len(out)
    BY <1>1, <1>2, <1>3, <1>4, NextSymbol
  <1>7. /\ Dec!Advance(table.cum[token], table.freq[token], table.total)
        /\ out' = Append(out, token)
    BY <1>4, <1>6 DEF DecodeSymbol, IntervalOf
  <1>8. /\ u.low = RC!NarrowLow(t.low, t.range \div table.total, table.cum[token])
        /\ u.range = RC!NarrowRange(t.range \div table.total, table.freq[token])
        /\ u.symbols = t.symbols + 1 /\ u.digits = t.digits /\ u.pc = "renorm"
    BY <1>5, <1>6 DEF RC!Encodes, IntervalOf
  <1>9. /\ dlow' = u.low /\ drange' = u.range /\ dpc' = "renorm" /\ dpending' = <<>>
        /\ dcode' = dcode /\ dinput' = dinput /\ dpos' = dpos
    BY <1>2, <1>3, <1>4, <1>7, <1>8, SameDecoder DEF Dec!Advance, DecoderAt
  <1>10. Decoded(u.symbols)'
    <2>1. out \in Seq(Nat) /\ Len(out) + 1 \in 1 .. Len(tokens) /\ token \in Nat
      BY <1>2, <1>3, <1>4 DEF Underway, Decoded, StreamOK, NextToken, TokensLeft
    <2>2. \A i \in 1 .. Len(out) + 1 : i \in 1 .. Len(out) \/ i = Len(out) + 1
      BY <2>1
    <2>3. /\ out' \in Seq(Nat) /\ Len(out') = Len(out) + 1
          /\ \A i \in 1 .. Len(out) : out'[i] = out[i]
          /\ out'[Len(out) + 1] = token
      BY <1>7, <2>1
    <2>4. \A i \in 1 .. Len(out) : out[i] = tokens[i]
      BY <1>2, <1>6 DEF Underway, Decoded
    <2>5. \A i \in 1 .. Len(out) + 1 : out'[i] = tokens[i]
      BY <1>4, <2>2, <2>3, <2>4 DEF NextToken
    <2>6. u.symbols = Len(out) + 1 /\ Len(out) + 1 <= Len(tokens)
      BY <1>6, <1>8, <2>1
    <2>7. QED
      BY <2>3, <2>5, <2>6 DEF Decoded, StreamKept
  <1>11. Underway(u)'
    BY <1>2, <1>8, <1>9, <1>10 DEF Underway, PendingAt
  <1>12. DecoderAt(u)'
    BY <1>2, <1>9, <1>11 DEF DecoderAt, StreamKept
  <1>13. QED
    BY <1>5, <1>12

\* With every token decoded, the payload was read to its end.
\* With the last token decoded every digit has been read.
LEMMA DecodingEnds ==
  ASSUME NEW tr, NEW m \in Nat, Decoding(tr, m), NEW j \in 0 .. m, DecoderAt(tr[j]),
         dpc = "ready", ~ TokensLeft
  PROVE  dinput = sent /\ out = tokens
  <1>1. PICK t : t = tr[j]
    OBVIOUS
  <1>2. DecoderAt(t) /\ Underway(t) /\ StreamOK /\ sent \in Seq(RC!Digit) /\ Prefix
    BY <1>1 DEF DecoderAt, Opening, Decoding
  <1>3. PICK F, P : F = Coded(cdfs, tokens) /\ P = sent
    OBVIOUS
  <1>4. PICK K \in Nat, N \in Nat : K = Len(tokens) /\ N = Len(sent)
    BY <1>2 DEF StreamOK
  <1>5. RC!IsCoding(tr, m, F, K, P, N)
    BY <1>3, <1>4 DEF Decoding, Coding
  <1>6. t.pc = "ready" /\ ~ RC!SymbolsLeft(t, K)
    <2>1. t.symbols = Len(out) /\ Len(cdfs) = K /\ t.pc = dpc
      BY <1>2, <1>4 DEF Underway, Decoded, StreamOK
    <2>2. QED
      BY <2>1 DEF TokensLeft, RC!SymbolsLeft
  <1>7. RC!AtTheEnd(t, N)
    BY <1>1, <1>5, <1>6, RC!EndTurn, CoderSizes
  <1>8. Len(dinput) = Len(sent)
    BY <1>2, <1>4, <1>7 DEF Underway, DecoderAt, Prefix, RC!AtTheEnd
  <1>9. dinput = sent
    BY <1>2, <1>8 DEF Prefix, RC!Agree
  <1>10. out = tokens
    <2>1. out \in Seq(Nat) /\ tokens \in Seq(Nat) /\ Len(cdfs) = Len(tokens)
      BY <1>2 DEF Underway, Decoded, StreamOK
    <2>2. Len(out) = Len(tokens)
      BY <1>2, <2>1 DEF Underway, Decoded, TokensLeft
    <2>3. \A i \in 1 .. Len(out) : out[i] = tokens[i]
      BY <1>2 DEF Underway, Decoded
    <2>4. PICK a \in Seq(Nat), b \in Seq(Nat) : a = out /\ b = tokens
      BY ONLY <2>1
    <2>5. Len(a) = Len(b) /\ \A i \in 1 .. Len(a) : a[i] = b[i]
      BY ONLY <2>2, <2>3, <2>4
    <2>6. a = b
      BY ONLY <2>5, a \in Seq(Nat), b \in Seq(Nat), SeqEqual
    <2>7. QED
      BY ONLY <2>4, <2>6
  <1>11. QED
    BY <1>9, <1>10

\* The decoder asks for no digit the payload does not have.
\* The whole payload never runs out.
LEMMA NoEof ==
  ASSUME NEW tr, NEW m \in Nat, Decoding(tr, m), NEW j \in 0 .. m, DecoderAt(tr[j]), Dec!Eof
  PROVE  dinput # sent
  <1> SUFFICES ASSUME dinput = sent PROVE FALSE
    OBVIOUS
  <1>1. PICK t : t = tr[j]
    OBVIOUS
  <1>2. DecoderAt(t) /\ StreamOK /\ sent \in Seq(RC!Digit)
    BY <1>1 DEF Decoding
  <1>3. PICK F, P : F = Coded(cdfs, tokens) /\ P = sent
    OBVIOUS
  <1>4. PICK K \in Nat, N \in Nat : K = Len(tokens) /\ N = Len(sent) /\ ~ dpos < N
    BY <1>2 DEF StreamOK, Dec!Eof, Dec!HasDigit
  <1>5. RC!IsCoding(tr, m, F, K, P, N)
    BY <1>3, <1>4 DEF Decoding, Coding
  <1>6. RC!Sound(t, K, N) /\ RC!InPayload(t, P, N) /\ Digits \in Nat
    BY <1>1, <1>5, RC!TurnFacts, CoderSizes DEF RC!RangeCoderAssumption
  <1>7. CASE dpc = "open"
    <2>1. Opening(t) /\ dleft > 0
      BY <1>2, <1>7 DEF DecoderAt, Underway, Dec!Eof
    <2>2. t.pc # "finish" /\ t.digits = 0
      BY <2>1 DEF Opening, RC!First
    <2>3. t.digits + Digits <= N
      BY <1>6, <2>2 DEF RC!InPayload
    <2>4. QED
      BY <1>4, <1>6, <2>1, <2>2, <2>3 DEF Opening
  <1>8. CASE dpc = "renorm"
    <2>1. Underway(t) /\ t.pc = "renorm" /\ RC!NeedsDigit(t.low, t.range)
      BY <1>2, <1>8, SameDecoder DEF DecoderAt, Underway, Opening, Dec!Eof
    <2>2. t.digits + 1 + Digits <= N
      BY <1>1, <1>5, <2>1, RC!ShiftTurn, CoderSizes
    <2>3. t.digits \in Nat
      BY <1>6 DEF RC!Sound
    <2>4. QED
      BY <1>4, <1>6, <2>1, <2>2, <2>3 DEF Underway
  <1>9. QED
    BY <1>7, <1>8 DEF Dec!Eof
-----------------------------------------------------------------------------
(***************************************************************************)
(* When the decoded tokens are those that were encoded, the encoder that   *)
(* encodes them once more stands at a turn of the first one, with the same *)
(* digits emitted.                                                         *)
(***************************************************************************)
ReencoderAt(t) == EncoderAt(t) /\ RC!Agree(eout, sent, Len(eout))

LEMMA RestartAtFirst ==
  ASSUME NEW tr, NEW m \in Nat, Coding(tr, m), Enc!Restart
  PROVE  ReencoderAt(tr[0])'
  <1>1. RC!First(tr[0])
    BY DEF Coding, RC!IsCoding, RC!IsTrace
  <1>2. eout' = <<>> /\ Len(eout') = 0 /\ eout' \in Seq(RC!Digit) /\ eleft' = 0
    BY DEF Enc!Restart
  <1>3. RC!SameTurn(tr[0], EncoderTurn')
    BY <1>1, <1>2, SameEncoder DEF Enc!Restart, RC!First, RC!SameTurn, EncoderTurn
  <1>4. RC!Agree(eout', sent', Len(eout'))
    BY <1>2 DEF RC!Agree
  <1>5. QED
    BY <1>2, <1>3, <1>4 DEF ReencoderAt, EncoderAt

LEMMA ReencodeStep ==
  ASSUME NEW tr, NEW m \in Nat, StreamOK, sent \in Seq(RC!Digit), Coding(tr, m),
         NEW j \in 0 .. m, ReencoderAt(tr[j]),
         EncoderMoves(Coded(cdfs, tokens), Len(tokens)), StreamKept
  PROVE  \E k \in 0 .. m : ReencoderAt(tr[k])'
  <1>1. PICK t : t = tr[j]
    OBVIOUS
  <1>2. PICK F, P : F = Coded(cdfs, tokens) /\ P = sent
    OBVIOUS
  <1>3. PICK P2, w : P2 = eout' /\ w = EncoderTurn'
    OBVIOUS
  <1>4. PICK K \in Nat, N \in Nat : K = Len(tokens) /\ N = Len(sent)
    BY DEF StreamOK
  <1>5. RC!IsCoding(tr, m, F, K, P, N)
    BY <1>2, <1>4 DEF Coding
  <1>6. RC!Sound(t, K, N)
    BY <1>1, <1>5, RC!TurnFacts, CoderSizes
  <1>7. EncoderAt(t) /\ eout \in Seq(RC!Digit) /\ Len(eout) = t.digits /\ t.digits \in Nat
    BY <1>1, <1>6 DEF ReencoderAt, EncoderAt, EncoderTurn, RC!SameTurn, RC!Sound
  <1>8. /\ RC!Follows(t, w, F, K, P2)
        /\ eout' \in Seq(RC!Digit)
        /\ \A i \in 1 .. Len(eout) : eout'[i] = eout[i]
        /\ epc' # "finished"
    <2>1. t.low \in RC!WordSet /\ EncoderMoves(F, K)
      BY <1>2, <1>4, <1>6 DEF RC!Sound
    <2>2. QED
      BY <1>3, <1>7, <2>1, EncoderStep
  <1>9. t.pc # "finish" \/ t.left # 0
    BY <1>8 DEF RC!Follows, RC!Encodes, RC!Shifts, RC!Returns, RC!Finishes, RC!FinishesDigit
  <1>10. PICK u : u = tr[j + 1] /\ j + 1 \in 0 .. m /\ RC!Follows(t, u, F, K, P)
    BY <1>1, <1>5, <1>9, RC!TurnFacts, CoderSizes
  <1>11. RC!SameTurn(t, t)
    BY DEF RC!SameTurn
  <1>12. /\ RC!SameTurn(w, u)
         /\ \/ u.digits = t.digits
            \/ u.digits = t.digits + 1 /\ P2[t.digits + 1] = P[t.digits + 1]
    BY <1>7, <1>8, <1>10, <1>11, RC!NextTurnIsDetermined, CoderSizes
  <1>13. RC!SameTurn(u, EncoderTurn') /\ Len(eout') = u.digits
    BY <1>3, <1>12 DEF RC!SameTurn, EncoderTurn
  <1>14. RC!Agree(eout', sent', Len(eout'))
    <2>1. \A i \in 1 .. Len(eout) : eout[i] = sent[i]
      BY <1>1 DEF ReencoderAt, RC!Agree
    <2>2. \A i \in 1 .. Len(eout') : i \in 1 .. Len(eout) \/ (i = t.digits + 1 /\ u.digits = t.digits + 1)
      BY <1>7, <1>12, <1>13
    <2>3. u.digits = t.digits + 1 => eout'[t.digits + 1] = sent[t.digits + 1]
      BY <1>2, <1>3, <1>7, <1>12
    <2>4. \A i \in 1 .. Len(eout') : eout'[i] = sent[i]
      BY <1>8, <2>1, <2>2, <2>3
    <2>5. QED
      BY <2>4 DEF RC!Agree, StreamKept
  <1>15. ReencoderAt(u)'
    BY <1>8, <1>13, <1>14 DEF ReencoderAt, EncoderAt
  <1>16. QED
    BY <1>10, <1>15

LEMMA ReencodeDone ==
  ASSUME NEW tr, NEW m \in Nat, NEW j \in 0 .. m, ReencoderAt(tr[j]), Enc!FinishDone, StreamKept
  PROVE  ReencoderAt(tr[j])'
  <1>1. PICK t : t = tr[j]
    OBVIOUS
  <1>2. ReencoderAt(t)'
    BY <1>1 DEF ReencoderAt, EncoderAt, EncoderTurn, RC!SameTurn, Enc!FinishDone, StreamKept
  <1>3. QED
    BY <1>1, <1>2

LEMMA ReencoderCounts ==
  ASSUME NEW tr, NEW m \in Nat, Coding(tr, m), NEW j \in 0 .. m, ReencoderAt(tr[j])
  PROVE  ecount \in 0 .. Len(tokens)
  <1>1. RC!Sound(tr[j], Len(tokens), Len(sent))
    BY DEF Coding, RC!IsCoding, RC!IsTrace
  <1>2. QED
    BY <1>1 DEF RC!Sound, ReencoderAt, EncoderAt, EncoderTurn, RC!SameTurn

\* The digits of the second encoding are those of the first.
LEMMA ReencodingEnds ==
  ASSUME NEW tr, NEW m \in Nat, StreamOK, sent \in Seq(RC!Digit), Coding(tr, m),
         NEW j \in 0 .. m, ReencoderAt(tr[j]), epc = "finished"
  PROVE  eout = sent
  <1>1. PICK t : t = tr[j]
    OBVIOUS
  <1>2. PICK F, P : F = Coded(cdfs, tokens) /\ P = sent
    OBVIOUS
  <1>3. PICK K \in Nat, N \in Nat : K = Len(tokens) /\ N = Len(sent)
    BY DEF StreamOK
  <1>4. RC!IsCoding(tr, m, F, K, P, N)
    BY <1>2, <1>3 DEF Coding
  <1>5. RC!Finished(t) /\ t.digits = Len(eout) /\ eout \in Seq(RC!Digit)
    BY <1>1 DEF ReencoderAt, EncoderAt, EncoderTurn, RC!SameTurn, RC!Finished
  <1>6. RC!AllEmitted(t, N)
    BY <1>1, <1>4, <1>5, RC!FinishedTurn, CoderSizes
  <1>7. Len(eout) = Len(sent)
    BY <1>3, <1>5, <1>6 DEF RC!AllEmitted
  <1>8. QED
    BY <1>1, <1>5, <1>7 DEF ReencoderAt, RC!Agree
-----------------------------------------------------------------------------
(***************************************************************************)
(* The invariant: while the stream is encoded, there is a trace so far;    *)
(* afterwards there is one of the whole payload, on which the decoder and  *)
(* then the encoder stand; and what the call returned agrees with what was *)
(* delivered.                                                              *)
(***************************************************************************)
StandingOn(tr, m) ==
  /\ Coding(tr, m)
  /\ phase = "decode" /\ Prefix => \E j \in 0 .. m : DecoderAt(tr[j])
  /\ phase = "reencode" /\ out = tokens => \E j \in 0 .. m : ReencoderAt(tr[j])

Standing == sent \in Seq(RC!Digit) /\ \E m \in Nat : \E tr : StandingOn(tr, m)

Returned ==
  /\ phase = "reencode" /\ Prefix => dinput = sent /\ out = tokens
  /\ phase = "done" /\ Prefix =>
       IF dinput = sent THEN verdict = "Ok" /\ out = tokens ELSE verdict = "UnexpectedEof"
  /\ phase = "done" /\ verdict = "Ok" /\ out = tokens => dinput = sent
  /\ phase # "done" => verdict = "none"

StreamInv ==
  /\ StreamOK
  /\ phase \in {"encode", "decode", "reencode", "done"}
  /\ IF phase = "encode" THEN Encoding /\ out = <<>> ELSE Standing
  /\ Returned

LEMMA CodingKept ==
  ASSUME NEW tr, NEW m, Coding(tr, m), StreamKept
  PROVE  Coding(tr, m)'
  BY DEF Coding, StreamKept

LEMMA StreamOKKept == ASSUME StreamOK, StreamKept PROVE StreamOK'
  BY DEF StreamOK, StreamKept

LEMMA PrefixKept ==
  ASSUME StreamKept, dinput' = dinput
  PROVE  Prefix' <=> Prefix
  BY DEF Prefix, StreamKept

\* A symbol the coder accepts, of a table of the stream, is an interval.
LEMMA IntervalOfToken ==
  ASSUME NEW table \in Tables, NEW token \in DOMAIN table.freq, NEW iv,
         iv = IntervalOf(table, token), Enc!Valid(iv.cum, iv.freq, iv.total)
  PROVE  RC!IsInterval(iv)
  <1>1. IsTable(table)
    BY TokenStreamAssumption DEF IsTable
  <1>2. table.freq \in Seq(Nat) /\ table.cum \in Seq(Nat) /\ Len(table.freq) = Len(table.cum)
    BY <1>1 DEF IsTable, ValidTable
  <1>3. table.total \in Nat /\ table.cum[token] \in Nat /\ table.freq[token] \in Nat
    BY <1>1, <1>2 DEF IsTable
  <1>4. QED
    BY <1>3, SameEncoder DEF IntervalOf, RC!IsInterval

LEMMA StreamInit == Init => StreamInv
  <1> SUFFICES ASSUME Init PROVE StreamInv
    OBVIOUS
  <1>1. /\ Enc!Init /\ phase = "encode" /\ cdfs = <<>> /\ tokens = <<>>
        /\ out = <<>> /\ verdict = "none"
    BY DEF Init
  <1>2. StreamOK /\ Returned
    BY <1>1 DEF StreamOK, Returned
  <1>3. Encoding
    BY <1>1, EncodingStarts
  <1>4. QED
    BY <1>1, <1>2, <1>3 DEF StreamInv

LEMMA EncodeTokenInv ==
  ASSUME StreamInv, NEW table \in Tables, NEW token \in DOMAIN table.freq,
         EncodeToken(table, token)
  PROVE  StreamInv'
  <1>1. /\ phase = "encode" /\ phase' = "encode" /\ StreamOK /\ Encoding
        /\ out' = <<>> /\ verdict' = "none"
        /\ cdfs' = Append(cdfs, table) /\ tokens' = Append(tokens, token)
    BY DEF EncodeToken, StreamInv, Returned
  <1>2. PICK iv : iv = IntervalOf(table, token)
    OBVIOUS
  <1>3. Enc!Encode(iv.cum, iv.freq, iv.total)
    BY <1>2 DEF EncodeToken
  <1>4. StreamGrows
    BY <1>1, <1>3 DEF StreamGrows, Enc!Encode
  <1>5. StreamOK'
    BY <1>1, <1>4, StreamGrowsOK
  <1>6. token \in Nat
    BY TokenStreamAssumption
  <1>7. ecount = Len(tokens) /\ ecount' = ecount + 1
    BY <1>1, <1>3 DEF Encoding, Enc!Encode
  <1>8. /\ cdfs'[Len(tokens) + 1] = table /\ tokens'[Len(tokens) + 1] = token
        /\ Len(tokens') = Len(tokens) + 1 /\ Len(tokens) \in Nat
    BY <1>1, <1>6 DEF StreamOK
  <1>9. PICK F2, K2 : F2 = Coded(cdfs', tokens') /\ K2 = Len(tokens')
    OBVIOUS
  <1>10. F2[ecount + 1] = iv
    BY <1>2, <1>7, <1>8, <1>9 DEF Coded
  <1>11. RC!IsInterval(iv)
    BY <1>2, <1>3, IntervalOfToken DEF Enc!Encode
  <1>12. EncoderMoves(F2, K2)
    BY <1>3, <1>7, <1>8, <1>9, <1>10, <1>11 DEF EncoderMoves
  <1>13. Encoding'
    BY <1>1, <1>4, <1>7, <1>8, <1>9, <1>12, EncodingStep
  <1>14. QED
    BY <1>1, <1>5, <1>13 DEF StreamInv, Returned

LEMMA EncodingRuns ==
  ASSUME StreamOK, Encoding, cdfs' = cdfs, tokens' = tokens, ecount' = ecount,
         EncoderMoves(Coded(cdfs, tokens), Len(tokens)) \/ Enc!FinishDone
  PROVE  Encoding'
  <1>1. CASE EncoderMoves(Coded(cdfs, tokens), Len(tokens))
    <2>1. StreamGrows /\ ecount' = Len(tokens')
      BY DEF StreamGrows, Encoding
    <2>2. EncoderMoves(Coded(cdfs', tokens'), Len(tokens'))
      BY <1>1
    <2>3. QED
      BY <2>1, <2>2, EncodingStep
  <1>2. CASE Enc!FinishDone
    <2>1. PICK m \in Nat : \E tr : IsEncoding(tr, m)
      BY DEF Encoding
    <2>2. PICK tr : IsEncoding(tr, m)
      BY <2>1
    <2>3. EncoderAt(tr[m])'
      BY <1>2, <2>2 DEF IsEncoding, EncoderAt, EncoderTurn, RC!SameTurn, Enc!FinishDone
    <2>4. IsEncoding(tr, m)'
      BY <1>2, <2>2, <2>3 DEF IsEncoding, Enc!FinishDone
    <2>5. QED
      BY <2>4 DEF Encoding
  <1>3. QED
    BY <1>1, <1>2

LEMMA EncoderRunsMoves ==
  ASSUME EncoderRuns, NEW F, NEW K
  PROVE  (EncoderMoves(F, K) \/ Enc!FinishDone) /\ ecount' = ecount
  BY DEF EncoderRuns, EncoderMoves, Enc!Renorm, Enc!RenormDone, Enc!FinishDigit, Enc!FinishDone

\* The encoder's steps while the decoded tokens are encoded once more.
LEMMA StandingReencodes ==
  ASSUME StreamOK, Standing, phase = "reencode", phase' = "reencode",
         StreamKept, dinput' = dinput, out' = out,
         out = tokens => EncoderMoves(Coded(cdfs, tokens), Len(tokens)) \/ Enc!FinishDone
  PROVE  Standing'
  <1>1. sent \in Seq(RC!Digit) /\ sent' \in Seq(RC!Digit)
    BY DEF Standing, StreamKept
  <1>2. PICK m \in Nat : \E tr : StandingOn(tr, m)
    BY DEF Standing
  <1>3. PICK tr : StandingOn(tr, m)
    BY <1>2
  <1>4. Coding(tr, m) /\ Coding(tr, m)'
    BY <1>3, CodingKept DEF StandingOn
  <1>5. ASSUME out = tokens PROVE \E k \in 0 .. m : ReencoderAt(tr[k])'
    <2>1. PICK j \in 0 .. m : ReencoderAt(tr[j])
      BY <1>3, <1>5 DEF StandingOn
    <2>2. CASE Enc!FinishDone
      BY <2>1, <2>2, ReencodeDone
    <2>3. CASE EncoderMoves(Coded(cdfs, tokens), Len(tokens))
      BY <1>1, <1>4, <2>1, <2>3, ReencodeStep
    <2>4. QED
      BY <1>5, <2>2, <2>3
  <1>6. out' = tokens' => out = tokens
    BY DEF StreamKept
  <1>7. StandingOn(tr, m)'
    BY <1>4, <1>5, <1>6 DEF StandingOn
  <1>8. QED
    BY <1>1, <1>7 DEF Standing

LEMMA EncoderRunsInv ==
  ASSUME StreamInv, EncoderRuns
  PROVE  StreamInv'
  <1>1. StreamOK /\ StreamKept /\ dinput' = dinput /\ out' = out /\ verdict' = verdict /\ phase' = phase
    BY DEF StreamInv, EncoderRuns, StreamKept, decVars
  <1>2. StreamOK'
    BY <1>1, StreamOKKept
  <1>3. Returned'
    BY <1>1, PrefixKept DEF StreamInv, Returned, StreamKept
  <1>4. CASE phase = "encode"
    <2>1. Encoding /\ out = <<>>
      BY <1>4 DEF StreamInv
    <2>2. Encoding'
      BY <1>1, <2>1, EncoderRunsMoves, EncodingRuns DEF StreamKept
    <2>3. QED
      BY <1>1, <1>2, <1>3, <1>4, <2>1, <2>2 DEF StreamInv
  <1>5. CASE phase = "reencode"
    <2>1. Standing
      BY <1>5 DEF StreamInv
    <2>2. Standing'
      BY <1>1, <1>5, <2>1, EncoderRunsMoves, StandingReencodes
    <2>3. QED
      BY <1>1, <1>2, <1>3, <1>5, <2>2 DEF StreamInv
  <1>6. QED
    BY <1>4, <1>5 DEF EncoderRuns

LEMMA FinishStreamInv ==
  ASSUME StreamInv, FinishStream
  PROVE  StreamInv'
  <1>1. /\ StreamOK /\ StreamKept /\ dinput' = dinput /\ out' = out /\ verdict' = verdict
        /\ phase = "encode" /\ phase' = "encode" /\ Encoding /\ out = <<>> /\ Returned
    BY DEF StreamInv, FinishStream, StreamKept, decVars
  <1>2. StreamOK'
    BY <1>1, StreamOKKept
  <1>3. ecount = Len(tokens) /\ Enc!Finish /\ ecount' = ecount
    BY <1>1 DEF Encoding, FinishStream, Enc!Finish
  <1>4. EncoderMoves(Coded(cdfs, tokens), Len(tokens))
    BY <1>3 DEF EncoderMoves
  <1>5. Encoding'
    BY <1>1, <1>3, <1>4, EncodingRuns DEF StreamKept
  <1>6. QED
    BY <1>1, <1>2, <1>5 DEF StreamInv, Returned

\* What finish returned is coded by the whole of the trace.
LEMMA SentIsCoding ==
  ASSUME StreamOK, Encoding, epc = "finished",
         cdfs' = cdfs, tokens' = tokens, sent' = eout
  PROVE  sent' \in Seq(RC!Digit) /\ \E m \in Nat : \E tr : Coding(tr, m)'
  <1>1. PICK m \in Nat : \E tr : IsEncoding(tr, m)
    BY DEF Encoding
  <1>2. PICK tr : IsEncoding(tr, m)
    BY <1>1
  <1>3. PICK t : t = tr[m]
    OBVIOUS
  <1>4. /\ eout \in Seq(RC!Digit) /\ eleft = 0
        /\ t.pc = "finish" /\ t.left = 0 /\ t.digits = Len(eout)
    BY <1>2, <1>3 DEF IsEncoding, EncoderAt, EncoderTurn, RC!SameTurn
  <1>5. PICK F, P : F = Coded(cdfs, tokens) /\ P = eout
    OBVIOUS
  <1>6. PICK K \in Nat, N \in Nat : K = Len(tokens) /\ N = Len(eout)
    BY <1>4 DEF StreamOK
  <1>7. RC!IsTrace(tr, m, F, K, P, N)
    BY <1>2, <1>5, <1>6 DEF IsEncoding
  <1>8. RC!IsPayload(P, N)
    BY <1>4, <1>5, <1>6 DEF RC!IsPayload
  <1>9. RC!IsCoding(tr, m, F, K, P, N)
    BY <1>3, <1>4, <1>6, <1>7, <1>8 DEF RC!IsCoding
  <1>10. Coding(tr, m)'
    BY <1>5, <1>6, <1>9 DEF Coding
  <1>11. QED
    BY <1>4, <1>10

\* A payload holds the digits of finish at least.
LEMMA SentIsNotEmpty ==
  ASSUME NEW tr, NEW m \in Nat, StreamOK, sent \in Seq(RC!Digit), Coding(tr, m)
  PROVE  sent # <<>>
  <1>1. PICK F, P : F = Coded(cdfs, tokens) /\ P = sent
    OBVIOUS
  <1>2. PICK K \in Nat, N \in Nat : K = Len(tokens) /\ N = Len(sent)
    BY DEF StreamOK
  <1>3. RC!IsCoding(tr, m, F, K, P, N)
    BY <1>1, <1>2 DEF Coding
  <1>4. PICK j \in 0 .. m : j = 0
    OBVIOUS
  <1>5. PICK t : t = tr[j]
    OBVIOUS
  <1>6. RC!First(t)
    BY <1>3, <1>4, <1>5 DEF RC!IsCoding, RC!IsTrace
  <1>7. RC!InPayload(t, P, N)
    BY <1>3, <1>5, RC!TurnFacts, CoderSizes
  <1>8. Digits \in Nat /\ Digits > 0
    BY CoderSizes DEF RC!RangeCoderAssumption
  <1>9. N > 0
    BY <1>6, <1>7, <1>8 DEF RC!InPayload, RC!First
  <1>10. QED
    BY <1>2, <1>9

\* A decoder that is opened on the payload stands at the first turn.
LEMMA DecoderStarts ==
  ASSUME NEW tr, NEW m \in Nat, Coding(tr, m)', NEW bytes, Dec!Reopen(bytes), out' = <<>>,
         Prefix'
  PROVE  DecoderAt(tr[0])'
  <1>1. RC!First(tr[0])
    BY DEF Coding, RC!IsCoding, RC!IsTrace
  <1>2. /\ dlow' = 0 /\ drange' = RC!Word - 1 /\ dcode' = 0 /\ dpending' = <<>>
        /\ dpos' = 0 /\ dleft' = Digits /\ dpc' = "open"
    BY SameDecoder DEF Dec!Reopen
  <1>3. Digits \in Nat
    BY CoderSizes DEF RC!RangeCoderAssumption
  <1>4. Opening(tr[0])'
    BY <1>1, <1>2, <1>3 DEF Opening
  <1>5. RC!Window(RC!Padded(sent', Len(sent')), 0) = 0
    <2>1. PICK b : b = RC!Padded(sent', Len(sent'))
      OBVIOUS
    <2>2. \A i \in 1 .. 0 : b[i] \in RC!Digit
      OBVIOUS
    <2>3. RC!Window(b, 0) = 0
      BY <2>2, RC!WindowGrows, CoderSizes
    <2>4. QED
      BY <2>1, <2>3
  <1>6. 0 \in 0 .. Len(dinput')
    BY DEF Prefix
  <1>7. QED
    BY <1>1, <1>2, <1>4, <1>5, <1>6 DEF DecoderAt, RC!First

\* What storage did to the payload does not matter here.
LEMMA DeliverInv ==
  ASSUME StreamInv, Deliver
  PROVE  StreamInv'
  <1>1. /\ StreamOK /\ Encoding /\ out = <<>> /\ verdict = "none"
        /\ phase = "encode" /\ phase' = "decode" /\ epc = "finished"
        /\ cdfs' = cdfs /\ tokens' = tokens /\ out' = out /\ verdict' = verdict /\ sent' = eout
    BY DEF StreamInv, Deliver, Returned
  <1>2. PICK bytes : Dec!Reopen(bytes)
    BY DEF Deliver
  <1>3. StreamOK'
    BY <1>1 DEF StreamOK
  <1>4. sent' \in Seq(RC!Digit) /\ \E m \in Nat : \E tr : Coding(tr, m)'
    BY <1>1, SentIsCoding
  <1>5. PICK m \in Nat : \E tr : Coding(tr, m)'
    BY <1>4
  <1>6. PICK tr : Coding(tr, m)'
    BY <1>5
  <1>7. Prefix' => DecoderAt(tr[0])'
    BY <1>1, <1>2, <1>6, DecoderStarts
  <1>8. 0 \in 0 .. m
    OBVIOUS
  <1>9. StandingOn(tr, m)'
    BY <1>1, <1>6, <1>7, <1>8 DEF StandingOn
  <1>10. Standing'
    BY <1>4, <1>9 DEF Standing
  <1>11. QED
    BY <1>1, <1>3, <1>10 DEF StreamInv, Returned

\* While a payload is decoded: nothing the step left alone matters.
DecoderMoves(tr, m) == Prefix => \E k \in 0 .. m : DecoderAt(tr[k])'

LEMMA DecodingGoesOn ==
  ASSUME StreamInv, phase = "decode", phase' = "decode", StreamKept, dinput' = dinput,
         verdict' = verdict,
         \A m \in Nat : \A tr : StandingOn(tr, m) => DecoderMoves(tr, m)
  PROVE  StreamInv'
  <1>1. StreamOK /\ Standing /\ Returned
    BY DEF StreamInv
  <1>2. PICK m \in Nat : \E tr : StandingOn(tr, m)
    BY <1>1 DEF Standing
  <1>3. PICK tr : StandingOn(tr, m)
    BY <1>2
  <1>4. Coding(tr, m)'
    BY <1>3, CodingKept DEF StandingOn
  <1>5. StandingOn(tr, m)'
    BY <1>3, <1>4, PrefixKept DEF StandingOn, DecoderMoves
  <1>6. Standing' /\ StreamOK'
    BY <1>1, <1>5, StreamOKKept DEF Standing, StreamKept
  <1>7. QED
    BY <1>1, <1>6 DEF StreamInv, Returned

LEMMA StandingDecodes ==
  ASSUME StreamInv, phase = "decode", NEW m, NEW tr, StandingOn(tr, m), Prefix
  PROVE  Decoding(tr, m) /\ \E j \in 0 .. m : DecoderAt(tr[j])
  BY DEF StreamInv, Standing, StandingOn, Decoding

LEMMA DecoderRunsInv ==
  ASSUME StreamInv, DecoderRuns
  PROVE  StreamInv'
  <1>1. /\ phase = "decode" /\ phase' = "decode" /\ StreamKept /\ verdict' = verdict /\ out' = out
        /\ Dec!OpenDigit \/ Dec!OpenDone \/ Dec!DecoderRenorm \/ Dec!DecoderRenormDone
    BY DEF DecoderRuns, StreamKept
  <1>2. dinput' = dinput
    BY <1>1 DEF Dec!OpenDigit, Dec!OpenDone, Dec!DecoderRenorm, Dec!DecoderRenormDone
  <1>3. ASSUME NEW m \in Nat, NEW tr, StandingOn(tr, m) PROVE DecoderMoves(tr, m)
    <2> SUFFICES ASSUME Prefix PROVE \E k \in 0 .. m : DecoderAt(tr[k])'
      BY DEF DecoderMoves
    <2>1. Decoding(tr, m) /\ \E j \in 0 .. m : DecoderAt(tr[j])
      BY <1>1, <1>3, StandingDecodes
    <2>2. PICK j \in 0 .. m : DecoderAt(tr[j])
      BY <2>1
    <2>3. CASE Dec!OpenDigit
      BY <1>1, <2>1, <2>2, <2>3, OpenDigitStep
    <2>4. CASE Dec!OpenDone
      BY <1>1, <2>1, <2>2, <2>4, OpenDoneStep
    <2>5. CASE Dec!DecoderRenorm
      BY <1>1, <2>1, <2>2, <2>5, DecoderRenormStep
    <2>6. CASE Dec!DecoderRenormDone
      BY <1>1, <2>1, <2>2, <2>6, DecoderRenormDoneStep
    <2>7. QED
      BY <1>1, <2>3, <2>4, <2>5, <2>6
  <1>4. QED
    BY <1>1, <1>2, <1>3, DecodingGoesOn

\* The call returns: the stream is left as it is.
LEMMA ReturnedInv ==
  ASSUME StreamOK, Standing, StreamKept, phase' = "done", Returned'
  PROVE  StreamInv'
  <1>1. PICK m \in Nat : \E tr : StandingOn(tr, m)
    BY DEF Standing
  <1>2. PICK tr : StandingOn(tr, m)
    BY <1>1
  <1>3. StandingOn(tr, m)'
    BY <1>2, CodingKept DEF StandingOn
  <1>4. Standing'
    BY <1>3 DEF Standing, StreamKept
  <1>5. QED
    BY <1>4, StreamOKKept DEF StreamInv

LEMMA DecoderEofInv ==
  ASSUME StreamInv, DecoderEof
  PROVE  StreamInv'
  <1>1. /\ StreamOK /\ Standing /\ phase = "decode" /\ phase' = "done" /\ Dec!Eof
        /\ StreamKept /\ verdict' = "UnexpectedEof" /\ out' = out
    BY DEF StreamInv, DecoderEof, Give, StreamKept
  <1>2. dinput' = dinput
    BY <1>1 DEF Dec!Eof
  <1>3. PICK m \in Nat : \E tr : StandingOn(tr, m)
    BY <1>1 DEF Standing
  <1>4. PICK tr : StandingOn(tr, m)
    BY <1>3
  <1>5. Prefix => dinput # sent
    <2> SUFFICES ASSUME Prefix PROVE dinput # sent
      OBVIOUS
    <2>1. Decoding(tr, m) /\ \E j \in 0 .. m : DecoderAt(tr[j])
      BY <1>1, <1>4, StandingDecodes
    <2>2. PICK j \in 0 .. m : DecoderAt(tr[j])
      BY <2>1
    <2>3. QED
      BY <1>1, <2>1, <2>2, NoEof
  <1>6. Returned'
    BY <1>1, <1>2, <1>5, PrefixKept DEF Returned, StreamKept
  <1>7. QED
    BY <1>1, <1>6, ReturnedInv

LEMMA DecodeValueInv ==
  ASSUME StreamInv, DecodeValue
  PROVE  StreamInv'
  <1>1. /\ StreamOK /\ Standing /\ Returned /\ phase = "decode" /\ StreamKept /\ out' = out
        /\ dpc = "ready" /\ dpending = <<>> /\ TokensLeft
    BY DEF StreamInv, DecodeValue, StreamKept, TokensLeft
  <1>2. CASE Dec!CanDecode(NextTable.total)
    <2>1. Dec!DecodeFreq(NextTable.total) /\ phase' = phase /\ verdict' = verdict
      BY <1>2 DEF DecodeValue
    <2>2. dinput' = dinput
      BY <2>1 DEF Dec!DecodeFreq
    <2>3. ASSUME NEW m \in Nat, NEW tr, StandingOn(tr, m) PROVE DecoderMoves(tr, m)
      <3> SUFFICES ASSUME Prefix PROVE \E k \in 0 .. m : DecoderAt(tr[k])'
        BY DEF DecoderMoves
      <3>1. Decoding(tr, m) /\ \E j \in 0 .. m : DecoderAt(tr[j])
        BY <1>1, <2>3, StandingDecodes
      <3>2. PICK j \in 0 .. m : DecoderAt(tr[j])
        BY <3>1
      <3>3. DecoderAt(tr[j])'
        BY <1>1, <2>1, <3>1, <3>2, DecodeFreqStep
      <3>4. QED
        BY <3>3
    <2>4. QED
      BY <1>1, <2>1, <2>2, <2>3, DecodingGoesOn
  <1>3. CASE ~ Dec!CanDecode(NextTable.total)
    <2>1. phase' = "done" /\ verdict' = "InvalidFrequency" /\ dinput' = dinput
      BY <1>3 DEF DecodeValue, Give, decVars
    <2>2. ~ Prefix
      <3> SUFFICES ASSUME Prefix PROVE FALSE
        OBVIOUS
      <3>1. PICK m \in Nat : \E tr : StandingOn(tr, m)
        BY <1>1 DEF Standing
      <3>2. PICK tr : StandingOn(tr, m)
        BY <3>1
      <3>3. Decoding(tr, m) /\ \E j \in 0 .. m : DecoderAt(tr[j])
        BY <1>1, <3>2, StandingDecodes
      <3>4. PICK j \in 0 .. m : DecoderAt(tr[j])
        BY <3>3
      <3>5. QED
        BY <1>1, <1>3, <3>3, <3>4, DecodeFreqIsPossible
    <2>3. Returned'
      BY <1>1, <2>1, <2>2, PrefixKept DEF Returned
    <2>4. QED
      BY <1>1, <2>1, <2>3, ReturnedInv
  <1>4. QED
    BY <1>2, <1>3

LEMMA DecodeSymbolInv ==
  ASSUME StreamInv, DecodeSymbol
  PROVE  StreamInv'
  <1>1. phase = "decode" /\ phase' = "decode" /\ StreamKept /\ verdict' = verdict
    BY DEF DecodeSymbol, StreamKept
  <1>2. dinput' = dinput
    BY DEF DecodeSymbol, Dec!Advance
  <1>3. ASSUME NEW m \in Nat, NEW tr, StandingOn(tr, m) PROVE DecoderMoves(tr, m)
    <2> SUFFICES ASSUME Prefix PROVE \E k \in 0 .. m : DecoderAt(tr[k])'
      BY DEF DecoderMoves
    <2>1. Decoding(tr, m) /\ \E j \in 0 .. m : DecoderAt(tr[j])
      BY <1>1, <1>3, StandingDecodes
    <2>2. PICK j \in 0 .. m : DecoderAt(tr[j])
      BY <2>1
    <2>3. QED
      BY <1>1, <2>1, <2>2, DecodeSymbolStep
  <1>4. QED
    BY <1>1, <1>2, <1>3, DecodingGoesOn

LEMMA ReencodeInv ==
  ASSUME StreamInv, Reencode
  PROVE  StreamInv'
  <1>1. /\ StreamOK /\ Standing /\ Returned /\ phase = "decode" /\ phase' = "reencode"
        /\ StreamKept /\ out' = out /\ verdict' = verdict /\ dinput' = dinput
        /\ dpc = "ready" /\ Enc!Restart
    BY DEF StreamInv, Reencode, StreamKept, decVars
  <1>2. ~ TokensLeft
    <2>1. Len(out) = Len(cdfs) /\ Len(cdfs) \in Nat
      BY <1>1 DEF Reencode, StreamOK
    <2>2. QED
      BY <2>1 DEF TokensLeft
  <1>3. PICK m \in Nat : \E tr : StandingOn(tr, m)
    BY <1>1 DEF Standing
  <1>4. PICK tr : StandingOn(tr, m)
    BY <1>3
  <1>5. Prefix => dinput = sent /\ out = tokens
    <2> SUFFICES ASSUME Prefix PROVE dinput = sent /\ out = tokens
      OBVIOUS
    <2>1. Decoding(tr, m) /\ \E j \in 0 .. m : DecoderAt(tr[j])
      BY <1>1, <1>4, StandingDecodes
    <2>2. PICK j \in 0 .. m : DecoderAt(tr[j])
      BY <2>1
    <2>3. QED
      BY <1>1, <1>2, <2>1, <2>2, DecodingEnds
  <1>6. Returned'
    BY <1>1, <1>5, PrefixKept DEF Returned, StreamKept
  <1>7. ReencoderAt(tr[0])' /\ 0 \in 0 .. m
    BY <1>1, <1>4, RestartAtFirst DEF StandingOn
  <1>8. StandingOn(tr, m)'
    BY <1>1, <1>4, <1>7, CodingKept DEF StandingOn
  <1>9. Standing' /\ StreamOK'
    BY <1>1, <1>8, StreamOKKept DEF Standing, StreamKept
  <1>10. QED
    BY <1>1, <1>6, <1>9 DEF StreamInv

\* The encoder's calls while the decoded tokens are encoded once more.
LEMMA ReencodingGoesOn ==
  ASSUME StreamInv, phase = "reencode", phase' = "reencode", StreamKept, dinput' = dinput,
         out' = out, verdict' = verdict,
         out = tokens => EncoderMoves(Coded(cdfs, tokens), Len(tokens)) \/ Enc!FinishDone
  PROVE  StreamInv'
  <1>1. StreamOK /\ Standing /\ Returned
    BY DEF StreamInv
  <1>2. Standing'
    BY <1>1, StandingReencodes
  <1>3. Returned'
    BY <1>1, PrefixKept DEF Returned, StreamKept
  <1>4. QED
    BY <1>1, <1>2, <1>3, StreamOKKept DEF StreamInv

\* The next token of the stream is encoded.
LEMMA EncodesNext ==
  ASSUME StreamOK, ecount \in 0 .. Len(tokens), ecount < Len(tokens),
         NEW iv, iv = IntervalOf(cdfs[ecount + 1], tokens[ecount + 1]),
         Enc!Encode(iv.cum, iv.freq, iv.total)
  PROVE  EncoderMoves(Coded(cdfs, tokens), Len(tokens))
  <1>1. PICK K \in Nat, n \in Nat : K = Len(tokens) /\ n = ecount
    BY DEF StreamOK
  <1>2. PICK table, token : table = cdfs[n + 1] /\ token = tokens[n + 1]
    OBVIOUS
  <1>3. n + 1 \in 1 .. Len(tokens) /\ n < K
    BY <1>1
  <1>4. table \in Tables /\ token \in DOMAIN table.freq
    BY <1>2, <1>3 DEF StreamOK
  <1>5. PICK F : F = Coded(cdfs, tokens)
    OBVIOUS
  <1>6. F[n + 1] = iv
    BY <1>1, <1>2, <1>3, <1>5 DEF Coded
  <1>7. RC!IsInterval(iv)
    BY <1>1, <1>2, <1>4, IntervalOfToken DEF Enc!Encode
  <1>8. EncoderMoves(F, K)
    BY <1>1, <1>3, <1>6, <1>7 DEF EncoderMoves
  <1>9. QED
    BY <1>1, <1>5, <1>8

LEMMA ReencodeTokenInv ==
  ASSUME StreamInv, ReencodeToken
  PROVE  StreamInv'
  <1>1. /\ StreamOK /\ Standing /\ phase = "reencode" /\ phase' = "reencode" /\ StreamKept
        /\ dinput' = dinput /\ out' = out /\ verdict' = verdict
    BY DEF StreamInv, ReencodeToken, StreamKept, decVars
  <1>2. ASSUME out = tokens PROVE EncoderMoves(Coded(cdfs, tokens), Len(tokens))
    <2>1. PICK m \in Nat : \E tr : StandingOn(tr, m)
      BY <1>1 DEF Standing
    <2>2. PICK tr : StandingOn(tr, m)
      BY <2>1
    <2>3. PICK j \in 0 .. m : ReencoderAt(tr[j])
      BY <1>1, <1>2, <2>2 DEF StandingOn
    <2>4. ecount \in 0 .. Len(tokens)
      BY <2>2, <2>3, ReencoderCounts DEF StandingOn
    <2>5. PICK iv : iv = IntervalOf(cdfs[ecount + 1], tokens[ecount + 1])
      OBVIOUS
    <2>6. ecount < Len(tokens) /\ Enc!Encode(iv.cum, iv.freq, iv.total)
      BY <1>2, <2>5 DEF ReencodeToken
    <2>7. QED
      BY <1>1, <2>4, <2>5, <2>6, EncodesNext
  <1>3. QED
    BY <1>1, <1>2, ReencodingGoesOn

LEMMA ReencodeFinishInv ==
  ASSUME StreamInv, ReencodeFinish
  PROVE  StreamInv'
  <1>1. /\ phase = "reencode" /\ phase' = "reencode" /\ StreamKept
        /\ dinput' = dinput /\ out' = out /\ verdict' = verdict
        /\ ecount = Len(out) /\ Enc!Finish
    BY DEF ReencodeFinish, StreamKept, decVars
  <1>2. out = tokens => EncoderMoves(Coded(cdfs, tokens), Len(tokens))
    BY <1>1 DEF EncoderMoves
  <1>3. QED
    BY <1>1, <1>2, ReencodingGoesOn

LEMMA CompareInv ==
  ASSUME StreamInv, Compare
  PROVE  StreamInv'
  <1>1. /\ StreamOK /\ Standing /\ Returned /\ phase = "reencode" /\ phase' = "done"
        /\ StreamKept /\ dinput' = dinput /\ out' = out /\ epc = "finished"
        /\ verdict' = IF eout = dinput THEN "Ok" ELSE "NonCanonicalPayload"
    BY DEF StreamInv, Compare, Give, StreamKept, decVars
  <1>2. ASSUME out = tokens PROVE eout = sent
    <2>1. PICK m \in Nat : \E tr : StandingOn(tr, m)
      BY <1>1 DEF Standing
    <2>2. PICK tr : StandingOn(tr, m)
      BY <2>1
    <2>3. PICK j \in 0 .. m : ReencoderAt(tr[j])
      BY <1>1, <1>2, <2>2 DEF StandingOn
    <2>4. QED
      BY <1>1, <2>2, <2>3, ReencodingEnds DEF StandingOn, Standing
  <1>3. Prefix => dinput = sent /\ out = tokens
    BY <1>1 DEF Returned
  <1>4. Returned'
    BY <1>1, <1>2, <1>3, PrefixKept DEF Returned, StreamKept
  <1>5. QED
    BY <1>1, <1>4, ReturnedInv

LEMMA StreamNextInv == StreamInv /\ [Next]_vars => StreamInv'
  <1> SUFFICES ASSUME StreamInv, [Next]_vars PROVE StreamInv'
    OBVIOUS
  <1>1. CASE \E table \in Tables : \E token \in DOMAIN table.freq : EncodeToken(table, token)
    BY <1>1, EncodeTokenInv
  <1>2. CASE EncoderRuns
    BY <1>2, EncoderRunsInv
  <1>3. CASE FinishStream
    BY <1>3, FinishStreamInv
  <1>4. CASE Deliver
    BY <1>4, DeliverInv
  <1>5. CASE DecoderRuns
    BY <1>5, DecoderRunsInv
  <1>6. CASE DecoderEof
    BY <1>6, DecoderEofInv
  <1>7. CASE DecodeValue
    BY <1>7, DecodeValueInv
  <1>8. CASE DecodeSymbol
    BY <1>8, DecodeSymbolInv
  <1>9. CASE Reencode
    BY <1>9, ReencodeInv
  <1>10. CASE ReencodeToken
    BY <1>10, ReencodeTokenInv
  <1>11. CASE ReencodeFinish
    BY <1>11, ReencodeFinishInv
  <1>12. CASE Compare
    BY <1>12, CompareInv
  <1>13. CASE UNCHANGED vars
    BY <1>13 DEF vars, encVars, decVars, StreamInv, StreamOK, Encoding, IsEncoding, EncoderAt,
      EncoderTurn, Standing, StandingOn, Coding, Prefix, DecoderAt, Opening, Underway, Decoded,
      PendingAt, NextTable, ReencoderAt, Returned
  <1>14. QED
    BY <1>1, <1>2, <1>3, <1>4, <1>5, <1>6, <1>7, <1>8, <1>9, <1>10, <1>11, <1>12, <1>13
    DEF Next

LEMMA StreamInvariance == Spec => []StreamInv
  BY StreamInit, StreamNextInv, PTL DEF Spec

-----------------------------------------------------------------------------
LEMMA DecodedIsPrefix ==
  ASSUME tokens \in Seq(Nat), NEW n, Decoded(n)
  PROVE  IsPrefixOf(out, tokens)
  BY DEF Decoded, IsPrefixOf

LEMMA SentIsPrefix ==
  ASSUME sent \in Seq(RC!Digit), dinput = sent
  PROVE  Prefix
  BY DEF Prefix, RC!Agree

(***************************************************************************)
(* The payload that was sent decodes, token by token, to the tokens that   *)
(* were encoded, and decode_token_stream accepts it: for every base and    *)
(* word size, for any valid tables and any number of tokens.               *)
(***************************************************************************)
THEOREM StreamRoundTrips == Spec => []RoundTrip
  <1>1. StreamInv => RoundTrip
    <2> SUFFICES ASSUME StreamInv, phase # "encode", dinput = sent
                 PROVE  /\ IsPrefixOf(out, tokens)
                        /\ phase = "done" => verdict = "Ok" /\ out = tokens
      BY DEF RoundTrip
    <2>1. StreamOK /\ Standing /\ Returned /\ sent \in Seq(RC!Digit) /\ tokens \in Seq(Nat)
      BY DEF StreamInv, StreamOK, Standing
    <2>2. Prefix
      BY <2>1, SentIsPrefix
    <2>3. out = tokens => IsPrefixOf(out, tokens)
      BY <2>1 DEF IsPrefixOf
    <2>4. CASE phase = "decode"
      <3>1. PICK m \in Nat : \E tr : StandingOn(tr, m)
        BY <2>1 DEF Standing
      <3>2. PICK tr : StandingOn(tr, m)
        BY <3>1
      <3>3. PICK j \in 0 .. m : DecoderAt(tr[j])
        BY <2>2, <2>4, <3>2 DEF StandingOn
      <3>4. CASE Opening(tr[j])
        <4>1. out = <<>>
          BY <3>4 DEF Opening
        <4>2. Decoded(0)
          BY <2>1, <4>1 DEF Decoded
        <4>3. QED
          BY <2>1, <2>4, <4>2, DecodedIsPrefix
      <3>5. CASE Underway(tr[j])
        BY <2>1, <2>4, <3>5, DecodedIsPrefix DEF Underway
      <3>6. QED
        BY <3>3, <3>4, <3>5 DEF DecoderAt
    <2>5. CASE phase \in {"reencode", "done"}
      BY <2>1, <2>2, <2>3, <2>5 DEF Returned
    <2>6. QED
      BY <2>4, <2>5 DEF StreamInv
  <1>2. QED
    BY <1>1, StreamInvariance, PTL

(***************************************************************************)
(* A payload cut anywhere ends in UnexpectedEof, never in tokens: the      *)
(* decoder reads every digit of it before it returns its last token.       *)
(***************************************************************************)
THEOREM TruncationIsSeen == Spec => []TruncationSeen
  <1>1. StreamInv => TruncationSeen
    <2> SUFFICES ASSUME StreamInv, phase = "done", dinput \in Truncated(sent)
                 PROVE  verdict = "UnexpectedEof"
      BY DEF TruncationSeen
    <2>1. Returned /\ sent \in Seq(RC!Digit)
      BY DEF StreamInv, Standing
    <2>2. PICK n \in 0 .. Len(sent) - 1 : dinput = SubSeq(sent, 1, n)
      BY DEF Truncated
    <2>3. /\ dinput \in Seq(RC!Digit) /\ Len(dinput) = n /\ n < Len(sent)
          /\ \A i \in 1 .. n : dinput[i] = sent[i]
      BY <2>1, <2>2
    <2>4. Prefix /\ dinput # sent
      BY <2>1, <2>3 DEF Prefix, RC!Agree
    <2>5. QED
      BY <2>1, <2>4 DEF Returned
  <1>2. QED
    BY <1>1, StreamInvariance, PTL

(***************************************************************************)
(* Whatever was delivered: if it is accepted and decodes to the tokens     *)
(* that were sent, it is the payload that was sent.                        *)
(***************************************************************************)
THEOREM PayloadIsCanonical == Spec => []OnePayloadPerStream
  <1>1. StreamInv => OnePayloadPerStream
    BY DEF StreamInv, Returned, OnePayloadPerStream
  <1>2. QED
    BY <1>1, StreamInvariance, PTL
=============================================================================
