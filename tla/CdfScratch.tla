----------------------------- MODULE CdfScratch -----------------------------
(***************************************************************************)
(* The ways det-coder/src/cdf.rs answers about the distribution of one row *)
(* of logits: the full table, the encoder's scan for the interval of one   *)
(* symbol, and the decoder's distribution and its scan for one value.      *)
(* They must agree, since the encoder takes one and the decoder another,   *)
(* and they share a scratch that a call leaves as the next one finds it,   *)
(* after an error too.                                                     *)
(*                                                                         *)
(* Logits are abstracted to the weights trunc(p * M) that every path       *)
(* computes from them by the same expressions; which error a call returns  *)
(* is not told apart.                                                      *)
(***************************************************************************)
EXTENDS Cdf

CONSTANTS
  Logits,      \* the rows of logits that calls are made with
  NonFinite,   \* a logit that is infinite or not a number
  Tails        \* symbols after the vocabulary: none, or the byte escapes

ASSUME ScratchAssumption ==
  /\ NonFinite \notin Nat
  /\ Logits \subseteq Seq(Nat \cup {NonFinite})
  /\ Tails \subseteq Nat

VARIABLES
  exp, cdf, decoder_freq,   \* the scratch
  call, answer              \* the last call and what it returned

scratch == <<exp, cdf, decoder_freq>>
scratchVars == <<exp, cdf, decoder_freq, call, answer>>

Refused == [refused |-> TRUE]
NoCall  == [op |-> "none"]

Call(op, weights, tail, arg) ==
  [op |-> op, weights |-> weights, tail |-> tail, arg |-> arg]

ScratchInit ==
  /\ exp = <<>>
  /\ cdf = [freq |-> <<>>, cum |-> <<>>, total |-> 0]
  /\ decoder_freq = <<>>
  /\ call = NoCall
  /\ answer = Refused

-----------------------------------------------------------------------------
(***************************************************************************)
(* What the three paths share: the checks on the logits, the fill of the   *)
(* exp scratch, and the frequency of a weight.                             *)
(***************************************************************************)
Accepted(weights, tail) ==
  /\ weights # <<>>
  /\ Len(weights) + tail <= SymbolLimit
  /\ \A i \in DOMAIN weights : weights[i] # NonFinite

\* fill_exp_scratch: what is left of the row before is resized, then every slot beside a weight is overwritten.
Resized(old, n) == [i \in 1 .. n |-> IF i <= Len(old) THEN old[i] ELSE 0]
Filled(old, weights) ==
  LET slots == Resized(old, Len(weights))
  IN  [i \in 1 .. Len(slots) |-> IF i <= Len(weights) THEN weights[i] ELSE slots[i]]

\* Mutated form: what was there is not cleared.
Appended(old, values) == old \o values

\* clear, and a push for each value.
Rewritten(old, values) == <<>> \o values

Freqs(e) == [i \in 1 .. Len(e) |-> e[i] + 1]

(***************************************************************************)
(* logits_to_cdf_with_scratch and append_uniform_tail.  A total that is    *)
(* too large is seen when the new table is in the scratch, under the old   *)
(* total; one that only the tail makes too large, before the tail is.      *)
(***************************************************************************)
WithTail(table, tail) ==
  [freq  |-> table.freq \o [i \in 1 .. tail |-> 1],
   cum   |-> table.cum \o [i \in 1 .. tail |-> table.total + i - 1],
   total |-> table.total + tail]

FullTable(weights, tail) ==
  /\ call' = Call("table", weights, tail, 0)
  /\ UNCHANGED decoder_freq
  /\ IF ~Accepted(weights, tail)
     THEN answer' = Refused /\ UNCHANGED <<exp, cdf>>
     ELSE /\ exp' = Filled(exp, weights)
          /\ LET built == TableOf(Freqs(exp'))
                 table == [freq |-> Rewritten(cdf.freq, built.freq), cum |-> Rewritten(cdf.cum, built.cum),
                           total |-> built.total]
             IN  IF table.total >= TotalLimit
                 THEN answer' = Refused /\ cdf' = [table EXCEPT !.total = cdf.total]
                 ELSE IF table.total + tail >= TotalLimit
                 THEN answer' = Refused /\ cdf' = table
                 ELSE cdf' = WithTail(table, tail) /\ answer' = cdf'

(***************************************************************************)
(* logits_to_symbol_range_impl: one pass that notes the running total when *)
(* it meets the symbol; the tail's symbols follow the vocabulary's.        *)
(***************************************************************************)
EncoderScan(freq, symbol) ==
  LET scan[i \in 0 .. Len(freq)] ==
        IF i = 0 THEN [total |-> 0, cum |-> 0]
        ELSE [total |-> scan[i - 1].total + freq[i],
              cum   |-> IF i = symbol THEN scan[i - 1].total ELSE scan[i - 1].cum]
  IN  scan[Len(freq)]

SymbolRange(weights, tail, symbol) ==
  /\ call' = Call("range", weights, tail, symbol)
  /\ UNCHANGED <<cdf, decoder_freq>>
  /\ IF ~Accepted(weights, tail) \/ symbol > Len(weights) + tail
     THEN answer' = Refused /\ UNCHANGED exp
     ELSE /\ exp' = Filled(exp, weights)
          /\ LET freq  == Freqs(exp')
                 scan  == EncoderScan(freq, symbol)
                 total == scan.total + tail
             IN  answer' =
                   IF total >= TotalLimit THEN Refused
                   ELSE IF symbol <= Len(weights)
                   THEN [cum |-> scan.cum, freq |-> freq[symbol], total |-> total]
                   ELSE [cum |-> scan.total + (symbol - Len(weights) - 1),
                         freq |-> 1, total |-> total]

(***************************************************************************)
(* logits_to_decoder_distribution_impl and DecoderDistribution's           *)
(* symbol_range, which stops at the first symbol whose end is past the     *)
(* value, and counts into the tail when there is none.                     *)
(***************************************************************************)
\* Mutated form: the scan goes on when the value is the next symbol's start.
DecoderScanPast(freq, value) ==
  LET scan[i \in 0 .. Len(freq)] ==
        IF i = 0 THEN [symbol |-> 0, cum |-> 0]
        ELSE IF scan[i - 1].symbol # 0 THEN scan[i - 1]
        ELSE IF value <= scan[i - 1].cum + freq[i] THEN [scan[i - 1] EXCEPT !.symbol = i]
        ELSE [scan[i - 1] EXCEPT !.cum = @ + freq[i]]
  IN  scan[Len(freq)]

DecoderScan(freq, value) ==
  LET scan[i \in 0 .. Len(freq)] ==
        IF i = 0 THEN [symbol |-> 0, cum |-> 0]
        ELSE IF scan[i - 1].symbol # 0 THEN scan[i - 1]
        ELSE IF value < scan[i - 1].cum + freq[i] THEN [scan[i - 1] EXCEPT !.symbol = i]
        ELSE [scan[i - 1] EXCEPT !.cum = @ + freq[i]]
  IN  scan[Len(freq)]

SymbolOfValue(weights, tail, value) ==
  /\ call' = Call("value", weights, tail, value)
  /\ UNCHANGED cdf
  /\ IF ~Accepted(weights, tail)
     THEN answer' = Refused /\ UNCHANGED <<exp, decoder_freq>>
     ELSE /\ exp' = Filled(exp, weights)
          /\ decoder_freq' = Rewritten(decoder_freq, Freqs(exp'))
          /\ LET freq  == decoder_freq'
                 total == EncoderScan(Freqs(exp'), 0).total + tail
                 scan  == DecoderScan(freq, value)
             IN  answer' =
                   IF total >= TotalLimit \/ value >= total THEN Refused
                   ELSE IF scan.symbol # 0
                   THEN [symbol |-> scan.symbol,
                         range |-> [cum |-> scan.cum, freq |-> freq[scan.symbol],
                                    total |-> total]]
                   ELSE [symbol |-> Len(freq) + (value - scan.cum) + 1,
                         range |-> [cum |-> value, freq |-> 1, total |-> total]]

ScratchNext ==
  \E weights \in Logits, tail \in Tails :
    \/ FullTable(weights, tail)
    \/ \E symbol \in 1 .. SymbolLimit + 1 : SymbolRange(weights, tail, symbol)
    \/ \E value \in 0 .. TotalLimit : SymbolOfValue(weights, tail, value)

ScratchSpec == ScratchInit /\ [][ScratchNext]_scratchVars

-----------------------------------------------------------------------------
(***************************************************************************)
(* The table of a row of logits, without scratch or error paths, and what  *)
(* each call should return by it.                                          *)
(***************************************************************************)
RowTable(weights, tail) == TableOf(Freqs(weights) \o [i \in 1 .. tail |-> 1])

AnswerOf(c) ==
  IF ~Accepted(c.weights, c.tail) THEN Refused
  ELSE LET table == RowTable(c.weights, c.tail)
       IN  IF table.total >= TotalLimit THEN Refused
           ELSE IF c.op = "table" THEN table
           ELSE IF c.op = "range"
           THEN IF c.arg > Len(table.freq) THEN Refused ELSE IntervalOf(table, c.arg)
           ELSE IF c.arg >= table.total THEN Refused
           ELSE [symbol |-> SymbolFor(table, c.arg),
                 range |-> IntervalOf(table, SymbolFor(table, c.arg))]

(***************************************************************************)
(* The encoder's scan, the decoder's scan and the binary search in the     *)
(* full table give one interval for one symbol, and refuse the same rows,  *)
(* whatever calls came before and however they ended.                      *)
(***************************************************************************)
PathsAgree == call # NoCall => answer = AnswerOf(call)
=============================================================================
