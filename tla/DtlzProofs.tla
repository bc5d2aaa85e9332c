----------------------------- MODULE DtlzProofs -----------------------------
(***************************************************************************)
(* The file format: what compress writes decompress restores, and what it  *)
(* accepts of a file that was damaged.                                     *)
(*                                                                         *)
(* compress and decompress drive the coder the way a token stream does     *)
(* whose tokens are the symbols of the input and whose tables are the      *)
(* model's for the window before each, so the lemmas of TokenStreamProofs  *)
(* about the encoder, the decoder Digits digits behind it and the second   *)
(* encoder apply to them.  What is added here: the symbols of an input     *)
(* walk over it from its first byte to its end, and the decoder's context  *)
(* and bytes are those before the symbol it is about to decode, so that    *)
(* it looks up the table the encoder did and stops, by orig_len alone,     *)
(* behind the last symbol.                                                 *)
(***************************************************************************)
EXTENDS Dtlz, NumberLemmas, SequenceTheorems

\* The table of the symbol behind the tokens before, under the header h.
TableUnder(h, before) ==
  Tables[<<h.model, h.escapes, Window(h.n_ctx, h.overlap)!WindowOf(before)>>]

\* The header compress wrote, and the symbols it has coded so far.
Header == IF phase = "compress" THEN header ELSE written.header

Given == IF phase = "compress" THEN SubSeq(symbols, 1, ecount) ELSE symbols

GivenTables ==
  [k \in 1 .. Len(Given) |-> TableUnder(Header, TokensBefore(symbols, k - 1))]

TS == INSTANCE TokenStreamProofs WITH
  Tables <- { Tables[k] : k \in DOMAIN Tables },
  MaxTokens <- MaxSymbols,
  phase <- IF phase = "decompress" THEN "decode" ELSE phase,
  cdfs <- GivenTables, tokens <- Given, sent <- written.payload, out <- decoded

\* Both copies of the table operators are the same.
LEMMA SameTables ==
  /\ \A freq : Starts(freq) = TS!Starts(freq)
  /\ \A table : ValidTable(table) <=> TS!ValidTable(table)
  /\ \A table, n : IntervalOf(table, n) = TS!IntervalOf(table, n)
  /\ \A table, n : SymbolFor(table, n) = TS!SymbolFor(table, n)
  <1>1. \A freq : Starts(freq) = TS!Starts(freq)
    BY DEF Starts, TS!Starts
  <1>2. \A table : ValidTable(table) <=> TS!ValidTable(table)
    BY <1>1 DEF ValidTable, TS!ValidTable
  <1>3. \A table, n : IntervalOf(table, n) = TS!IntervalOf(table, n)
    BY DEF IntervalOf, TS!IntervalOf
  <1>4. \A table, n : SymbolFor(table, n) = TS!SymbolFor(table, n)
    BY DEF SymbolFor, PartitionPoint, TS!SymbolFor, TS!PartitionPoint
  <1>5. QED
    BY <1>1, <1>2, <1>3, <1>4

\* A valid table over n symbols.
TypesOK(table, n) ==
  /\ table.freq \in Seq(Nat) /\ table.cum \in Seq(Nat) /\ table.total \in Nat
  /\ Len(table.freq) = n
  /\ ValidTable(table)

NumSymbols(escapes) == VocabLen + (IF escapes THEN NumBytes ELSE 0)

LEMMA TableTypes ==
  ASSUME NEW k \in DOMAIN Tables
  PROVE  TypesOK(Tables[k], NumSymbols(k[2]))
  <1>0. PICK model \in Models, escapes \in BOOLEAN, window \in Windows :
          k[1] = model /\ k[2] = escapes /\ k[3] = window
    BY DEF Tables
  <1>2. PICK V \in Nat, B \in Nat : V = VocabLen /\ B = NumBytes /\ Tokens = 1 .. V
    BY CodecAssumption DEF VocabLen, Tokens
  <1>3. PICK n \in Nat : n = (IF escapes THEN NumBytes ELSE 0)
    BY <1>2
  <1>4. PICK w : w = IF window = <<>> THEN [t \in Tokens |-> 1] ELSE Weights(model, window)
    OBVIOUS
  <1>5. w \in [1 .. V -> Nat]
    <2>1. CASE window = <<>>
      BY <1>2, <1>4, <2>1
    <2>2. CASE window # <<>>
      BY <1>2, <1>4, <2>2, DtlzAssumption
    <2>3. QED
      BY <2>1, <2>2
  <1>6. w \in Seq(Nat) /\ Len(w) = V
    BY <1>5
  <1>7. PICK e : e = [b \in 1 .. n |-> 1]
    OBVIOUS
  <1>8. e \in Seq(Nat) /\ Len(e) = n
    BY <1>7
  <1>9. PICK freq : freq = w \o e
    OBVIOUS
  <1>10. freq \in Seq(Nat) /\ Len(freq) = V + n
    BY <1>6, <1>8, <1>9, ConcatProperties
  <1>11. Tables[k] = TableOf(freq)
    BY <1>0, <1>3, <1>4, <1>7, <1>9 DEF Tables, TableFor
  <1>12. \A i \in 1 .. Len(freq) + 1 : Starts(freq)[i] \in Nat
    <2>1. Starts(freq) = RunningTotal(freq)
      BY DEF Starts, RunningTotal
    <2>2. QED
      BY <1>10, <2>1, TotalsGrow
  <1>13. TableOf(freq).cum \in Seq(Nat) /\ TableOf(freq).total \in Nat /\ TableOf(freq).freq = freq
    BY <1>12, <1>10 DEF TableOf
  <1>14. QED
    BY <1>0, <1>2, <1>3, <1>10, <1>11, <1>13, DtlzAssumption DEF TypesOK, NumSymbols

\* What the stream's lemmas ask of the coder and of the tables.
LEMMA StreamAssumption == TS!TokenStreamAssumption /\ TS!CdfAssumption
  <1>1. TS!Enc!RangeCoderAssumption
    BY DtlzAssumption
    DEF Enc!RangeCoderAssumption, Enc!Word, Enc!Top, Enc!Power,
        TS!Enc!RangeCoderAssumption, TS!Enc!Word, TS!Enc!Top, TS!Enc!Power
  <1>2. ASSUME NEW table \in { Tables[k] : k \in DOMAIN Tables }
        PROVE  /\ table.freq \in Seq(Nat) /\ table.cum \in Seq(Nat) /\ table.total \in Nat
               /\ TS!ValidTable(table)
    <2>1. PICK k \in DOMAIN Tables : table = Tables[k]
      OBVIOUS
    <2>2. QED
      BY <2>1, TableTypes, SameTables DEF TypesOK
  <1>3. QED
    BY <1>1, <1>2, DtlzAssumption, CdfAssumption DEF TS!TokenStreamAssumption, TS!CdfAssumption

-----------------------------------------------------------------------------
(***************************************************************************)
(* The codec.  Every symbol of an input stands for the bytes at its place, *)
(* and the next one starts behind them.                                    *)
(***************************************************************************)
\* The piece at a position, and where the one after it starts.
Stands(bytes_, pos, symbol) ==
  LET n == Len(PieceOf(symbol))
  IN  /\ symbol \in Symbols
      /\ n \in 1 .. Len(bytes_) + 1 - pos
      /\ PieceOf(symbol) = SubSeq(bytes_, pos, pos + n - 1)

LEMMA OneByte ==
  ASSUME NEW all \in Seq(Bytes), NEW pos \in 1 .. Len(all), NEW symbol \in Symbols,
         PieceOf(symbol) = <<all[pos]>>
  PROVE  Stands(all, pos, symbol)
  <1>1. Len(PieceOf(symbol)) = 1
    OBVIOUS
  <1>2. SubSeq(all, pos, pos + 1 - 1) = <<all[pos]>>
    <2>1. pos \in Nat /\ pos + 1 - 1 = pos
      OBVIOUS
    <2>2. SubSeq(all, pos, pos) = <<all[pos]>>
      <3>1. SubSeq(all, pos, pos) = <<all[pos]>> \o SubSeq(all, pos + 1, pos)
        BY SubSeqRecursiveFirst
      <3>2. SubSeq(all, pos + 1, pos) = <<>>
        BY <2>1, SubSeqEmpty
      <3>3. <<all[pos]>> \o <<>> = <<all[pos]>>
        OBVIOUS
      <3>4. QED
        BY <3>1, <3>2, <3>3
    <2>3. QED
      BY <2>1, <2>2
  <1>3. QED
    BY <1>1, <1>2 DEF Stands

LEMMA SymbolStands ==
  ASSUME NEW all \in Seq(Bytes), NEW pos \in 1 .. Len(all)
  PROVE  Stands(all, pos, SymbolAt(all, pos))
  <1>1. PICK b \in Bytes : b = all[pos]
    OBVIOUS
  <1>2. VocabLen \in Nat /\ NumBytes \in Nat
    BY CodecAssumption DEF VocabLen
  <1>3. CASE ~ HasSingleByteToken(all[pos])
    <2>1. PICK e : e = VocabLen + b
      OBVIOUS
    <2>2. e \in Symbols /\ ~ IsToken(e) /\ e - VocabLen = b
      BY <1>2, <2>1 DEF Symbols, IsToken, Bytes
    <2>3. SymbolAt(all, pos) = e
      BY <1>1, <1>3, <2>1 DEF SymbolAt, Escape
    <2>4. PieceOf(e) = <<b>>
      BY <2>2 DEF PieceOf
    <2>5. QED
      BY <1>1, <2>2, <2>3, <2>4, OneByte
  <1>4. CASE HasSingleByteToken(all[pos]) /\ \E t \in Emits : Fits(all, pos, t)
    <2> DEFINE S == { u \in Emits : Fits(all, pos, u) }
    <2>1. PICK N \in Nat : N = Len(all)
      OBVIOUS
    <2>2. ASSUME NEW u \in S
          PROVE  /\ Len(Pieces[u]) \in Nat /\ Len(Pieces[u]) > 1
                 /\ pos + Len(Pieces[u]) - 1 <= N
                 /\ u \in Tokens
      <3>1. u \in Tokens /\ Pieces[u] \in Seq(Bytes)
        BY CodecAssumption DEF Tokens, VocabLen
      <3>2. QED
        BY <2>1, <3>1 DEF Fits
    <2>3. PICK f : f = [u \in S |-> Len(Pieces[u])]
      OBVIOUS
    <2>4. f \in [S -> 0 .. N]
      BY <2>1, <2>2, <2>3
    <2>5. S # {}
      BY <1>4
    <2> HIDE DEF S
    <2>6. \E t \in S : \A u \in S : f[u] <= f[t]
      BY <2>4, <2>5, HasLargest
    <2>7. \E t \in S : \A u \in S : Len(Pieces[u]) <= Len(Pieces[t])
      BY <2>3, <2>6
    <2>8. \E t \in S : \A u \in Emits : Fits(all, pos, u) => Len(Pieces[u]) <= Len(Pieces[t])
      BY <2>7 DEF S
    <2>9. LongestAt(all, pos) \in S
      BY <2>8 DEF LongestAt, S
    <2>10. PICK t \in S : t = LongestAt(all, pos)
      BY <2>9
    <2>11. SymbolAt(all, pos) = t
      BY <1>4, <2>10 DEF SymbolAt
    <2>12. t \in Symbols /\ IsToken(t)
      BY <1>2, <2>2 DEF Symbols, Tokens, IsToken
    <2>13. PieceOf(t) = Pieces[t]
      BY <2>12 DEF PieceOf
    <2>14. SubSeq(all, pos, pos + Len(Pieces[t]) - 1) = Pieces[t]
      BY DEF S, Fits
    <2>15. Stands(all, pos, t)
      BY <2>1, <2>2, <2>12, <2>13, <2>14 DEF Stands
    <2>16. QED
      BY <2>11, <2>15
  <1>5. CASE HasSingleByteToken(all[pos]) /\ ~ \E t \in Emits : Fits(all, pos, t)
    <2>1. PICK t \in Tokens : t = ByteToken[b] /\ Pieces[t] = <<b>>
      BY CodecAssumption
    <2>2. t \in Symbols /\ IsToken(t)
      BY <1>2 DEF Symbols, Tokens, IsToken
    <2>3. SymbolAt(all, pos) = t
      BY <1>1, <1>5, <2>1 DEF SymbolAt
    <2>4. PieceOf(t) = <<b>>
      BY <2>1, <2>2 DEF PieceOf
    <2>5. QED
      BY <1>1, <2>2, <2>3, <2>4, OneByte
  <1>6. QED
    BY <1>3, <1>4, <1>5

\* Where the symbol behind the one at pos starts.
Behind(all, pos) == pos + Len(PieceOf(SymbolAt(all, pos)))

LEMMA BehindIsLater ==
  ASSUME NEW all \in Seq(Bytes), NEW N \in Nat, N = Len(all), NEW pos \in 1 .. N
  PROVE  /\ Behind(all, pos) \in pos + 1 .. N + 1
         /\ SymbolAt(all, pos) \in Symbols
         /\ PieceOf(SymbolAt(all, pos)) = SubSeq(all, pos, Behind(all, pos) - 1)
  <1>1. PICK s : s = SymbolAt(all, pos)
    OBVIOUS
  <1>2. Stands(all, pos, s)
    BY <1>1, SymbolStands
  <1>3. PICK piece : piece = PieceOf(s)
    OBVIOUS
  <1>4. PICK n : n = Len(piece)
    OBVIOUS
  <1>5. n \in 1 .. N + 1 - pos /\ s \in Symbols /\ piece = SubSeq(all, pos, pos + n - 1)
    BY <1>2, <1>3, <1>4 DEF Stands
  <1>6. Behind(all, pos) = pos + n
    BY <1>1, <1>3, <1>4 DEF Behind
  <1>7. QED
    BY <1>1, <1>3, <1>5, <1>6

\* The symbols from each position on, as codec_symbol_stream makes them.
IsSuffixes(from, all, first) ==
  /\ from[Len(all) + 1] = <<>>
  /\ \A pos \in first .. Len(all) : from[pos] = <<SymbolAt(all, pos)>> \o from[Behind(all, pos)]

LEMMA SuffixesExist ==
  ASSUME NEW all \in Seq(Bytes)
  PROVE  \E from : from \in [1 .. Len(all) + 1 -> { from[pos] : pos \in 1 .. Len(all) + 1 }]
                  /\ IsSuffixes(from, all, 1)
  <1>1. PICK N \in Nat : N = Len(all)
    OBVIOUS
  <1> DEFINE Defined(k) == \E from : IsSuffixes(from, all, N + 1 - k)
             T == { k \in Nat : Defined(k) }
  <1>2. Defined(0)
    <2>1. PICK from : from = [pos \in 1 .. N + 1 |-> <<>>]
      OBVIOUS
    <2>2. from[N + 1] = <<>> /\ \A pos \in N + 1 - 0 .. N : FALSE
      BY <2>1
    <2>3. IsSuffixes(from, all, N + 1 - 0)
      BY <1>1, <2>2 DEF IsSuffixes
    <2>4. QED
      BY <2>3
  <1>3. ASSUME NEW k \in 0 .. N - 1, Defined(k) PROVE Defined(k + 1)
    <2>1. PICK f : IsSuffixes(f, all, N + 1 - k)
      BY <1>3
    <2>2. PICK p \in 1 .. N : p = N + 1 - (k + 1)
      OBVIOUS
    <2>3. p + 1 = N + 1 - k
      BY <2>2
    <2>4. PICK first : first = <<SymbolAt(all, p)>> \o f[Behind(all, p)]
      OBVIOUS
    <2>5. PICK g : g = [pos \in 1 .. N + 1 |-> IF pos = p THEN first ELSE f[pos]]
      OBVIOUS
    <2>6. \A pos \in p .. N : g[Behind(all, pos)] = f[Behind(all, pos)]
      <3> SUFFICES ASSUME NEW pos \in p .. N PROVE g[Behind(all, pos)] = f[Behind(all, pos)]
        OBVIOUS
      <3>1. pos \in 1 .. N
        OBVIOUS
      <3>2. Behind(all, pos) \in pos + 1 .. N + 1
        BY <1>1, <3>1, BehindIsLater
      <3>3. Behind(all, pos) \in 1 .. N + 1 /\ Behind(all, pos) # p
        BY <3>2
      <3>4. QED
        BY <2>5, <3>3
    <2>7. \A pos \in p .. N : g[pos] = <<SymbolAt(all, pos)>> \o g[Behind(all, pos)]
      <3> SUFFICES ASSUME NEW pos \in p .. N
                   PROVE  g[pos] = <<SymbolAt(all, pos)>> \o g[Behind(all, pos)]
        OBVIOUS
      <3>1. g[Behind(all, pos)] = f[Behind(all, pos)]
        BY <2>6
      <3>2. CASE pos = p
        <4>1. g[p] = first
          BY <2>5
        <4>2. first = <<SymbolAt(all, pos)>> \o f[Behind(all, pos)]
          BY <2>4, <3>2
        <4>3. QED
          BY <3>1, <3>2, <4>1, <4>2
      <3>3. CASE pos # p
        <4>1. pos \in p + 1 .. N /\ pos \in 1 .. N + 1
          BY <3>3
        <4>2. f[pos] = <<SymbolAt(all, pos)>> \o f[Behind(all, pos)]
          BY <1>1, <2>1, <2>3, <4>1 DEF IsSuffixes
        <4>3. g[pos] = f[pos]
          BY <2>5, <3>3, <4>1
        <4>4. QED
          BY <3>1, <4>2, <4>3
      <3>4. QED
        BY <3>2, <3>3
    <2>8. g[N + 1] = <<>>
      <3>1. f[N + 1] = <<>>
        BY <1>1, <2>1 DEF IsSuffixes
      <3>2. QED
        BY <2>5, <3>1
    <2>9. IsSuffixes(g, all, p)
      BY <1>1, <2>7, <2>8 DEF IsSuffixes
    <2>10. QED
      BY <2>2, <2>9
  <1> HIDE DEF Defined
  <1>4. 0 \in T /\ \A k \in 0 .. N - 1 : k \in T => k + 1 \in T
    BY <1>2, <1>3
  <1> HIDE DEF T
  <1>5. N \in T
    <2>1. 0 .. N \subseteq T
      BY <1>4, InductionTo
    <2>2. QED
      BY <2>1
  <1>6. PICK f : IsSuffixes(f, all, N + 1 - N)
    BY <1>5 DEF T, Defined
  <1>7. N + 1 - N = 1
    OBVIOUS
  <1>8. PICK g : g = [pos \in 1 .. N + 1 |-> f[pos]]
    OBVIOUS
  <1>9. \A pos \in 1 .. N : g[pos] = <<SymbolAt(all, pos)>> \o g[Behind(all, pos)]
    <2> SUFFICES ASSUME NEW pos \in 1 .. N
                 PROVE  g[pos] = <<SymbolAt(all, pos)>> \o g[Behind(all, pos)]
      OBVIOUS
    <2>1. Behind(all, pos) \in pos + 1 .. N + 1
      BY <1>1, BehindIsLater
    <2>2. Behind(all, pos) \in 1 .. N + 1
      BY <2>1
    <2>3. f[pos] = <<SymbolAt(all, pos)>> \o f[Behind(all, pos)]
      BY <1>1, <1>6, <1>7 DEF IsSuffixes
    <2>4. QED
      BY <1>8, <2>2, <2>3
  <1>10. g[N + 1] = <<>>
    BY <1>1, <1>6, <1>8 DEF IsSuffixes
  <1>11. IsSuffixes(g, all, 1)
    BY <1>1, <1>9, <1>10 DEF IsSuffixes
  <1>12. g \in [1 .. Len(all) + 1 -> { g[pos] : pos \in 1 .. Len(all) + 1 }]
    BY <1>1, <1>8
  <1>13. QED
    BY <1>11, <1>12

LEMMA SymbolsAreSuffix ==
  ASSUME NEW all \in Seq(Bytes)
  PROVE  \E from : CodecSymbols(all) = from[1] /\ IsSuffixes(from, all, 1)
  <1> DEFINE E(f) == [pos \in 1 .. Len(all) + 1 |->
                       IF pos > Len(all) THEN <<>>
                       ELSE <<SymbolAt(all, pos)>> \o f[Behind(all, pos)]]
             from == CHOOSE f : f = E(f)
  <1>1. CodecSymbols(all) = from[1]
    BY DEF CodecSymbols, Behind
  <1>2. PICK N \in Nat : N = Len(all)
    OBVIOUS
  <1>3. PICK g : g \in [1 .. N + 1 -> { g[pos] : pos \in 1 .. N + 1 }] /\ IsSuffixes(g, all, 1)
    BY <1>2, SuffixesExist
  <1>4. g = E(g)
    <2>1. ASSUME NEW pos \in 1 .. N + 1 PROVE g[pos] = E(g)[pos]
      <3>1. CASE pos \in 1 .. N
        <4>1. g[pos] = <<SymbolAt(all, pos)>> \o g[Behind(all, pos)]
          BY <1>2, <1>3, <3>1 DEF IsSuffixes
        <4>2. pos \in 1 .. Len(all) + 1 /\ ~ (pos > Len(all))
          BY <1>2, <3>1
        <4>3. E(g)[pos] = <<SymbolAt(all, pos)>> \o g[Behind(all, pos)]
          BY <4>2
        <4>4. QED
          BY <4>1, <4>3
      <3>2. CASE pos = N + 1
        <4>1. g[pos] = <<>>
          BY <1>2, <1>3, <3>2 DEF IsSuffixes
        <4>2. pos \in 1 .. Len(all) + 1 /\ pos > Len(all)
          BY <1>2, <3>2
        <4>3. E(g)[pos] = <<>>
          BY <4>2
        <4>4. QED
          BY <4>1, <4>3
      <3>3. QED
        BY <3>1, <3>2
    <2>2. QED
      BY <1>2, <1>3, <2>1
  <1> HIDE DEF E
  <1>5. from = E(from)
    BY <1>4
  <1> HIDE DEF from
  <1>6. from[N + 1] = <<>>
    <2>1. E(from)[N + 1] = <<>>
      BY <1>2 DEF E
    <2>2. QED
      BY <1>5, <2>1
  <1>7. ASSUME NEW pos \in 1 .. N
        PROVE  from[pos] = <<SymbolAt(all, pos)>> \o from[Behind(all, pos)]
    <2>1. E(from)[pos] = <<SymbolAt(all, pos)>> \o from[Behind(all, pos)]
      BY <1>2 DEF E
    <2>2. QED
      BY <1>5, <2>1
  <1>8. IsSuffixes(from, all, 1)
    BY <1>2, <1>6, <1>7 DEF IsSuffixes
  <1>9. QED
    BY <1>1, <1>8

(***************************************************************************)
(* The places the symbols of an input stand at: from its first byte to its *)
(* end, each where the piece of the one before ends.                       *)
(***************************************************************************)
IsWalk(at, all, N, first, syms, n) ==
  /\ syms \in Seq(Symbols) /\ n \in Nat /\ Len(syms) = n
  /\ at[0] = first /\ at[n] = N + 1
  /\ \A k \in 0 .. n : at[k] \in first .. N + 1
  /\ \A k \in 1 .. n : at[k - 1] < at[k] /\ PieceOf(syms[k]) = SubSeq(all, at[k - 1], at[k] - 1)

LEMMA WalkLonger ==
  ASSUME NEW all \in Seq(Bytes), NEW N \in Nat, N = Len(all), NEW pos \in 1 .. N,
         NEW at, NEW syms, NEW n, IsWalk(at, all, N, Behind(all, pos), syms, n)
  PROVE  \E at2 : IsWalk(at2, all, N, pos, <<SymbolAt(all, pos)>> \o syms, n + 1)
  <1>1. PICK s \in Symbols : s = SymbolAt(all, pos)
    BY BehindIsLater
  <1>2. PICK next \in pos + 1 .. N + 1 : next = Behind(all, pos)
    BY BehindIsLater
  <1>3. PieceOf(s) = SubSeq(all, pos, next - 1)
    BY <1>1, <1>2, BehindIsLater
  <1>4. PICK more : more = <<s>> \o syms
    OBVIOUS
  <1>5. syms \in Seq(Symbols) /\ n \in Nat /\ Len(syms) = n
    BY DEF IsWalk
  <1>6. more \in Seq(Symbols) /\ Len(more) = n + 1 /\ more[1] = s
        /\ \A k \in 2 .. n + 1 : more[k] = syms[k - 1]
    <2>1. <<s>> \in Seq(Symbols) /\ Len(<<s>>) = 1
      OBVIOUS
    <2>2. QED
      BY <1>4, <1>5, <2>1, ConcatProperties
  <1>7. /\ at[0] = next /\ at[n] = N + 1
        /\ \A k \in 0 .. n : at[k] \in next .. N + 1
        /\ \A k \in 1 .. n : at[k - 1] < at[k] /\ PieceOf(syms[k]) = SubSeq(all, at[k - 1], at[k] - 1)
    BY <1>2 DEF IsWalk
  <1>8. PICK at2 : at2 = [k \in 0 .. n + 1 |-> IF k = 0 THEN pos ELSE at[k - 1]]
    OBVIOUS
  <1>9. at2[0] = pos /\ \A k \in 1 .. n + 1 : at2[k] = at[k - 1]
    BY <1>5, <1>8
  <1>10. n + 1 \in Nat /\ at2[n + 1] = N + 1
    BY <1>5, <1>7, <1>9
  <1>11. \A k \in 0 .. n + 1 : at2[k] \in pos .. N + 1
    <2> SUFFICES ASSUME NEW k \in 0 .. n + 1 PROVE at2[k] \in pos .. N + 1
      OBVIOUS
    <2>1. CASE k = 0
      BY <1>9, <2>1
    <2>2. CASE k # 0
      <3>1. k - 1 \in 0 .. n /\ k \in 1 .. n + 1
        BY <1>5, <2>2
      <3>2. at2[k] = at[k - 1] /\ at[k - 1] \in next .. N + 1
        BY <1>7, <1>9, <3>1
      <3>3. QED
        BY <3>2
    <2>3. QED
      BY <2>1, <2>2
  <1>12. \A k \in 1 .. n + 1 :
            at2[k - 1] < at2[k] /\ PieceOf(more[k]) = SubSeq(all, at2[k - 1], at2[k] - 1)
    <2> SUFFICES ASSUME NEW k \in 1 .. n + 1
                 PROVE  at2[k - 1] < at2[k]
                        /\ PieceOf(more[k]) = SubSeq(all, at2[k - 1], at2[k] - 1)
      OBVIOUS
    <2>1. CASE k = 1
      <3>1. at2[k - 1] = pos /\ at2[k] = next /\ more[k] = s
        BY <1>5, <1>6, <1>7, <1>9, <2>1
      <3>2. QED
        BY <1>3, <3>1
    <2>2. CASE k # 1
      <3>1. k - 1 \in 1 .. n /\ k \in 2 .. n + 1 /\ k - 1 \in 1 .. n + 1
        BY <1>5, <2>2
      <3>2. at2[k] = at[k - 1] /\ at2[k - 1] = at[(k - 1) - 1] /\ more[k] = syms[k - 1]
        BY <1>6, <1>9, <3>1
      <3>3. QED
        BY <1>7, <3>1, <3>2
    <2>3. QED
      BY <2>1, <2>2
  <1>13. IsWalk(at2, all, N, pos, more, n + 1)
    BY <1>6, <1>9, <1>10, <1>11, <1>12 DEF IsWalk
  <1>14. QED
    BY <1>1, <1>4, <1>13

LEMMA CodecWalk ==
  ASSUME NEW all \in Seq(Bytes)
  PROVE  \E at, n : IsWalk(at, all, Len(all), 1, CodecSymbols(all), n)
  <1>1. PICK N \in Nat : N = Len(all)
    OBVIOUS
  <1>2. PICK from : CodecSymbols(all) = from[1] /\ IsSuffixes(from, all, 1)
    BY SymbolsAreSuffix
  <1> DEFINE Walked(pos) == \E at, n : IsWalk(at, all, N, pos, from[pos], n)
             T == { k \in Nat : \A pos \in N + 1 - k .. N + 1 : Walked(pos) }
  <1>3. Walked(N + 1)
    <2>1. PICK at : at = [k \in 0 .. 0 |-> N + 1]
      OBVIOUS
    <2>2. PICK syms : syms = <<>>
      OBVIOUS
    <2>3. syms \in Seq(Symbols) /\ Len(syms) = 0
      BY <2>2
    <2>4. IsWalk(at, all, N, N + 1, syms, 0)
      BY <2>1, <2>3 DEF IsWalk
    <2>5. from[N + 1] = syms
      BY <1>1, <1>2, <2>2 DEF IsSuffixes
    <2>6. QED
      BY <2>4, <2>5
  <1>4. ASSUME NEW pos \in 1 .. N, Walked(Behind(all, pos)) PROVE Walked(pos)
    <2>1. PICK at, n : IsWalk(at, all, N, Behind(all, pos), from[Behind(all, pos)], n)
      BY <1>4
    <2>2. from[pos] = <<SymbolAt(all, pos)>> \o from[Behind(all, pos)]
      BY <1>1, <1>2 DEF IsSuffixes
    <2>3. PICK at2 : IsWalk(at2, all, N, pos, from[pos], n + 1)
      BY <1>1, <2>1, <2>2, WalkLonger
    <2>4. QED
      BY <2>3
  <1> HIDE DEF Walked
  <1>5. 0 \in T
    <2>1. \A pos \in N + 1 - 0 .. N + 1 : pos = N + 1
      OBVIOUS
    <2>2. QED
      BY <1>3, <2>1
  <1>6. \A k \in 0 .. N - 1 : k \in T => k + 1 \in T
    <2> SUFFICES ASSUME NEW k \in 0 .. N - 1, k \in T PROVE k + 1 \in T
      OBVIOUS
    <2>1. ASSUME NEW pos \in N + 1 - (k + 1) .. N + 1 PROVE Walked(pos)
      <3>1. CASE pos \in N + 1 - k .. N + 1
        BY <3>1
      <3>2. CASE pos = N + 1 - (k + 1)
        <4>1. pos \in 1 .. N
          BY <3>2
        <4>2. Behind(all, pos) \in pos + 1 .. N + 1
          BY <1>1, <4>1, BehindIsLater
        <4>3. Behind(all, pos) \in N + 1 - k .. N + 1
          BY <3>2, <4>2
        <4>4. Walked(Behind(all, pos))
          BY <4>3
        <4>5. QED
          BY <1>4, <4>1, <4>4
      <3>3. QED
        BY <3>1, <3>2
    <2>2. QED
      BY <2>1
  <1> HIDE DEF T
  <1>7. N \in T
    <2>1. 0 .. N \subseteq T
      BY <1>5, <1>6, InductionTo
    <2>2. QED
      BY <2>1
  <1>8. Walked(1)
    <2>1. 1 \in N + 1 - N .. N + 1
      OBVIOUS
    <2>2. QED
      BY <1>7, <2>1 DEF T
  <1>9. QED
    BY <1>1, <1>2, <1>8 DEF Walked

-----------------------------------------------------------------------------
(***************************************************************************)
(* The context grows by a symbol's token, and not by an escape.            *)
(***************************************************************************)
Added(source, i, toks) == IF IsToken(source[i]) THEN Append(toks, source[i]) ELSE toks

IsContexts(F, source, N) ==
  /\ F[0] = <<>>
  /\ \A i \in 1 .. N : F[i] = Added(source, i, F[i - 1])

LEMMA ContextsExist ==
  ASSUME NEW N \in Nat, NEW source, \A i \in 1 .. N : source[i] \in Symbols
  PROVE  \E F : IsContexts(F, source, N) /\ \A n \in 0 .. N : F[n] \in Seq(Tokens)
  <1>1. PICK V : V = Seq(Tokens)
    OBVIOUS
  <1>2. PICK empty \in V : empty = <<>>
    <2>1. <<>> \in Seq(Tokens)
      OBVIOUS
    <2>2. QED
      BY <1>1, <2>1
  <1>3. \A i \in 1 .. N, t \in V : Added(source, i, t) \in V
    <2> SUFFICES ASSUME NEW i \in 1 .. N, NEW t \in V PROVE Added(source, i, t) \in V
      OBVIOUS
    <2>1. CASE IsToken(source[i])
      <3>1. source[i] \in Tokens
        <4>1. VocabLen \in Nat /\ NumBytes \in Nat
          BY CodecAssumption DEF VocabLen
        <4>2. QED
          BY <2>1, <4>1 DEF IsToken, Symbols, Tokens
      <3>2. QED
        BY <1>1, <2>1, <3>1 DEF Added
    <2>2. CASE ~ IsToken(source[i])
      BY <2>2 DEF Added
    <2>3. QED
      BY <2>1, <2>2
  <1>4. PICK step \in [1 .. N -> [V -> V]] :
          step = [i \in 1 .. N |-> [t \in V |-> Added(source, i, t)]]
    BY <1>3
  <1>5. StepsIn(V, empty, N, step)
    BY DEF StepsIn
  <1>6. PICK F : IsRun(F, V, empty, N, step)
    BY <1>5, Recursion
  <1>7. \A n \in 0 .. N : F[n] \in V
    BY <1>6 DEF IsRun
  <1>8. ASSUME NEW i \in 1 .. N PROVE F[i] = Added(source, i, F[i - 1])
    <2>1. F[i - 1] \in V
      BY <1>7
    <2>2. step[i][F[i - 1]] = Added(source, i, F[i - 1])
      BY <1>4, <2>1
    <2>3. QED
      BY <1>6, <2>2 DEF IsRun
  <1>9. F[0] = <<>>
    BY <1>2, <1>6 DEF IsRun
  <1>10. IsContexts(F, source, N)
    BY <1>8, <1>9 DEF IsContexts
  <1>11. QED
    BY <1>1, <1>7, <1>10

LEMMA TokensAreContexts ==
  ASSUME NEW N \in Nat, NEW source, NEW F, IsContexts(F, source, N), NEW n \in 0 .. N
  PROVE  TokensBefore(source, n) = F[n]
  <1> DEFINE E(f) == [i \in 0 .. n |-> IF i = 0 THEN <<>> ELSE
                        IF IsToken(source[i]) THEN Append(f[i - 1], source[i]) ELSE f[i - 1]]
             g == [i \in 0 .. n |-> F[i]]
             f == CHOOSE f : f = E(f)
  <1>1. TokensBefore(source, n) = f[n]
    BY DEF TokensBefore
  <1>2. g = E(g)
    <2>1. ASSUME NEW i \in 0 .. n PROVE g[i] = E(g)[i]
      <3>1. CASE i = 0
        BY <3>1 DEF IsContexts
      <3>2. CASE i # 0
        <4>1. i \in 1 .. N /\ i - 1 \in 0 .. n
          BY <3>2
        <4>2. F[i] = Added(source, i, F[i - 1])
          BY <4>1 DEF IsContexts
        <4>3. QED
          BY <3>2, <4>1, <4>2 DEF Added
      <3>3. QED
        BY <3>1, <3>2
    <2>2. QED
      BY <2>1
  <1> HIDE DEF E, g
  <1>3. f = E(f)
    BY <1>2
  <1> HIDE DEF f
  <1>4. f[0] = <<>>
    <2>1. E(f)[0] = <<>>
      BY DEF E
    <2>2. QED
      BY <1>3, <2>1
  <1>5. ASSUME NEW i \in 1 .. n PROVE f[i] = Added(source, i, f[i - 1])
    <2>1. i \in 0 .. n /\ i # 0
      OBVIOUS
    <2>2. E(f)[i] = Added(source, i, f[i - 1])
      BY <2>1 DEF E, Added
    <2>3. QED
      BY <1>3, <2>2
  <1>6. StepAlike(f, F, n)
    <2>1. ASSUME NEW i \in 1 .. n, f[i - 1] = F[i - 1] PROVE f[i] = F[i]
      <3>1. F[i] = Added(source, i, F[i - 1])
        BY DEF IsContexts
      <3>2. QED
        BY <1>5, <2>1, <3>1 DEF Added
    <2>2. QED
      BY <1>4, <2>1 DEF StepAlike, IsContexts
  <1>7. QED
    BY <1>1, <1>6, Determined

LEMMA TokensGrow ==
  ASSUME NEW N \in Nat, NEW source, \A i \in 1 .. N : source[i] \in Symbols
  PROVE  /\ TokensBefore(source, 0) = <<>>
         /\ \A n \in 0 .. N : TokensBefore(source, n) \in Seq(Tokens)
         /\ \A n \in 0 .. N - 1 :
              TokensBefore(source, n + 1) = Added(source, n + 1, TokensBefore(source, n))
  <1>1. PICK F : IsContexts(F, source, N) /\ \A n \in 0 .. N : F[n] \in Seq(Tokens)
    BY ContextsExist
  <1>2. \A n \in 0 .. N : TokensBefore(source, n) = F[n]
    BY <1>1, TokensAreContexts
  <1>3. ASSUME NEW n \in 0 .. N - 1
        PROVE  TokensBefore(source, n + 1) = Added(source, n + 1, TokensBefore(source, n))
    <2>1. n + 1 \in 1 .. N /\ (n + 1) - 1 = n /\ n \in 0 .. N /\ n + 1 \in 0 .. N
      OBVIOUS
    <2>2. F[n + 1] = Added(source, n + 1, F[n])
      BY <1>1, <2>1 DEF IsContexts
    <2>3. QED
      BY <1>2, <2>1, <2>2
  <1>4. TokensBefore(source, 0) = <<>>
    <2>1. F[0] = <<>> /\ 0 \in 0 .. N
      BY <1>1 DEF IsContexts
    <2>2. QED
      BY <1>2, <2>1
  <1>5. \A n \in 0 .. N : TokensBefore(source, n) \in Seq(Tokens)
    BY <1>1, <1>2
  <1>6. QED
    BY <1>3, <1>4, <1>5

(***************************************************************************)
(* A window of a context that a header allows has a table, over all the    *)
(* symbols of the header's alphabet.                                       *)
(***************************************************************************)
Headers ==
  [model : Models, escapes : BOOLEAN, n_ctx : Nat, overlap : Nat, orig_len : Nat]

HeaderOK(h) == h \in Headers /\ ValidWindow(h.n_ctx, h.overlap)

LEMMA WindowFits ==
  ASSUME NEW c \in Nat, NEW o \in Nat, ValidWindow(c, o), NEW toks \in Seq(Tokens)
  PROVE  Window(c, o)!WindowOf(toks) \in Windows
  <1>1. PICK n \in Nat : n = Len(toks)
    OBVIOUS
  <1>2. PICK d \in 1 .. c : d = c - o
    BY DEF ValidWindow
  <1>3. PICK s : s = Window(c, o)!StartAt(n)
    OBVIOUS
  <1>4. s = StartOf(c, d, n)
    BY <1>2, <1>3 DEF Window!StartAt, Window!Stride, StartOf
  <1>5. s \in 0 .. n /\ n - s < c
    BY <1>4, WindowHasRoom
  <1>6. PICK w : w = SubSeq(toks, s + 1, n)
    OBVIOUS
  <1>7. w \in Seq(Tokens) /\ Len(w) = n - s
    <2>1. \A i \in s + 1 .. n : toks[i] \in Tokens
      BY <1>1, <1>5
    <2>2. QED
      BY <1>5, <1>6, <2>1, SubSeqProperties
  <1>8. PICK k : k = Len(w)
    OBVIOUS
  <1>9. k \in 0 .. ContextLength /\ w \in [1 .. k -> Tokens]
    BY <1>5, <1>7, <1>8, DtlzAssumption DEF ValidWindow
  <1>10. w \in Windows
    BY <1>9 DEF Windows
  <1>11. QED
    BY <1>1, <1>3, <1>6, <1>10 DEF Window!WindowOf

LEMMA TableOfContext ==
  ASSUME NEW h, HeaderOK(h), NEW toks \in Seq(Tokens)
  PROVE  /\ TableUnder(h, toks) \in { Tables[k] : k \in DOMAIN Tables }
         /\ TypesOK(TableUnder(h, toks), NumSymbols(h.escapes))
  <1>1. PICK w \in Windows : w = Window(h.n_ctx, h.overlap)!WindowOf(toks)
    BY WindowFits DEF HeaderOK, Headers
  <1>2. PICK k : k = <<h.model, h.escapes, w>>
    OBVIOUS
  <1>3. k \in DOMAIN Tables /\ k[2] = h.escapes
    BY <1>2 DEF HeaderOK, Headers, Tables
  <1>4. TypesOK(Tables[k], NumSymbols(h.escapes))
    BY <1>3, TableTypes
  <1>5. TableUnder(h, toks) = Tables[k]
    BY <1>1, <1>2 DEF TableUnder
  <1>6. QED
    BY <1>3, <1>4, <1>5

-----------------------------------------------------------------------------
(***************************************************************************)
(* compress and decompress drive the coder that the stream's lemmas are    *)
(* about.                                                                  *)
(***************************************************************************)
LEMMA SameNumbers ==
  /\ Enc!Word = TS!Enc!Word /\ Dec!Word = TS!Dec!Word
  /\ \A a, b, c : Enc!Valid(a, b, c) <=> TS!Enc!Valid(a, b, c)
  /\ \A a, b, c : Dec!Valid(a, b, c) <=> TS!Dec!Valid(a, b, c)
  /\ \A a, b, c : Enc!NarrowLow(a, b, c) = TS!Enc!NarrowLow(a, b, c)
  /\ \A a, b, c : Dec!NarrowLow(a, b, c) = TS!Dec!NarrowLow(a, b, c)
  /\ \A a, b : Enc!NarrowRange(a, b) = TS!Enc!NarrowRange(a, b)
  /\ \A a, b : Dec!NarrowRange(a, b) = TS!Dec!NarrowRange(a, b)
  /\ \A a : Enc!TopDigit(a) = TS!Enc!TopDigit(a)
  /\ \A a, b : Enc!NeedsDigit(a, b) <=> TS!Enc!NeedsDigit(a, b)
  /\ \A a, b : Dec!NeedsDigit(a, b) <=> TS!Dec!NeedsDigit(a, b)
  /\ \A a, b : Enc!CutRange(a, b) = TS!Enc!CutRange(a, b)
  /\ \A a, b : Dec!CutRange(a, b) = TS!Dec!CutRange(a, b)
  /\ \A a : Enc!ShiftWord(a) = TS!Enc!ShiftWord(a)
  /\ \A a : Dec!ShiftWord(a) = TS!Dec!ShiftWord(a)
  BY DEF Enc!Word, Enc!Top, Enc!Valid, Enc!NarrowLow, Enc!NarrowRange, Enc!TopDigit,
         Enc!Settled, Enc!NeedsDigit, Enc!CutRange, Enc!ShiftWord,
         TS!Enc!Word, TS!Enc!Top, TS!Enc!Valid, TS!Enc!NarrowLow, TS!Enc!NarrowRange,
         TS!Enc!TopDigit, TS!Enc!Settled, TS!Enc!NeedsDigit, TS!Enc!CutRange,
         TS!Enc!ShiftWord,
         Dec!Word, Dec!Top, Dec!Valid, Dec!NarrowLow, Dec!NarrowRange, Dec!TopDigit,
         Dec!Settled, Dec!NeedsDigit, Dec!CutRange, Dec!ShiftWord,
         TS!Dec!Word, TS!Dec!Top, TS!Dec!Valid, TS!Dec!NarrowLow, TS!Dec!NarrowRange,
         TS!Dec!TopDigit, TS!Dec!Settled, TS!Dec!NeedsDigit, TS!Dec!CutRange,
         TS!Dec!ShiftWord

LEMMA SameEncoder ==
  /\ \A a, b, c : Enc!Encode(a, b, c) <=> TS!Enc!Encode(a, b, c)
  /\ Enc!Renorm <=> TS!Enc!Renorm
  /\ Enc!RenormDone <=> TS!Enc!RenormDone
  /\ Enc!Finish <=> TS!Enc!Finish
  /\ Enc!FinishDigit <=> TS!Enc!FinishDigit
  /\ Enc!FinishDone <=> TS!Enc!FinishDone
  /\ Enc!Restart <=> TS!Enc!Restart
  /\ Enc!Init <=> TS!Enc!Init
  BY SameNumbers
  DEF Enc!Encode, Enc!Renorm, Enc!RenormDone, Enc!Finish, Enc!FinishDigit, Enc!FinishDone,
      Enc!Restart, Enc!Init,
      TS!Enc!Encode, TS!Enc!Renorm, TS!Enc!RenormDone, TS!Enc!Finish, TS!Enc!FinishDigit,
      TS!Enc!FinishDone, TS!Enc!Restart, TS!Enc!Init

LEMMA SameDecoder ==
  /\ \A p : Dec!Reopen(p) <=> TS!Dec!Reopen(p)
  /\ \A p : Dec!Open(p) <=> TS!Dec!Open(p)
  /\ Dec!OpenDigit <=> TS!Dec!OpenDigit
  /\ Dec!OpenDone <=> TS!Dec!OpenDone
  /\ Dec!Eof <=> TS!Dec!Eof
  /\ \A a : Dec!CanDecode(a) <=> TS!Dec!CanDecode(a)
  /\ \A a : Dec!FreqValue(a) = TS!Dec!FreqValue(a)
  /\ \A a : Dec!DecodeFreq(a) <=> TS!Dec!DecodeFreq(a)
  /\ \A a, b, c : Dec!Advance(a, b, c) <=> TS!Dec!Advance(a, b, c)
  /\ Dec!DecoderRenorm <=> TS!Dec!DecoderRenorm
  /\ Dec!DecoderRenormDone <=> TS!Dec!DecoderRenormDone
  BY SameNumbers
  DEF Dec!Reopen, Dec!Open, Dec!OpenDigit, Dec!OpenDone, Dec!Eof, Dec!CanDecode, Dec!FreqValue,
      Dec!DecodeFreq, Dec!Advance, Dec!CanAdvance, Dec!DecoderRenorm, Dec!DecoderRenormDone,
      Dec!HasDigit, Dec!CodeWithNext,
      TS!Dec!Reopen, TS!Dec!Open, TS!Dec!OpenDigit, TS!Dec!OpenDone, TS!Dec!Eof,
      TS!Dec!CanDecode, TS!Dec!FreqValue, TS!Dec!DecodeFreq, TS!Dec!Advance,
      TS!Dec!CanAdvance, TS!Dec!DecoderRenorm, TS!Dec!DecoderRenormDone, TS!Dec!HasDigit,
      TS!Dec!CodeWithNext

-----------------------------------------------------------------------------
(***************************************************************************)
(* What compress coded, and with which tables.                             *)
(***************************************************************************)
InputOK ==
  /\ input \in Inputs /\ symbols = CodecSymbols(input)
  /\ HeaderOK(Header) /\ Header.orig_len = Len(input)
  /\ Header.escapes \/ \A i \in DOMAIN symbols : IsToken(symbols[i])
  /\ phase = "compress" => ecount \in 0 .. Len(symbols)

LEMMA SymbolsOK ==
  ASSUME InputOK
  PROVE  /\ symbols \in Seq(Symbols)
         /\ \A i \in 1 .. Len(symbols) : symbols[i] \in 1 .. NumSymbols(Header.escapes)
  <1>1. input \in Seq(Bytes)
    BY DtlzAssumption DEF InputOK
  <1>2. PICK at, n : IsWalk(at, input, Len(input), 1, CodecSymbols(input), n)
    BY <1>1, CodecWalk
  <1>3. symbols \in Seq(Symbols)
    BY <1>2 DEF IsWalk, InputOK
  <1>4. VocabLen \in Nat /\ NumBytes \in Nat
    BY CodecAssumption DEF VocabLen
  <1>5. PICK s \in Seq(Symbols) : s = symbols
    BY <1>3
  <1>6. ASSUME NEW i \in 1 .. Len(s) PROVE s[i] \in 1 .. NumSymbols(Header.escapes)
    <2>1. s[i] \in Symbols
      OBVIOUS
    <2>2. CASE Header.escapes
      BY <1>4, <2>1, <2>2 DEF NumSymbols, Symbols
    <2>3. CASE ~ Header.escapes
      <3>1. i \in DOMAIN symbols
        BY <1>5
      <3>2. IsToken(s[i])
        BY <1>5, <2>3, <3>1 DEF InputOK
      <3>3. QED
        BY <1>4, <2>1, <2>3, <3>2 DEF NumSymbols, Symbols, IsToken
    <2>4. QED
      BY <2>2, <2>3
  <1>7. QED
    BY <1>3, <1>5, <1>6

AllTables == { Tables[k] : k \in DOMAIN Tables }

\* The table of the next symbol, and that it has an entry for it.
LEMMA NextIsCoded ==
  ASSUME InputOK, NEW n \in 0 .. Len(symbols) - 1
  PROVE  /\ TableUnder(Header, TokensBefore(symbols, n)) \in AllTables
         /\ symbols[n + 1] \in DOMAIN TableUnder(Header, TokensBefore(symbols, n)).freq
         /\ symbols[n + 1] \in Nat
  <1>1. PICK s \in Seq(Symbols) : s = symbols
    BY SymbolsOK
  <1>2. PICK N \in Nat : N = Len(s)
    OBVIOUS
  <1>3. n \in 0 .. N /\ n + 1 \in 1 .. N /\ \A i \in 1 .. N : s[i] \in Symbols
    BY <1>1, <1>2
  <1>4. TokensBefore(s, n) \in Seq(Tokens)
    BY <1>2, <1>3, TokensGrow
  <1>5. PICK table : table = TableUnder(Header, TokensBefore(s, n))
    OBVIOUS
  <1>6. table \in AllTables /\ TypesOK(table, NumSymbols(Header.escapes))
    BY <1>4, <1>5, TableOfContext DEF InputOK, AllTables
  <1>7. s[n + 1] \in 1 .. NumSymbols(Header.escapes) /\ s[n + 1] \in Nat
    BY <1>1, <1>2, <1>3, SymbolsOK
  <1>8. DOMAIN table.freq = 1 .. NumSymbols(Header.escapes)
    BY <1>6 DEF TypesOK
  <1>9. QED
    BY <1>1, <1>5, <1>6, <1>7, <1>8

LEMMA GivenIsStream ==
  ASSUME InputOK
  PROVE  TS!StreamOK
  <1>1. symbols \in Seq(Symbols)
    BY SymbolsOK
  <1>2. PICK N \in Nat : N = Len(Given) /\ N <= Len(symbols)
                         /\ \A k \in 1 .. N : Given[k] = symbols[k]
    <2>1. CASE phase = "compress"
      <3>1. ecount \in 0 .. Len(symbols)
        BY <2>1 DEF InputOK
      <3>2. \A i \in 1 .. ecount : symbols[i] \in Symbols
        BY <1>1, <3>1
      <3>3. Len(Given) = ecount /\ \A k \in 1 .. ecount : Given[k] = symbols[k]
        BY <1>1, <2>1, <3>1, <3>2, SubSeqProperties DEF Given
      <3>4. QED
        BY <3>1, <3>3
    <2>2. CASE phase # "compress"
      BY <1>1, <2>2 DEF Given
    <2>3. QED
      BY <2>1, <2>2
  <1>3. ASSUME NEW k \in 1 .. N
        PROVE  /\ GivenTables[k] \in AllTables /\ Given[k] \in Nat
               /\ Given[k] \in DOMAIN GivenTables[k].freq
    <2>1. k - 1 \in 0 .. Len(symbols) - 1 /\ (k - 1) + 1 = k
      BY <1>1, <1>2
    <2>2. GivenTables[k] = TableUnder(Header, TokensBefore(symbols, k - 1))
      BY <1>2 DEF GivenTables
    <2>3. QED
      BY <1>2, <2>1, <2>2, NextIsCoded
  <1>4. GivenTables \in Seq(AllTables) /\ Len(GivenTables) = N
    <2>1. PICK T : T = AllTables
      OBVIOUS
    <2>2. GivenTables \in [1 .. N -> T]
      BY <1>2, <1>3, <2>1 DEF GivenTables
    <2>3. QED
      BY <2>1, <2>2
  <1>5. Given \in Seq(Nat)
    <2>1. Given \in Seq(Symbols)
      BY <1>1, <1>2, SubSeqProperties DEF Given, InputOK
    <2>2. Given \in [1 .. N -> Nat]
      BY <1>2, <1>3, <2>1
    <2>3. QED
      BY <2>2
  <1>6. QED
    BY <1>2, <1>3, <1>4, <1>5 DEF TS!StreamOK, AllTables

LEMMA InputKept ==
  ASSUME InputOK, input' = input, symbols' = symbols, Header' = Header,
         phase' = "compress" => ecount' \in 0 .. Len(symbols)
  PROVE  InputOK'
  BY DEF InputOK

-----------------------------------------------------------------------------
(***************************************************************************)
(* compress: its encoder goes along a trace of the symbols coded so far.   *)
(***************************************************************************)
Compressing ==
  /\ TS!Encoding
  /\ epc \in {"finish", "finished"} => ecount = Len(symbols)
  /\ dinput = <<>> /\ context = <<>> /\ decoded = <<>> /\ bytes = <<>>
  /\ verdict = "none"

LEMMA CompressInit ==
  ASSUME Init
  PROVE  InputOK /\ phase = "compress" /\ Compressing
  <1>1. PICK model \in Models, n_ctx \in NCtxArgs \cup {ContextLength} :
          \E escapes \in BOOLEAN :
            /\ ValidWindow(n_ctx, n_ctx \div 4)
            /\ escapes \/ \A i \in DOMAIN symbols : IsToken(symbols[i])
            /\ header = [model |-> model, escapes |-> escapes, n_ctx |-> n_ctx,
                         overlap |-> n_ctx \div 4, orig_len |-> Len(input)]
    BY DEF Init
  <1>2. PICK escapes \in BOOLEAN :
          /\ ValidWindow(n_ctx, n_ctx \div 4)
          /\ escapes \/ \A i \in DOMAIN symbols : IsToken(symbols[i])
          /\ header = [model |-> model, escapes |-> escapes, n_ctx |-> n_ctx,
                       overlap |-> n_ctx \div 4, orig_len |-> Len(input)]
    BY <1>1
  <1>3. /\ phase = "compress" /\ Enc!Init /\ Dec!Open(<<>>)
        /\ context = <<>> /\ decoded = <<>> /\ bytes = <<>> /\ verdict = "none"
        /\ input \in Inputs /\ symbols = CodecSymbols(input)
    BY DEF Init
  <1>4. Header = header
    BY <1>3 DEF Header
  <1>5. n_ctx \in Nat /\ n_ctx \div 4 \in Nat
    <2>1. n_ctx \in Nat
      BY DtlzAssumption
    <2>2. QED
      BY <2>1
  <1>6. Len(input) \in Nat
    BY <1>3, DtlzAssumption
  <1>7. HeaderOK(header)
    BY <1>2, <1>5, <1>6 DEF HeaderOK, Headers
  <1>8. ecount = 0 /\ elow = 0 /\ eout = <<>> /\ epc = "ready" /\ eleft = 0 /\ dinput = <<>>
    BY <1>3 DEF Enc!Init, Dec!Open
  <1>9. Len(symbols) \in Nat
    <2>1. input \in Seq(Bytes)
      BY <1>3, DtlzAssumption
    <2>2. PICK at, n : IsWalk(at, input, Len(input), 1, CodecSymbols(input), n)
      BY <2>1, CodecWalk
    <2>3. QED
      BY <1>3, <2>2 DEF IsWalk
  <1>10. InputOK
    BY <1>2, <1>3, <1>4, <1>7, <1>8, <1>9 DEF InputOK
  <1>11. Given = <<>> /\ GivenTables = <<>>
    <2>1. Given = <<>>
      BY <1>3, <1>8, SubSeqEmpty DEF Given
    <2>2. QED
      BY <2>1 DEF GivenTables
  <1>12. TS!Encoding
    BY <1>3, <1>11, SameEncoder, StreamAssumption, TS!EncodingStarts
  <1>13. QED
    BY <1>3, <1>8, <1>10, <1>12 DEF Compressing

LEMMA EncodeSymbolGrows ==
  ASSUME InputOK, phase = "compress", Compressing, EncodeSymbol
  PROVE  InputOK' /\ phase' = "compress" /\ Compressing'
  <1>1. /\ phase' = phase /\ input' = input /\ symbols' = symbols /\ header' = header
        /\ written' = written /\ dinput' = dinput
        /\ context' = context /\ decoded' = decoded /\ bytes' = bytes /\ verdict' = verdict
        /\ ecount < Len(symbols)
    BY DEF EncodeSymbol, Source, files, restored, progress, decVars
  <1>2. PICK n \in 0 .. Len(symbols) - 1 : n = ecount
    BY <1>1, SymbolsOK DEF InputOK
  <1>3. Header' = Header /\ Header = header
    BY <1>1 DEF Header
  <1>4. PICK table, s : table = TableUnder(Header, TokensBefore(symbols, n)) /\ s = symbols[n + 1]
    OBVIOUS
  <1>5. table \in AllTables /\ s \in DOMAIN table.freq /\ s \in Nat
    BY <1>2, <1>4, NextIsCoded
  <1>6. TableAfter(TokensBefore(Source, ecount)) = table /\ Source[ecount + 1] = s
    BY <1>2, <1>3, <1>4 DEF TableAfter, TableUnder, Source
  <1>7. PICK iv : iv = IntervalOf(table, s) /\ Enc!Encode(iv.cum, iv.freq, iv.total)
    BY <1>6 DEF EncodeSymbol
  <1>8. ecount' = n + 1 /\ epc' = "renorm" /\ epc = "ready" /\ Enc!Valid(iv.cum, iv.freq, iv.total)
    BY <1>2, <1>7 DEF Enc!Encode
  <1>9. InputOK'
    <2>1. n + 1 \in 0 .. Len(symbols)
      BY <1>2, SymbolsOK
    <2>2. QED
      BY <1>1, <1>3, <1>8, <2>1, InputKept
  <1>10. symbols \in Seq(Symbols)
    BY SymbolsOK
  <1>11. Given = SubSeq(symbols, 1, n) /\ Given' = SubSeq(symbols, 1, n + 1)
    BY <1>1, <1>2, <1>8 DEF Given
  <1>12. PICK g, h : g = Given /\ h = Given'
    OBVIOUS
  <1>13. /\ g \in Seq(Symbols) /\ Len(g) = n /\ \A k \in 1 .. n : g[k] = symbols[k]
         /\ h \in Seq(Symbols) /\ Len(h) = n + 1 /\ \A k \in 1 .. n + 1 : h[k] = symbols[k]
    <2>1. \A i \in 1 .. n + 1 : symbols[i] \in Symbols
      BY <1>2, <1>10
    <2>2. QED
      BY <1>2, <1>11, <1>12, <2>1, SubSeqProperties
  <1>14. h = Append(g, s)
    BY <1>2, <1>4, <1>13
  <1>15. GivenTables' = Append(GivenTables, table)
    <2>1. PICK f : f = [k \in 1 .. n + 1 |-> TableUnder(Header, TokensBefore(symbols, k - 1))]
      OBVIOUS
    <2>2. GivenTables' = f
      BY <1>1, <1>3, <1>12, <1>13, <2>1 DEF GivenTables
    <2>3. PICK e : e = [k \in 1 .. n |-> TableUnder(Header, TokensBefore(symbols, k - 1))]
      OBVIOUS
    <2>4. GivenTables = e
      BY <1>12, <1>13, <2>3 DEF GivenTables
    <2>5. f = Append(e, table)
      <3>1. f[n + 1] = table
        BY <1>2, <1>4, <2>1
      <3>2. Len(e) = n /\ \A k \in 1 .. n : e[k] = f[k]
        BY <1>2, <2>1, <2>3
      <3>3. QED
        BY <1>2, <2>1, <2>3, <3>1, <3>2
    <2>6. QED
      BY <2>2, <2>4, <2>5
  <1>16. TS!StreamGrows
    BY <1>5, <1>8, <1>12, <1>14, <1>15 DEF TS!StreamGrows, AllTables
  <1>17. TS!StreamOK
    BY GivenIsStream
  <1>18. ecount' = Len(Given')
    BY <1>8, <1>12, <1>13
  <1>19. TS!EncoderMoves(TS!Coded(GivenTables', Given'), Len(Given'))
    <2>1. PICK F : F = TS!Coded(GivenTables', Given')
      OBVIOUS
    <2>2. Len(Given') = n + 1 /\ Given'[n + 1] = s /\ GivenTables'[n + 1] = table
      <3>1. Len(GivenTables) = n
        BY <1>12, <1>13 DEF GivenTables
      <3>2. QED
        BY <1>4, <1>12, <1>13, <1>15, <3>1
    <2>3. F[n + 1] = iv
      BY <1>2, <1>7, <2>1, <2>2, SameTables DEF TS!Coded
    <2>4. TS!RC!IsInterval(iv)
      BY <1>5, <1>7, <1>8, SameNumbers, SameTables, StreamAssumption, TS!IntervalOfToken DEF AllTables
    <2>5. TS!Enc!Encode(iv.cum, iv.freq, iv.total)
      BY <1>7, SameEncoder
    <2>6. n < n + 1 /\ n = ecount
      BY <1>2
    <2>7. QED
      BY <2>1, <2>2, <2>3, <2>4, <2>5, <2>6 DEF TS!EncoderMoves
  <1>20. TS!Encoding'
    BY <1>16, <1>17, <1>18, <1>19, StreamAssumption, TS!EncodingStep DEF Compressing
  <1>21. QED
    BY <1>1, <1>8, <1>9, <1>20 DEF Compressing

LEMMA CompressingRuns ==
  ASSUME InputOK, phase = "compress", Compressing, EncoderRuns \/ FinishPayload
  PROVE  InputOK' /\ phase' = "compress" /\ Compressing'
  <1>1. /\ phase' = phase /\ input' = input /\ symbols' = symbols /\ header' = header
        /\ written' = written /\ dinput' = dinput
        /\ context' = context /\ decoded' = decoded /\ bytes' = bytes /\ verdict' = verdict
    BY DEF EncoderRuns, FinishPayload, files, restored, progress, decVars
  <1>2. ecount' = ecount
    BY DEF EncoderRuns, FinishPayload, Enc!Renorm, Enc!RenormDone, Enc!Finish, Enc!FinishDigit,
           Enc!FinishDone
  <1>3. Header' = Header
    BY <1>1 DEF Header
  <1>4. InputOK'
    BY <1>1, <1>2, <1>3, InputKept DEF InputOK
  <1>5. Given' = Given /\ GivenTables' = GivenTables
    BY <1>1, <1>2, <1>3 DEF Given, GivenTables
  <1>6. /\ Enc!Renorm \/ Enc!RenormDone \/ Enc!FinishDigit \/ Enc!FinishDone
           \/ (ecount = Len(symbols) /\ Enc!Finish)
        /\ ecount = Len(Given)
    <2>1. Source = symbols
      BY DEF Source
    <2>2. QED
      BY <2>1 DEF EncoderRuns, FinishPayload, Compressing, TS!Encoding
  <1>7. Len(Given) = Len(symbols) \/ ~ Enc!Finish \/ ecount # Len(symbols)
    BY <1>6
  <1>8. \/ TS!EncoderMoves(TS!Coded(GivenTables, Given), Len(Given))
        \/ TS!Enc!FinishDone
    BY <1>6, SameEncoder DEF TS!EncoderMoves
  <1>9. TS!Encoding'
    BY <1>2, <1>5, <1>8, GivenIsStream, StreamAssumption, TS!EncodingRuns DEF Compressing
  <1>10. epc' \in {"finish", "finished"} => ecount' = Len(symbols')
    BY <1>1, <1>2, <1>6 DEF Compressing, Enc!Renorm, Enc!RenormDone, Enc!Finish, Enc!FinishDigit,
       Enc!FinishDone
  <1>11. QED
    BY <1>1, <1>4, <1>9, <1>10 DEF Compressing

-----------------------------------------------------------------------------
(***************************************************************************)
(* Once the file is written: the payload codes the symbols, and if it is   *)
(* opened under the header it was written with, or one that only claims    *)
(* fewer bytes, the decoder goes along the encoder's trace, and so does    *)
(* the encoder that checks what was decoded.                               *)
(***************************************************************************)
SameStream ==
  /\ header.model = written.header.model /\ header.escapes = written.header.escapes
  /\ header.n_ctx = written.header.n_ctx /\ header.overlap = written.header.overlap

Intact ==
  /\ SameStream /\ header.orig_len <= written.header.orig_len
  /\ dinput = written.payload

\* Where the symbols of the input stand in it.
IsPlace(at) == IsWalk(at, input, Len(input), 1, symbols, Len(symbols))

Place == CHOOSE at : IsPlace(at)

Restoring ==
  /\ context = TokensBefore(symbols, Len(decoded))
  /\ bytes = SubSeq(input, 1, Place[Len(decoded)] - 1)

DecoderStands(tr, m) ==
  phase = "decompress" /\ Intact => Restoring /\ \E j \in 0 .. m : TS!DecoderAt(tr[j])

EncoderStands(tr, m) ==
  phase = "reencode" /\ SameStream /\ decoded = symbols => \E j \in 0 .. m : TS!ReencoderAt(tr[j])

Standing(tr, m) == TS!Coding(tr, m) /\ DecoderStands(tr, m) /\ EncoderStands(tr, m)

\* What decompress has read, and what it has settled.
Opened ==
  /\ phase = "stored" => dinput = <<>> /\ context = <<>> /\ decoded = <<>> /\ bytes = <<>>
  /\ phase \in {"decompress", "reencode"} => dinput = file.payload
  /\ phase \in {"decompress", "reencode", "done"} => header = file.header
  /\ verdict = "ok" => phase = "done" /\ dinput = file.payload
  /\ phase # "done" => verdict = "none"

Results ==
  /\ phase \in {"reencode", "done"} /\ Intact =>
       /\ verdict # "error" => Output = SubSeq(input, 1, header.orig_len)
       /\ header.orig_len = written.header.orig_len => verdict # "error" /\ decoded = symbols
  /\ verdict = "ok" /\ SameStream /\ decoded = symbols => file.payload = written.payload

Stored ==
  /\ written \in [header : Headers, payload : Seq(Digit)]
  /\ file.header \in Headers /\ "payload" \in DOMAIN file
  /\ \E m \in Nat : \E tr : Standing(tr, m)
  /\ Opened /\ Results

DtlzInv ==
  /\ InputOK
  /\ phase \in {"compress", "stored", "decompress", "reencode", "done"}
  /\ IF phase = "compress" THEN Compressing /\ written = NoFile /\ file = NoFile ELSE Stored

LEMMA PlaceExists == InputOK => IsPlace(Place)
  <1> SUFFICES ASSUME InputOK PROVE IsPlace(Place)
    OBVIOUS
  <1>1. input \in Seq(Bytes)
    BY DtlzAssumption DEF InputOK
  <1>2. PICK at, n : IsWalk(at, input, Len(input), 1, CodecSymbols(input), n)
    BY <1>1, CodecWalk
  <1>3. IsPlace(at)
    BY <1>2 DEF IsPlace, IsWalk, InputOK
  <1>4. QED
    BY <1>3 DEF Place

\* What every step after compress leaves as it was.
Kept ==
  /\ phase # "compress" /\ phase' # "compress"
  /\ input' = input /\ symbols' = symbols /\ written' = written

LEMMA StreamIsKept ==
  ASSUME InputOK, Kept
  PROVE  InputOK' /\ TS!StreamKept /\ Place' = Place
  <1>1. Header' = Header /\ Given' = Given
    BY DEF Kept, Header, Given
  <1>2. GivenTables' = GivenTables
    BY <1>1 DEF GivenTables, Kept
  <1>3. Place' = Place
    BY DEF Kept, Place, IsPlace
  <1>4. InputOK'
    BY <1>1, InputKept DEF Kept
  <1>5. QED
    BY <1>1, <1>2, <1>3, <1>4 DEF TS!StreamKept, Kept

LEMMA CodingIsKept ==
  ASSUME InputOK, Kept, NEW tr, NEW m, TS!Coding(tr, m)
  PROVE  TS!Coding(tr, m)'
  BY StreamIsKept, StreamAssumption, TS!CodingKept

LEMMA StoreInv ==
  ASSUME DtlzInv, Store
  PROVE  DtlzInv'
  <1>1. /\ phase = "compress" /\ epc = "finished" /\ phase' = "stored"
        /\ written' = [header |-> header, payload |-> eout] /\ file' = written'
        /\ input' = input /\ symbols' = symbols /\ header' = header /\ verdict' = verdict
        /\ dinput' = dinput /\ context' = context /\ decoded' = decoded /\ bytes' = bytes
    BY DEF Store, restored, decVars
  <1>2. InputOK /\ Compressing
    BY <1>1 DEF DtlzInv
  <1>3. Header' = Header /\ Header = header
    BY <1>1 DEF Header
  <1>4. InputOK'
    BY <1>1, <1>2, <1>3, InputKept
  <1>5. ecount = Len(symbols) /\ symbols \in Seq(Symbols)
    BY <1>1, <1>2, SymbolsOK DEF Compressing
  <1>6. Given' = Given
    <2>1. SubSeq(symbols, 1, Len(symbols)) = symbols
      BY <1>5, SubSeqFull
    <2>2. QED
      BY <1>1, <1>5, <2>1 DEF Given
  <1>7. GivenTables' = GivenTables
    BY <1>1, <1>3, <1>6 DEF GivenTables
  <1>8. written.payload' = eout
    BY <1>1
  <1>9. written.payload' \in Seq(TS!RC!Digit) /\ \E m \in Nat : \E tr : TS!Coding(tr, m)'
    BY <1>1, <1>2, <1>6, <1>7, <1>8, GivenIsStream, StreamAssumption, TS!SentIsCoding DEF Compressing
  <1>10. PICK m \in Nat : \E tr : TS!Coding(tr, m)'
    BY <1>9
  <1>11. PICK tr : TS!Coding(tr, m)'
    BY <1>10
  <1>12. Standing(tr, m)'
    BY <1>1, <1>11 DEF Standing, DecoderStands, EncoderStands
  <1>13. written' \in [header : Headers, payload : Seq(Digit)]
    <2>1. header \in Headers
      BY <1>2, <1>3 DEF InputOK, HeaderOK
    <2>2. eout \in Seq(Digit)
      BY <1>8, <1>9 DEF Digit, TS!RC!Digit
    <2>3. QED
      BY <1>1, <2>1, <2>2
  <1>14. Opened' /\ Results'
    BY <1>1, <1>2 DEF Opened, Results, Compressing
  <1>15. file'.header \in Headers /\ "payload" \in DOMAIN file'
    BY <1>1, <1>13
  <1>16. QED
    BY <1>1, <1>4, <1>12, <1>13, <1>14, <1>15 DEF DtlzInv, Stored

\* What the invariant says once the file is written.
LEMMA StoredFacts ==
  ASSUME DtlzInv, phase # "compress"
  PROVE  /\ InputOK /\ Stored /\ Opened /\ Results
         /\ written \in [header : Headers, payload : Seq(Digit)]
         /\ TS!StreamOK
         /\ written.payload \in Seq(TS!RC!Digit)
         /\ \E m \in Nat : \E tr : Standing(tr, m)
  <1>1. InputOK /\ Stored
    BY DEF DtlzInv
  <1>2. written.payload \in Seq(TS!RC!Digit)
    <2>1. written.payload \in Seq(Digit)
      BY <1>1 DEF Stored
    <2>2. QED
      BY <2>1 DEF Digit, TS!RC!Digit
  <1>3. QED
    BY <1>1, <1>2, GivenIsStream DEF Stored

LEMMA InvFromParts ==
  ASSUME DtlzInv, Kept, phase' \in {"stored", "decompress", "reencode", "done"},
         file'.header \in Headers, "payload" \in DOMAIN file',
         NEW m \in Nat, NEW tr, Standing(tr, m),
         DecoderStands(tr, m)', EncoderStands(tr, m)', Opened', Results'
  PROVE  DtlzInv'
  <1>1. InputOK /\ Stored
    BY DEF DtlzInv, Kept
  <1>2. InputOK'
    BY <1>1, StreamIsKept
  <1>3. TS!Coding(tr, m)'
    BY <1>1, CodingIsKept DEF Standing
  <1>4. Standing(tr, m)'
    BY <1>3 DEF Standing
  <1>5. written' \in [header : Headers, payload : Seq(Digit)]
    BY <1>1 DEF Stored, Kept
  <1>6. Stored'
    BY <1>4, <1>5 DEF Stored
  <1>7. QED
    BY <1>2, <1>6 DEF DtlzInv, Kept

LEMMA DamageInv ==
  ASSUME DtlzInv, Damage
  PROVE  DtlzInv'
  <1>1. /\ phase = "stored" /\ phase' = phase /\ verdict' = verdict /\ file = written
        /\ input' = input /\ symbols' = symbols /\ header' = header /\ written' = written
        /\ dinput' = dinput /\ context' = context /\ decoded' = decoded /\ bytes' = bytes
    BY DEF Damage, progress, restored, decVars
  <1>2. Stored /\ Opened /\ file \in [header : Headers, payload : Seq(Digit)]
    BY <1>1, StoredFacts
  <1>3. file'.header \in Headers /\ "payload" \in DOMAIN file'
    <2>1. PICK kind \in FaultKinds : file' \in Damaged(kind, file)
      BY DtlzAssumption DEF Damage
    <2>2. ContextLength \in Nat
      BY DtlzAssumption
    <2>3. CASE kind = "payload"
      BY <1>2, <2>1, <2>3 DEF Damaged
    <2>4. CASE kind = "window"
      <3> DEFINE Moved(n, o) == [file EXCEPT !.header.n_ctx = n, !.header.overlap = o]
      <3>0. Damaged("window", file) =
              { Moved(n, o) : n \in 0 .. ContextLength + 1, o \in {file.header.overlap, ContextLength} }
        BY DEF Damaged
      <3> HIDE DEF Moved
      <3>1. PICK n \in 0 .. ContextLength + 1, o \in {file.header.overlap, ContextLength} :
              file' = Moved(n, o)
        BY <2>1, <2>4, <3>0
      <3>2. n \in Nat /\ o \in Nat
        BY <1>2, <2>2, <3>1 DEF Headers
      <3>3. QED
        BY <1>2, <3>1, <3>2 DEF Headers, Moved
    <2>5. CASE kind = "flags"
      <3>1. PICK b \in BOOLEAN : b = ~ file.header.escapes
        OBVIOUS
      <3>2. Damaged("flags", file) = { [file EXCEPT !.header.escapes = b] }
        BY <3>1 DEF Damaged
      <3>3. file' = [file EXCEPT !.header.escapes = b]
        BY <2>1, <2>5, <3>2
      <3>4. QED
        BY <1>2, <3>1, <3>3 DEF Headers
    <2>6. CASE kind = "shrunk"
      BY <1>2, <2>1, <2>6 DEF Damaged, Headers
    <2>7. CASE kind = "inflated"
      BY <1>2, <2>1, <2>7 DEF Damaged, Headers
    <2>8. QED
      BY <2>1, <2>3, <2>4, <2>5, <2>6, <2>7 DEF FaultKinds
  <1>4. Kept
    BY <1>1 DEF Kept
  <1>5. PICK m \in Nat : \E tr : Standing(tr, m)
    BY <1>2 DEF Stored
  <1>6. PICK tr : Standing(tr, m)
    BY <1>5
  <1>7. DecoderStands(tr, m)' /\ EncoderStands(tr, m)'
    BY <1>1 DEF DecoderStands, EncoderStands
  <1>8. Opened'
    BY <1>1, <1>2 DEF Opened
  <1>9. Results'
    BY <1>1, <1>2 DEF Opened, Results
  <1>10. QED
    BY <1>1, <1>3, <1>4, <1>6, <1>7, <1>8, <1>9, InvFromParts

LEMMA OpenInv ==
  ASSUME DtlzInv, NEW model \in Models, Open(model)
  PROVE  DtlzInv'
  <1>1. /\ phase = "stored" /\ header' = file.header /\ file' = file
        /\ input' = input /\ symbols' = symbols /\ written' = written
        /\ context' = context /\ decoded' = decoded /\ bytes' = bytes
    BY DEF Open, restored
  <1>2. /\ \/ phase' = "decompress" /\ Dec!Reopen(file.payload) /\ verdict' = verdict
           \/ phase' = "done" /\ verdict' = "error" /\ dinput' = dinput
    BY DEF Open, Give, decVars
  <1>3. /\ Stored /\ Opened /\ InputOK /\ TS!StreamOK
        /\ written.payload \in Seq(TS!RC!Digit)
    BY <1>1, StoredFacts
  <1>4. Kept
    BY <1>1, <1>2 DEF Kept
  <1>5. PICK m \in Nat : \E tr : Standing(tr, m)
    BY <1>3 DEF Stored
  <1>6. PICK tr : Standing(tr, m)
    BY <1>5
  <1>7. dinput = <<>> /\ context = <<>> /\ decoded = <<>> /\ bytes = <<>> /\ verdict = "none"
    BY <1>1, <1>3 DEF Opened
  <1>8. EncoderStands(tr, m)'
    BY <1>2 DEF EncoderStands
  <1>9. DecoderStands(tr, m)'
    <2> SUFFICES ASSUME phase' = "decompress", Intact'
                 PROVE  Restoring' /\ \E j \in 0 .. m : TS!DecoderAt(tr[j])'
      BY DEF DecoderStands
    <2>1. Dec!Reopen(file.payload)
      BY <1>2
    <2>2. TS!Coding(tr, m)'
      BY <1>3, <1>4, <1>6, CodingIsKept DEF Standing
    <2>3. TS!Prefix'
      <3>1. dinput' = written.payload'
        BY DEF Intact
      <3>2. written.payload' \in Seq(TS!RC!Digit)
        BY <1>1, <1>3
      <3>3. QED
        BY <3>1, <3>2 DEF TS!Prefix, TS!RC!Agree
    <2>4. TS!DecoderAt(tr[0])'
      BY <1>1, <1>7, <2>1, <2>2, <2>3, SameDecoder, StreamAssumption, TS!DecoderStarts
    <2>5. Restoring'
      <3>1. PICK N \in Nat : N = Len(symbols) /\ \A i \in 1 .. N : symbols[i] \in Symbols
        BY <1>3, SymbolsOK
      <3>2. TokensBefore(symbols, 0) = <<>>
        BY <3>1, TokensGrow
      <3>3. Place[0] = 1 /\ Place' = Place
        BY <1>3, <1>4, StreamIsKept, PlaceExists DEF IsPlace, IsWalk
      <3>4. SubSeq(input, 1, 0) = <<>>
        BY SubSeqEmpty
      <3>5. QED
        BY <1>1, <1>7, <3>2, <3>3, <3>4 DEF Restoring
    <2>6. QED
      BY <2>4, <2>5
  <1>10. Opened'
    BY <1>1, <1>2, <1>7 DEF Opened, Dec!Reopen
  <1>11. Results'
    <2>1. CASE phase' = "decompress"
      BY <1>2, <1>7, <2>1 DEF Results
    <2>2. CASE phase' = "done"
      <3>1. dinput' = <<>> /\ verdict' = "error"
        BY <1>2, <1>7, <2>2
      <3>2. written.payload # <<>>
        BY <1>3, <1>6, StreamAssumption, TS!SentIsNotEmpty DEF Standing
      <3>3. ~ Intact'
        BY <1>1, <3>1, <3>2 DEF Intact
      <3>4. QED
        BY <3>1, <3>3 DEF Results
    <2>3. QED
      BY <1>2, <2>1, <2>2
  <1>12. file'.header \in Headers /\ "payload" \in DOMAIN file'
    BY <1>1, <1>3 DEF Stored
  <1>13. QED
    BY <1>2, <1>4, <1>6, <1>8, <1>9, <1>10, <1>11, <1>12, InvFromParts

-----------------------------------------------------------------------------
(***************************************************************************)
(* decompress, on a payload that is the one compress wrote: it has restored*)
(* the input up to the place of the next symbol.                           *)
(***************************************************************************)
LEMMA DecodingFacts ==
  ASSUME DtlzInv, phase = "decompress", NEW m, NEW tr, Standing(tr, m), Intact
  PROVE  TS!Decoding(tr, m) /\ Restoring /\ \E j \in 0 .. m : TS!DecoderAt(tr[j])
  <1>1. TS!StreamOK /\ written.payload \in Seq(TS!RC!Digit)
    BY StoredFacts
  <1>2. TS!Prefix
    BY <1>1, StreamAssumption, TS!SentIsPrefix DEF Intact
  <1>3. QED
    BY <1>1, <1>2 DEF Standing, DecoderStands, TS!Decoding

\* The symbols decoded so far, at the place where the next one stands.
AtSymbol(n) ==
  /\ n \in 0 .. Len(symbols)
  /\ Len(decoded) = n /\ decoded \in Seq(Nat)
  /\ \A i \in 1 .. n : decoded[i] = symbols[i]

LEMMA DecodedSoFar ==
  ASSUME InputOK, phase = "decompress", NEW t, TS!DecoderAt(t)
  PROVE  \E n \in Nat : AtSymbol(n)
  <1>1. Given = symbols /\ symbols \in Seq(Symbols)
    BY SymbolsOK DEF Given
  <1>2. CASE TS!Opening(t)
    <2>1. decoded = <<>>
      BY <1>2 DEF TS!Opening
    <2>2. AtSymbol(0)
      BY <1>1, <2>1 DEF AtSymbol
    <2>3. QED
      BY <2>2
  <1>3. CASE TS!Underway(t)
    <2>1. decoded \in Seq(Nat) /\ Len(decoded) <= Len(symbols)
          /\ \A i \in 1 .. Len(decoded) : decoded[i] = symbols[i]
      BY <1>1, <1>3 DEF TS!Underway, TS!Decoded
    <2>2. AtSymbol(Len(decoded))
      BY <1>1, <2>1 DEF AtSymbol
    <2>3. QED
      BY <2>1, <2>2
  <1>4. QED
    BY <1>2, <1>3 DEF TS!DecoderAt

LEMMA TablesAgree ==
  ASSUME InputOK, phase = "decompress", Intact, Restoring, NEW n, AtSymbol(n)
  PROVE  /\ TS!TokensLeft <=> n < Len(symbols)
         /\ TS!TokensLeft => TS!NextTable = TableAfter(context) /\ TS!NextToken = symbols[n + 1]
  <1>1. Given = symbols /\ symbols \in Seq(Symbols) /\ Header = written.header
    BY SymbolsOK DEF Given, Header
  <1>2. TS!TokensLeft <=> n < Len(symbols)
    BY <1>1 DEF TS!TokensLeft, GivenTables, AtSymbol
  <1>3. ASSUME n < Len(symbols)
        PROVE  TS!NextTable = TableAfter(context) /\ TS!NextToken = symbols[n + 1]
    <2>1. n + 1 \in 1 .. Len(symbols) /\ (n + 1) - 1 = n
      BY <1>1, <1>3 DEF AtSymbol
    <2>2. GivenTables[n + 1] = TableUnder(written.header, TokensBefore(symbols, n))
      BY <1>1, <2>1 DEF GivenTables
    <2>3. TableUnder(written.header, context) = TableAfter(context)
      BY DEF TableUnder, TableAfter, Intact, SameStream
    <2>4. context = TokensBefore(symbols, n) /\ Len(decoded) = n
      BY DEF Restoring, AtSymbol
    <2>5. QED
      BY <1>1, <2>2, <2>3, <2>4 DEF TS!NextTable, TS!NextToken
  <1>4. QED
    BY <1>2, <1>3

\* The bytes restored: up to the place of the next symbol.
LEMMA PlaceFacts ==
  ASSUME InputOK
  PROVE  /\ input \in Seq(Bytes) /\ symbols \in Seq(Symbols)
         /\ Place[0] = 1 /\ Place[Len(symbols)] = Len(input) + 1
         /\ \A k \in 0 .. Len(symbols) : Place[k] \in 1 .. Len(input) + 1
         /\ \A k \in 1 .. Len(symbols) :
              Place[k - 1] < Place[k] /\ PieceOf(symbols[k]) = SubSeq(input, Place[k - 1], Place[k] - 1)
  <1>1. IsPlace(Place)
    BY PlaceExists
  <1>2. input \in Seq(Bytes)
    BY DtlzAssumption DEF InputOK
  <1>3. QED
    BY <1>1, <1>2 DEF IsPlace, IsWalk

LEMMA BytesRestored ==
  ASSUME InputOK, Restoring, NEW n, AtSymbol(n)
  PROVE  /\ Place[n] \in 1 .. Len(input) + 1
         /\ bytes = SubSeq(input, 1, Place[n] - 1) /\ Len(bytes) = Place[n] - 1
         /\ bytes \in Seq(Bytes)
         /\ n < Len(symbols) <=> Place[n] < Len(input) + 1
  <1>1. PICK all \in Seq(Bytes), N \in Nat : all = input /\ N = Len(all)
    BY PlaceFacts
  <1>2. PICK p \in 1 .. N + 1 : p = Place[n]
    BY <1>1, PlaceFacts DEF AtSymbol
  <1>3. bytes = SubSeq(all, 1, p - 1)
    BY <1>1, <1>2 DEF Restoring, AtSymbol
  <1>4. bytes \in Seq(Bytes) /\ Len(bytes) = p - 1
    <2>1. \A i \in 1 .. p - 1 : all[i] \in Bytes
      BY <1>1, <1>2
    <2>2. QED
      BY <1>2, <1>3, <2>1, SubSeqProperties
  <1>5. n < Len(symbols) <=> p < N + 1
    <2>1. PICK M \in Nat : M = Len(symbols)
      BY PlaceFacts
    <2>2. CASE n < M
      <3>1. n + 1 \in 1 .. M /\ (n + 1) - 1 = n /\ n + 1 \in 0 .. M
        BY <2>1, <2>2 DEF AtSymbol
      <3>2. Place[n] < Place[n + 1] /\ Place[n + 1] \in 1 .. N + 1
        BY <1>1, <2>1, <3>1, PlaceFacts
      <3>3. QED
        BY <1>2, <2>1, <2>2, <3>2
    <2>3. CASE n = M
      <3>1. p = N + 1
        BY <1>1, <1>2, <2>1, <2>3, PlaceFacts
      <3>2. QED
        BY <2>1, <2>3, <3>1
    <2>4. QED
      BY <2>1, <2>2, <2>3 DEF AtSymbol
  <1>6. QED
    BY <1>1, <1>2, <1>3, <1>4, <1>5

LEMMA LengthIsTrue ==
  ASSUME InputOK, phase # "compress"
  PROVE  written.header.orig_len = Len(input) /\ Len(input) \in Nat
  BY PlaceFacts DEF InputOK, Header

\* While bytes are missing there is a symbol left.
LEMMA MissingBytes ==
  ASSUME InputOK, phase = "decompress", Intact, Restoring, NEW n, AtSymbol(n),
         header \in Headers, ~ Restored
  PROVE  TS!TokensLeft
  <1>1. Len(bytes) = Place[n] - 1 /\ Place[n] \in 1 .. Len(input) + 1
    BY BytesRestored
  <1>2. header.orig_len \in Nat /\ header.orig_len <= Len(input) /\ Len(input) \in Nat
    BY LengthIsTrue DEF Headers, Intact
  <1>3. Len(bytes) < header.orig_len
    BY <1>1, <1>2 DEF Restored
  <1>4. Place[n] < Len(input) + 1
    BY <1>1, <1>2, <1>3
  <1>5. QED
    BY <1>4, BytesRestored, TablesAgree

-----------------------------------------------------------------------------
(***************************************************************************)
(* The steps of decompress.                                                *)
(***************************************************************************)
FilesKept ==
  /\ input' = input /\ symbols' = symbols /\ header' = header
  /\ written' = written /\ file' = file /\ dinput' = dinput

LEMMA IntactKept == ASSUME FilesKept PROVE (Intact' <=> Intact) /\ (SameStream' <=> SameStream)
  BY DEF FilesKept, Intact, SameStream

Decodes(tr, m) == Restoring' /\ \E k \in 0 .. m : TS!DecoderAt(tr[k])'

LEMMA DecodingGoesOn ==
  ASSUME DtlzInv, phase = "decompress", phase' = "decompress", FilesKept, verdict' = verdict,
         \A m \in Nat : \A tr : Standing(tr, m) /\ Intact => Decodes(tr, m)
  PROVE  DtlzInv'
  <1>1. Stored /\ Opened
    BY StoredFacts
  <1>2. PICK m \in Nat : \E tr : Standing(tr, m)
    BY <1>1 DEF Stored
  <1>3. PICK tr : Standing(tr, m)
    BY <1>2
  <1>4. Kept
    BY DEF Kept, FilesKept
  <1>5. DecoderStands(tr, m)'
    BY <1>3, IntactKept DEF DecoderStands, Decodes
  <1>6. EncoderStands(tr, m)'
    BY DEF EncoderStands
  <1>7. Opened' /\ Results'
    BY <1>1 DEF Opened, Results, FilesKept
  <1>8. file'.header \in Headers /\ "payload" \in DOMAIN file'
    BY <1>1 DEF Stored, FilesKept
  <1>9. QED
    BY <1>3, <1>4, <1>5, <1>6, <1>7, <1>8, InvFromParts

\* decompress gives up, which it does not on what compress wrote.
LEMMA GivesUp ==
  ASSUME DtlzInv, phase = "decompress", FilesKept, Give("error"),
         \A m \in Nat : \A tr : ~ (Standing(tr, m) /\ Intact)
  PROVE  DtlzInv'
  <1>1. Stored /\ Opened /\ phase' = "done" /\ verdict' = "error"
    BY StoredFacts DEF Give
  <1>2. PICK m \in Nat : \E tr : Standing(tr, m)
    BY <1>1 DEF Stored
  <1>3. PICK tr : Standing(tr, m)
    BY <1>2
  <1>4. Kept
    BY <1>1 DEF Kept, FilesKept
  <1>5. DecoderStands(tr, m)' /\ EncoderStands(tr, m)'
    BY <1>1 DEF DecoderStands, EncoderStands
  <1>6. ~ Intact'
    BY <1>3, IntactKept
  <1>7. Opened' /\ Results'
    BY <1>1, <1>6 DEF Opened, Results, FilesKept
  <1>8. file'.header \in Headers /\ "payload" \in DOMAIN file'
    BY <1>1 DEF Stored, FilesKept
  <1>9. QED
    BY <1>1, <1>3, <1>4, <1>5, <1>7, <1>8, InvFromParts

LEMMA StreamKeptByFiles ==
  ASSUME DtlzInv, phase # "compress", phase' # "compress", FilesKept
  PROVE  TS!StreamKept /\ Place' = Place /\ InputOK /\ Kept
  BY StoredFacts, StreamIsKept DEF Kept, FilesKept

LEMMA RestoringKept ==
  ASSUME DtlzInv, phase # "compress", phase' # "compress", FilesKept,
         context' = context, decoded' = decoded, bytes' = bytes, Restoring
  PROVE  Restoring'
  BY StreamKeptByFiles DEF Restoring, FilesKept

LEMMA DecoderRunsInv ==
  ASSUME DtlzInv, DecoderRuns
  PROVE  DtlzInv'
  <1>1. /\ phase = "decompress" /\ phase' = "decompress" /\ verdict' = verdict
        /\ context' = context /\ decoded' = decoded /\ bytes' = bytes
        /\ Dec!OpenDigit \/ Dec!OpenDone \/ Dec!DecoderRenorm \/ Dec!DecoderRenormDone
    BY DEF DecoderRuns, progress, restored
  <1>2. FilesKept
    BY <1>1 DEF DecoderRuns, files, FilesKept, Dec!OpenDigit, Dec!OpenDone, Dec!DecoderRenorm,
       Dec!DecoderRenormDone
  <1>3. TS!StreamKept
    BY <1>1, <1>2, StreamKeptByFiles
  <1>4. ASSUME NEW m \in Nat, NEW tr, Standing(tr, m), Intact PROVE Decodes(tr, m)
    <2>1. TS!Decoding(tr, m) /\ Restoring
      BY <1>1, <1>4, DecodingFacts
    <2>2. PICK j \in 0 .. m : TS!DecoderAt(tr[j])
      BY <1>1, <1>4, DecodingFacts
    <2>3. Restoring'
      BY <1>1, <1>2, <2>1, RestoringKept
    <2>4. \E k \in 0 .. m : TS!DecoderAt(tr[k])'
      <3>1. CASE Dec!OpenDigit
        BY <1>1, <1>3, <2>1, <2>2, <3>1, SameDecoder, StreamAssumption, TS!OpenDigitStep
      <3>2. CASE Dec!OpenDone
        BY <1>1, <1>3, <2>1, <2>2, <3>2, SameDecoder, StreamAssumption, TS!OpenDoneStep
      <3>3. CASE Dec!DecoderRenorm
        BY <1>1, <1>3, <2>1, <2>2, <3>3, SameDecoder, StreamAssumption, TS!DecoderRenormStep
      <3>4. CASE Dec!DecoderRenormDone
        BY <1>1, <1>3, <2>1, <2>2, <3>4, SameDecoder, StreamAssumption, TS!DecoderRenormDoneStep
      <3>5. QED
        BY <1>1, <3>1, <3>2, <3>3, <3>4
    <2>5. QED
      BY <2>3, <2>4 DEF Decodes
  <1>5. QED
    BY <1>1, <1>2, <1>4, DecodingGoesOn

LEMMA DecoderEofInv ==
  ASSUME DtlzInv, DecoderEof
  PROVE  DtlzInv'
  <1>1. /\ phase = "decompress" /\ Give("error") /\ Dec!Eof
    BY DEF DecoderEof
  <1>2. FilesKept
    BY DEF DecoderEof, files, FilesKept, Dec!Eof
  <1>3. ASSUME NEW m \in Nat, NEW tr, Standing(tr, m), Intact PROVE FALSE
    <2>1. TS!Decoding(tr, m)
      BY <1>1, <1>3, DecodingFacts
    <2>2. PICK j \in 0 .. m : TS!DecoderAt(tr[j])
      BY <1>1, <1>3, DecodingFacts
    <2>3. dinput # written.payload
      BY <1>1, <2>1, <2>2, SameDecoder, StreamAssumption, TS!NoEof
    <2>4. QED
      BY <1>3, <2>3 DEF Intact
  <1>4. QED
    BY <1>1, <1>2, <1>3, GivesUp

LEMMA HeaderTyped ==
  ASSUME DtlzInv, phase \in {"decompress", "reencode", "done"}
  PROVE  header \in Headers
  BY StoredFacts DEF Stored, Opened

LEMMA DecodeValueInv ==
  ASSUME DtlzInv, DecodeValue
  PROVE  DtlzInv'
  <1>1. /\ phase = "decompress" /\ dpc = "ready" /\ dpending = <<>> /\ ~ Restored
        /\ context' = context /\ decoded' = decoded /\ bytes' = bytes
    BY DEF DecodeValue, restored
  <1>2. PICK total : total = TableAfter(context).total
    OBVIOUS
  <1>3. \/ Dec!CanDecode(total) /\ Dec!DecodeFreq(total) /\ phase' = phase /\ verdict' = verdict
        \/ ~ Dec!CanDecode(total) /\ Give("error") /\ UNCHANGED decVars
    BY <1>2 DEF DecodeValue, progress
  <1>4. FilesKept
    BY <1>3 DEF DecodeValue, files, FilesKept, Dec!DecodeFreq, decVars
  <1>5. ASSUME NEW m \in Nat, NEW tr, Standing(tr, m), Intact
        PROVE  /\ TS!Decoding(tr, m) /\ Restoring
               /\ TS!TokensLeft /\ TS!NextTable.total = total
               /\ \E j \in 0 .. m : TS!DecoderAt(tr[j])
    <2>1. TS!Decoding(tr, m) /\ Restoring /\ \E j \in 0 .. m : TS!DecoderAt(tr[j])
      BY <1>1, <1>5, DecodingFacts
    <2>2. InputOK /\ header \in Headers
      BY <1>1, StoredFacts, HeaderTyped
    <2>3. PICK n \in Nat : AtSymbol(n)
      BY <1>1, <2>1, <2>2, DecodedSoFar
    <2>4. TS!TokensLeft
      BY <1>1, <1>5, <2>1, <2>2, <2>3, MissingBytes
    <2>5. TS!NextTable = TableAfter(context)
      BY <1>1, <1>5, <2>1, <2>2, <2>3, <2>4, TablesAgree
    <2>6. QED
      BY <1>2, <2>1, <2>4, <2>5
  <1>6. ASSUME NEW m \in Nat, NEW tr, Standing(tr, m), Intact PROVE Dec!CanDecode(total)
    <2>1. PICK j \in 0 .. m : TS!DecoderAt(tr[j])
      BY <1>5, <1>6
    <2>2. TS!Dec!CanDecode(TS!NextTable.total)
      BY <1>1, <1>5, <1>6, <2>1, StreamAssumption, TS!DecodeFreqIsPossible
    <2>3. QED
      BY <1>5, <1>6, <2>2, SameDecoder
  <1>7. CASE ~ Dec!CanDecode(total)
    BY <1>1, <1>3, <1>4, <1>6, <1>7, GivesUp
  <1>8. CASE Dec!CanDecode(total)
    <2>1. Dec!DecodeFreq(total) /\ phase' = "decompress" /\ verdict' = verdict
      BY <1>1, <1>3, <1>8
    <2>2. TS!StreamKept
      BY <1>1, <1>4, <2>1, StreamKeptByFiles
    <2>3. ASSUME NEW m \in Nat, NEW tr, Standing(tr, m), Intact PROVE Decodes(tr, m)
      <3>1. PICK j \in 0 .. m : TS!DecoderAt(tr[j])
        BY <1>5, <2>3
      <3>2. TS!Dec!DecodeFreq(TS!NextTable.total)
        BY <1>5, <2>1, <2>3, SameDecoder
      <3>3. TS!DecoderAt(tr[j])'
        BY <1>1, <1>5, <2>2, <2>3, <3>1, <3>2, StreamAssumption, TS!DecodeFreqStep
      <3>4. Restoring'
        BY <1>1, <1>4, <1>5, <2>1, <2>3, RestoringKept
      <3>5. QED
        BY <3>3, <3>4 DEF Decodes
    <2>4. QED
      BY <1>1, <1>4, <2>1, <2>3, DecodingGoesOn
  <1>9. QED
    BY <1>7, <1>8

\* Decoding the next symbol restores its piece.
LEMMA RestoresPiece ==
  ASSUME DtlzInv, phase = "decompress", phase' = "decompress", FilesKept, Restoring,
         NEW n \in Nat, AtSymbol(n), n < Len(symbols),
         NEW symbol, symbol = symbols[n + 1],
         decoded' = Append(decoded, symbol),
         bytes' = bytes \o PieceOf(symbol),
         context' = IF IsToken(symbol) THEN Append(context, symbol) ELSE context
  PROVE  Restoring'
  <1>1. InputOK /\ Place' = Place /\ symbols' = symbols /\ input' = input
    BY StreamKeptByFiles DEF FilesKept
  <1>2. PICK M \in Nat, s \in Seq(Symbols) : s = symbols /\ M = Len(s)
    BY <1>1, PlaceFacts
  <1>3. n + 1 \in 1 .. M /\ n \in 0 .. M - 1 /\ (n + 1) - 1 = n /\ n + 1 \in 0 .. M /\ n \in 0 .. M
    BY <1>2
  <1>4. Len(decoded') = n + 1
    BY DEF AtSymbol
  <1>5. context' = TokensBefore(symbols', Len(decoded'))
    <2>1. context = TokensBefore(s, n)
      BY <1>2 DEF Restoring, AtSymbol
    <2>2. \A i \in 1 .. M : s[i] \in Symbols
      BY <1>2
    <2>3. TokensBefore(s, n + 1) = Added(s, n + 1, TokensBefore(s, n))
      BY <1>3, <2>2, TokensGrow
    <2>4. QED
      BY <1>1, <1>2, <1>4, <2>1, <2>3 DEF Added
  <1>6. PICK all \in Seq(Bytes), N \in Nat : all = input /\ N = Len(all)
    BY <1>1, PlaceFacts
  <1>7. PICK p \in 1 .. N + 1, q \in 1 .. N + 1 : p = Place[n] /\ q = Place[n + 1]
    BY <1>1, <1>2, <1>3, <1>6, PlaceFacts
  <1>8. p < q /\ PieceOf(symbol) = SubSeq(all, p, q - 1)
    BY <1>1, <1>2, <1>3, <1>6, <1>7, PlaceFacts
  <1>9. bytes = SubSeq(all, 1, p - 1)
    BY <1>1, <1>6, <1>7, BytesRestored
  <1>10. SubSeq(all, 1, p - 1) \o SubSeq(all, p, q - 1) = SubSeq(all, 1, q - 1)
    <2>1. p - 1 \in 1 - 1 .. Len(all) /\ q - 1 \in p - 1 .. Len(all) /\ 1 \in 1 .. Len(all) + 1
          /\ (p - 1) + 1 = p
      BY <1>6, <1>8
    <2>2. QED
      BY <2>1, ConcatAdjacentSubSeq
  <1>11. bytes' = SubSeq(input', 1, Place'[Len(decoded')] - 1)
    BY <1>1, <1>4, <1>6, <1>7, <1>8, <1>9, <1>10
  <1>12. QED
    BY <1>5, <1>11 DEF Restoring

LEMMA PieceIsNotEmpty ==
  ASSUME InputOK, NEW n \in Nat, n < Len(symbols)
  PROVE  PieceOf(symbols[n + 1]) # <<>>
  <1>1. PICK M \in Nat : M = Len(symbols)
    BY PlaceFacts
  <1>2. n + 1 \in 1 .. M /\ n \in 0 .. M /\ n + 1 \in 0 .. M /\ (n + 1) - 1 = n
    BY <1>1
  <1>3. PICK all \in Seq(Bytes), N \in Nat : all = input /\ N = Len(all)
    BY PlaceFacts
  <1>4. PICK p \in 1 .. N + 1, q \in 1 .. N + 1 : p = Place[n] /\ q = Place[n + 1]
    BY <1>1, <1>2, <1>3, PlaceFacts
  <1>5. p < q /\ PieceOf(symbols[n + 1]) = SubSeq(all, p, q - 1)
    BY <1>1, <1>2, <1>3, <1>4, PlaceFacts
  <1>6. Len(SubSeq(all, p, q - 1)) = q - p
    <2>1. \A i \in p .. q - 1 : all[i] \in Bytes
      BY <1>3
    <2>2. QED
      BY <1>5, <2>1, SubSeqProperties
  <1>7. PICK piece : piece = SubSeq(all, p, q - 1)
    OBVIOUS
  <1>8. Len(piece) # 0
    <2>1. q - p > 0
      BY <1>5
    <2>2. QED
      BY <1>6, <1>7, <2>1
  <1>9. piece # <<>>
    BY <1>8
  <1>10. QED
    BY <1>5, <1>7, <1>9

LEMMA DecodeSymbolInv ==
  ASSUME DtlzInv, DecodeSymbol
  PROVE  DtlzInv'
  <1>1. PICK symbol : /\ symbol = DecodedSymbol
                      /\ \E iv \in {IntervalOf(TableAfter(context), symbol)} :
                           Dec!Advance(iv.cum, iv.freq, iv.total)
                      /\ IF PieceOf(symbol) = <<>>
                         THEN Give("error") /\ UNCHANGED restored
                         ELSE /\ decoded' = Append(decoded, symbol)
                              /\ bytes' = bytes \o PieceOf(symbol)
                              /\ context' = IF IsToken(symbol) THEN Append(context, symbol) ELSE context
                              /\ UNCHANGED progress
    BY DEF DecodeSymbol
  <1>2. PICK iv : iv = IntervalOf(TableAfter(context), symbol) /\ Dec!Advance(iv.cum, iv.freq, iv.total)
    BY <1>1
  <1>3. /\ phase = "decompress" /\ dpc = "ready" /\ dpending # <<>>
        /\ UNCHANGED encVars /\ UNCHANGED files
    BY DEF DecodeSymbol
  <1>4. FilesKept
    BY <1>2, <1>3 DEF files, FilesKept, Dec!Advance
  <1>5. InputOK /\ header \in Headers
    BY <1>3, StoredFacts, HeaderTyped
  <1>6. ASSUME NEW m \in Nat, NEW tr, Standing(tr, m), Intact, NEW j \in 0 .. m,
               TS!DecoderAt(tr[j]), NEW n \in Nat, AtSymbol(n)
        PROVE  /\ n < Len(symbols) /\ symbol = symbols[n + 1]
               /\ TS!NextTable = TableAfter(context)
               /\ symbol = TS!SymbolFor(TS!NextTable, TS!Dec!FreqValue(TS!NextTable.total))
    <2>1. TS!Decoding(tr, m) /\ Restoring
      BY <1>3, <1>6, DecodingFacts
    <2>2. PICK t : t = tr[j]
      OBVIOUS
    <2>3. TS!Underway(t)
      BY <1>3, <1>6, <2>2 DEF TS!DecoderAt, TS!Opening
    <2>4. t.symbols < Len(symbols) /\ dpending = <<drange \div TS!NextTable.total, TS!NextTable.total>>
      BY <1>3, <2>3 DEF TS!Underway, TS!PendingAt, Given
    <2>5. n < Len(symbols)
      BY <1>6, <2>3, <2>4 DEF TS!Underway, TS!Decoded, AtSymbol
    <2>6. TS!TokensLeft /\ TS!NextTable = TableAfter(context) /\ TS!NextToken = symbols[n + 1]
      BY <1>3, <1>5, <1>6, <2>1, <2>5, TablesAgree
    <2>7. TS!SymbolFor(TS!NextTable, TS!Dec!FreqValue(TS!NextTable.total)) = TS!NextToken
      BY <1>3, <1>6, <2>1, <2>6, StreamAssumption, TS!NextSymbol
    <2>8. dpending[2] = TS!NextTable.total
      BY <2>4
    <2>9. symbol = TS!SymbolFor(TS!NextTable, TS!Dec!FreqValue(TS!NextTable.total))
      BY <1>1, <2>6, <2>8, SameTables, SameDecoder DEF DecodedSymbol
    <2>10. QED
      BY <2>5, <2>6, <2>7, <2>9
  <1>7. ASSUME NEW m \in Nat, NEW tr, Standing(tr, m), Intact PROVE PieceOf(symbol) # <<>>
    <2>1. PICK j \in 0 .. m : TS!DecoderAt(tr[j])
      BY <1>3, <1>7, DecodingFacts
    <2>2. PICK n \in Nat : AtSymbol(n)
      BY <1>3, <1>5, <2>1, DecodedSoFar
    <2>3. QED
      BY <1>5, <1>6, <1>7, <2>1, <2>2, PieceIsNotEmpty
  <1>8. CASE PieceOf(symbol) = <<>>
    BY <1>1, <1>3, <1>4, <1>7, <1>8, GivesUp
  <1>9. CASE PieceOf(symbol) # <<>>
    <2>1. /\ decoded' = Append(decoded, symbol) /\ bytes' = bytes \o PieceOf(symbol)
          /\ context' = IF IsToken(symbol) THEN Append(context, symbol) ELSE context
          /\ phase' = phase /\ verdict' = verdict
      BY <1>1, <1>9 DEF progress
    <2>2. TS!StreamKept
      BY <1>3, <1>4, <2>1, StreamKeptByFiles
    <2>3. ASSUME NEW m \in Nat, NEW tr, Standing(tr, m), Intact PROVE Decodes(tr, m)
      <3>1. TS!Decoding(tr, m) /\ Restoring
        BY <1>3, <2>3, DecodingFacts
      <3>2. PICK j \in 0 .. m : TS!DecoderAt(tr[j])
        BY <1>3, <2>3, DecodingFacts
      <3>3. PICK n \in Nat : AtSymbol(n)
        BY <1>3, <1>5, <3>2, DecodedSoFar
      <3>4. /\ n < Len(symbols) /\ symbol = symbols[n + 1]
            /\ TS!NextTable = TableAfter(context)
            /\ symbol = TS!SymbolFor(TS!NextTable, TS!Dec!FreqValue(TS!NextTable.total))
        BY <1>6, <2>3, <3>2, <3>3
      <3>5. Restoring'
        BY <1>3, <1>4, <2>1, <3>1, <3>3, <3>4, RestoresPiece
      <3>6. TS!DecodeSymbol
        <4>1. iv = TS!IntervalOf(TS!NextTable, symbol)
          BY <1>2, <3>4, SameTables
        <4>2. TS!Dec!Advance(iv.cum, iv.freq, iv.total)
          BY <1>2, SameDecoder
        <4>3. UNCHANGED <<TS!encVars, IF phase = "decompress" THEN "decode" ELSE phase,
                          GivenTables, Given, written.payload, verdict>>
          BY <1>3, <2>1, <2>2 DEF encVars, TS!encVars, TS!StreamKept
        <4>4. QED
          BY <1>3, <2>1, <3>4, <4>1, <4>2, <4>3 DEF TS!DecodeSymbol
      <3>7. \E k \in 0 .. m : TS!DecoderAt(tr[k])'
        BY <1>3, <2>2, <3>1, <3>2, <3>6, StreamAssumption, TS!DecodeSymbolStep
      <3>8. QED
        BY <3>5, <3>7 DEF Decodes
    <2>4. QED
      BY <1>3, <1>4, <2>1, <2>3, DecodingGoesOn
  <1>10. QED
    BY <1>8, <1>9

-----------------------------------------------------------------------------
(***************************************************************************)
(* The second encoding, and what decompress makes of it.                   *)
(***************************************************************************)
LEMMA PrefixOfPrefix ==
  ASSUME NEW all \in Seq(Bytes), NEW q \in 0 .. Len(all), NEW l \in 0 .. q
  PROVE  SubSeq(SubSeq(all, 1, q), 1, l) = SubSeq(all, 1, l)
  <1>1. \A i \in 1 .. q : all[i] \in Bytes
    OBVIOUS
  <1>2. PICK s : s = SubSeq(all, 1, q)
    OBVIOUS
  <1>3. s \in Seq(Bytes) /\ Len(s) = q /\ \A i \in 1 .. q : s[i] = all[i]
    BY <1>1, <1>2, SubSeqProperties
  <1>4. PICK u, v : u = SubSeq(s, 1, l) /\ v = SubSeq(all, 1, l)
    OBVIOUS
  <1>5. u \in Seq(Bytes) /\ Len(u) = l /\ \A i \in 1 .. l : u[i] = s[i]
    BY <1>3, <1>4, SubSeqProperties
  <1>6. v \in Seq(Bytes) /\ Len(v) = l /\ \A i \in 1 .. l : v[i] = all[i]
    BY <1>1, <1>4, SubSeqProperties
  <1>7. u = v
    BY <1>3, <1>5, <1>6
  <1>8. QED
    BY <1>2, <1>4, <1>7

\* When orig_len bytes are restored they are the input's.
LEMMA OutputIsInput ==
  ASSUME InputOK, phase = "decompress", Intact, Restoring, NEW n, AtSymbol(n),
         header \in Headers, Restored
  PROVE  /\ Output = SubSeq(input, 1, header.orig_len)
         /\ header.orig_len = written.header.orig_len => ~ TS!TokensLeft
  <1>1. PICK all \in Seq(Bytes), N \in Nat : all = input /\ N = Len(all)
    BY PlaceFacts
  <1>2. PICK p \in 1 .. N + 1 : p = Place[n]
    BY <1>1, BytesRestored
  <1>3. PICK l \in Nat : l = header.orig_len
    BY DEF Headers
  <1>4. bytes = SubSeq(all, 1, p - 1) /\ Len(bytes) = p - 1
    BY <1>1, <1>2, BytesRestored
  <1>5. l <= p - 1
    BY <1>2, <1>3, <1>4 DEF Restored
  <1>6. SubSeq(SubSeq(all, 1, p - 1), 1, l) = SubSeq(all, 1, l)
    <2>1. p - 1 \in 0 .. Len(all) /\ l \in 0 .. p - 1
      BY <1>1, <1>2, <1>3, <1>5
    <2>2. QED
      BY <2>1, PrefixOfPrefix
  <1>7. Output = SubSeq(input, 1, header.orig_len)
    BY <1>1, <1>3, <1>4, <1>6 DEF Output
  <1>8. ASSUME l = written.header.orig_len PROVE ~ TS!TokensLeft
    <2>1. l = N
      BY <1>1, <1>8, LengthIsTrue
    <2>2. ~ (p < N + 1)
      BY <1>2, <1>5, <2>1
    <2>3. ~ (n < Len(symbols))
      BY <1>1, <1>2, <2>2, BytesRestored
    <2>4. QED
      BY <2>3, TablesAgree
  <1>9. QED
    BY <1>3, <1>7, <1>8

LEMMA ReencodeInv ==
  ASSUME DtlzInv, Reencode
  PROVE  DtlzInv'
  <1>1. /\ phase = "decompress" /\ phase' = "reencode" /\ verdict' = verdict
        /\ context' = context /\ decoded' = decoded /\ bytes' = bytes
        /\ dpc = "ready" /\ Restored /\ Enc!Restart
    BY DEF Reencode, restored
  <1>2. FilesKept
    BY DEF Reencode, FilesKept, files, decVars
  <1>3. Stored /\ Opened /\ InputOK /\ header \in Headers
    BY <1>1, StoredFacts, HeaderTyped
  <1>4. TS!StreamKept /\ Kept
    BY <1>1, <1>2, StreamKeptByFiles
  <1>5. PICK m \in Nat : \E tr : Standing(tr, m)
    BY <1>3 DEF Stored
  <1>6. PICK tr : Standing(tr, m)
    BY <1>5
  <1>7. DecoderStands(tr, m)'
    BY <1>1 DEF DecoderStands
  <1>8. EncoderStands(tr, m)'
    <2>1. TS!ReencoderAt(tr[0])' /\ 0 \in 0 .. m
      BY <1>1, <1>6, SameEncoder, StreamAssumption, TS!RestartAtFirst DEF Standing
    <2>2. QED
      BY <2>1 DEF EncoderStands
  <1>9. Opened'
    BY <1>1, <1>2, <1>3 DEF Opened, FilesKept
  <1>10. ASSUME Intact
         PROVE  /\ Output = SubSeq(input, 1, header.orig_len)
                /\ header.orig_len = written.header.orig_len => decoded = symbols
    <2>1. TS!Decoding(tr, m) /\ Restoring /\ \E j \in 0 .. m : TS!DecoderAt(tr[j])
      BY <1>1, <1>6, <1>10, DecodingFacts
    <2>2. PICK j \in 0 .. m : TS!DecoderAt(tr[j])
      BY <2>1
    <2>3. PICK n \in Nat : AtSymbol(n)
      BY <1>1, <1>3, <2>2, DecodedSoFar
    <2>4. /\ Output = SubSeq(input, 1, header.orig_len)
          /\ header.orig_len = written.header.orig_len => ~ TS!TokensLeft
      BY <1>1, <1>3, <1>10, <2>1, <2>3, OutputIsInput
    <2>5. ~ TS!TokensLeft => decoded = Given
      BY <1>1, <2>1, <2>2, StreamAssumption, TS!DecodingEnds
    <2>6. Given = symbols
      BY <1>1 DEF Given
    <2>7. QED
      BY <2>4, <2>5, <2>6
  <1>11. Results'
    <2>1. verdict' = "none"
      BY <1>1, <1>3 DEF Opened
    <2>2. Output' = Output
      BY <1>1, <1>2 DEF Output, FilesKept
    <2>3. QED
      BY <1>1, <1>2, <1>10, <2>1, <2>2, IntactKept DEF Results, FilesKept
  <1>12. file'.header \in Headers /\ "payload" \in DOMAIN file'
    BY <1>2, <1>3 DEF Stored, FilesKept
  <1>13. QED
    BY <1>1, <1>4, <1>6, <1>7, <1>8, <1>9, <1>11, <1>12, InvFromParts

\* The encoder's calls while what was decoded is encoded once more.
LEMMA ReencodingGoesOn ==
  ASSUME DtlzInv, phase = "reencode", phase' = "reencode", FilesKept, verdict' = verdict,
         bytes' = bytes, decoded' = decoded,
         \A m \in Nat : \A tr : Standing(tr, m) /\ SameStream /\ decoded = symbols =>
           TS!EncoderMoves(TS!Coded(GivenTables, Given), Len(Given)) \/ TS!Enc!FinishDone
  PROVE  DtlzInv'
  <1>1. /\ Stored /\ Opened /\ Results /\ TS!StreamOK
        /\ written.payload \in Seq(TS!RC!Digit)
    BY StoredFacts
  <1>2. TS!StreamKept /\ Kept
    BY StreamKeptByFiles
  <1>3. PICK m \in Nat : \E tr : Standing(tr, m)
    BY <1>1 DEF Stored
  <1>4. PICK tr : Standing(tr, m)
    BY <1>3
  <1>5. DecoderStands(tr, m)'
    BY DEF DecoderStands
  <1>6. EncoderStands(tr, m)'
    <2> SUFFICES ASSUME SameStream, decoded = symbols
                 PROVE  \E k \in 0 .. m : TS!ReencoderAt(tr[k])'
      BY IntactKept DEF EncoderStands, FilesKept
    <2>1. PICK j \in 0 .. m : TS!ReencoderAt(tr[j])
      BY <1>4 DEF Standing, EncoderStands
    <2>2. TS!Coding(tr, m)
      BY <1>4 DEF Standing
    <2>3. CASE TS!EncoderMoves(TS!Coded(GivenTables, Given), Len(Given))
      BY <1>1, <1>2, <2>1, <2>2, <2>3, StreamAssumption, TS!ReencodeStep
    <2>4. CASE TS!Enc!FinishDone
      BY <1>2, <2>1, <2>4, StreamAssumption, TS!ReencodeDone
    <2>5. QED
      BY <1>4, <2>3, <2>4
  <1>7. Opened'
    BY <1>1 DEF Opened, FilesKept
  <1>8. Results'
    <2>1. Output' = Output
      BY DEF Output, FilesKept
    <2>2. QED
      BY <1>1, <2>1, IntactKept DEF Results, FilesKept
  <1>9. file'.header \in Headers /\ "payload" \in DOMAIN file'
    BY <1>1 DEF Stored, FilesKept
  <1>10. QED
    BY <1>2, <1>4, <1>5, <1>6, <1>7, <1>8, <1>9, InvFromParts

LEMMA ReencodeSymbolInv ==
  ASSUME DtlzInv, phase = "reencode", EncodeSymbol
  PROVE  DtlzInv'
  <1>1. /\ phase' = "reencode" /\ verdict' = verdict /\ bytes' = bytes /\ decoded' = decoded
        /\ ecount < Len(decoded)
    BY DEF EncodeSymbol, progress, restored, Source
  <1>2. FilesKept
    BY DEF EncodeSymbol, FilesKept, files, decVars
  <1>3. ASSUME NEW m \in Nat, NEW tr, Standing(tr, m), SameStream, decoded = symbols
        PROVE  TS!EncoderMoves(TS!Coded(GivenTables, Given), Len(Given))
    <2>1. InputOK /\ TS!StreamOK
      BY StoredFacts
    <2>2. Given = symbols /\ Header = written.header
      BY DEF Given, Header
    <2>3. PICK j \in 0 .. m : TS!ReencoderAt(tr[j])
      BY <1>3 DEF Standing, EncoderStands
    <2>4. ecount \in 0 .. Len(Given)
      BY <1>3, <2>3, StreamAssumption, TS!ReencoderCounts DEF Standing
    <2>5. PICK M \in Nat : M = Len(symbols)
      BY <2>1, SymbolsOK
    <2>6. PICK n \in 0 .. M - 1 : n = ecount
      BY <1>1, <1>3, <2>2, <2>4, <2>5
    <2>7. GivenTables[n + 1] = TableUnder(written.header, TokensBefore(symbols, n))
      <3>1. n + 1 \in 1 .. M /\ (n + 1) - 1 = n
        BY <2>5
      <3>2. QED
        BY <2>2, <2>5, <3>1 DEF GivenTables
    <2>8. TableAfter(TokensBefore(Source, ecount)) = GivenTables[n + 1] /\ Source = symbols
      BY <1>3, <2>6, <2>7 DEF TableAfter, TableUnder, SameStream, Source
    <2>9. PICK iv : iv = IntervalOf(GivenTables[n + 1], symbols[n + 1])
                    /\ Enc!Encode(iv.cum, iv.freq, iv.total)
      BY <2>6, <2>8 DEF EncodeSymbol
    <2>10. TS!Enc!Encode(iv.cum, iv.freq, iv.total) /\ iv = TS!IntervalOf(GivenTables[ecount + 1], Given[ecount + 1])
      BY <2>2, <2>6, <2>9, SameEncoder, SameTables
    <2>11. ecount < Len(Given)
      BY <1>1, <1>3, <2>2
    <2>12. QED
      BY <2>1, <2>4, <2>10, <2>11, StreamAssumption, TS!EncodesNext
  <1>4. QED
    BY <1>1, <1>2, <1>3, ReencodingGoesOn

LEMMA ReencodingRunsInv ==
  ASSUME DtlzInv, phase = "reencode", EncoderRuns \/ FinishPayload
  PROVE  DtlzInv'
  <1>1. /\ phase' = "reencode" /\ verdict' = verdict /\ bytes' = bytes /\ decoded' = decoded
    BY DEF EncoderRuns, FinishPayload, progress, restored
  <1>2. FilesKept
    BY DEF EncoderRuns, FinishPayload, FilesKept, files, decVars
  <1>3. ASSUME decoded = symbols
        PROVE  TS!EncoderMoves(TS!Coded(GivenTables, Given), Len(Given)) \/ TS!Enc!FinishDone
    <2>1. Given = symbols /\ Source = symbols
      BY <1>3 DEF Given, Source
    <2>2. Enc!Renorm \/ Enc!RenormDone \/ Enc!FinishDigit \/ Enc!FinishDone
            \/ (ecount = Len(Given) /\ Enc!Finish)
      BY <2>1 DEF EncoderRuns, FinishPayload
    <2>3. QED
      BY <2>2, SameEncoder DEF TS!EncoderMoves
  <1>4. QED
    BY <1>1, <1>2, <1>3, ReencodingGoesOn

LEMMA CompareInv ==
  ASSUME DtlzInv, Compare
  PROVE  DtlzInv'
  <1>1. /\ phase = "reencode" /\ phase' = "done" /\ epc = "finished"
        /\ verdict' = (IF eout = file.payload THEN "ok" ELSE "error")
        /\ bytes' = bytes /\ decoded' = decoded
    BY DEF Compare, Give, restored
  <1>2. FilesKept
    BY DEF Compare, FilesKept, files, decVars
  <1>3. /\ Stored /\ Opened /\ Results /\ TS!StreamOK
        /\ written.payload \in Seq(TS!RC!Digit)
    BY <1>1, StoredFacts
  <1>4. Kept
    BY <1>1, <1>2, StreamKeptByFiles
  <1>5. PICK m \in Nat : \E tr : Standing(tr, m)
    BY <1>3 DEF Stored
  <1>6. PICK tr : Standing(tr, m)
    BY <1>5
  <1>7. DecoderStands(tr, m)' /\ EncoderStands(tr, m)'
    BY <1>1 DEF DecoderStands, EncoderStands
  <1>8. ASSUME SameStream, decoded = symbols PROVE eout = written.payload
    <2>1. PICK j \in 0 .. m : TS!ReencoderAt(tr[j])
      BY <1>1, <1>6, <1>8 DEF Standing, EncoderStands
    <2>2. QED
      BY <1>1, <1>3, <1>6, <2>1, StreamAssumption, TS!ReencodingEnds DEF Standing
  <1>9. dinput = file.payload
    BY <1>1, <1>3 DEF Opened
  <1>10. Opened'
    BY <1>1, <1>2, <1>3, <1>9 DEF Opened, FilesKept
  <1>11. Results'
    <2>1. Output' = Output
      BY <1>1, <1>2 DEF Output, FilesKept
    <2>2. ASSUME Intact
          PROVE  /\ Output = SubSeq(input, 1, header.orig_len)
                 /\ header.orig_len = written.header.orig_len => verdict' # "error" /\ decoded = symbols
      <3>1. verdict = "none"
        BY <1>1, <1>3 DEF Opened
      <3>2. /\ Output = SubSeq(input, 1, header.orig_len)
            /\ header.orig_len = written.header.orig_len => decoded = symbols
        BY <1>1, <1>3, <2>2, <3>1 DEF Results
      <3>3. ASSUME decoded = symbols PROVE verdict' # "error"
        <4>1. eout = file.payload
          BY <1>8, <1>9, <2>2, <3>3 DEF Intact
        <4>2. QED
          BY <1>1, <4>1
      <3>4. QED
        BY <3>2, <3>3
    <2>3. verdict' = "ok" /\ SameStream /\ decoded = symbols => file.payload = written.payload
      BY <1>1, <1>8
    <2>4. QED
      BY <1>1, <1>2, <2>1, <2>2, <2>3, IntactKept DEF Results, FilesKept
  <1>12. file'.header \in Headers /\ "payload" \in DOMAIN file'
    BY <1>2, <1>3 DEF Stored, FilesKept
  <1>13. QED
    BY <1>1, <1>4, <1>6, <1>7, <1>10, <1>11, <1>12, InvFromParts

-----------------------------------------------------------------------------
LEMMA CompressedInv ==
  ASSUME DtlzInv, phase = "compress", EncodeSymbol \/ FinishPayload \/ EncoderRuns
  PROVE  DtlzInv'
  <1>1. InputOK /\ Compressing /\ written = NoFile /\ file = NoFile
    BY DEF DtlzInv
  <1>2. written' = written /\ file' = file
    BY DEF EncodeSymbol, FinishPayload, EncoderRuns, files
  <1>3. InputOK' /\ phase' = "compress" /\ Compressing'
    BY <1>1, EncodeSymbolGrows, CompressingRuns
  <1>4. QED
    BY <1>1, <1>2, <1>3 DEF DtlzInv, NoFile

LEMMA UnchangedInv ==
  ASSUME DtlzInv, UNCHANGED vars
  PROVE  DtlzInv'
  <1>1. /\ phase' = phase /\ verdict' = verdict
        /\ context' = context /\ decoded' = decoded /\ bytes' = bytes
        /\ input' = input /\ symbols' = symbols /\ header' = header
        /\ written' = written /\ file' = file
    BY DEF vars, files, restored, progress
  <1>2. UNCHANGED encVars /\ UNCHANGED decVars
    BY DEF vars
  <1>3. Given' = Given /\ Header' = Header
    BY <1>1, <1>2 DEF Given, Header, encVars
  <1>4. GivenTables' = GivenTables
    BY <1>1, <1>3 DEF GivenTables
  <1>5. InputOK' <=> InputOK
    BY <1>1, <1>2, <1>3 DEF InputOK, encVars
  <1>6. \A t : TS!EncoderAt(t)' <=> TS!EncoderAt(t)
    BY <1>2 DEF encVars, TS!EncoderAt, TS!EncoderTurn
  <1>7. TS!Encoding' <=> TS!Encoding
    BY <1>2, <1>3, <1>4, <1>6 DEF encVars, TS!Encoding, TS!IsEncoding
  <1>8. Compressing' <=> Compressing
    BY <1>1, <1>2, <1>7 DEF Compressing, encVars, decVars
  <1>9. CASE phase = "compress"
    BY <1>1, <1>5, <1>8, <1>9 DEF DtlzInv, NoFile
  <1>10. CASE phase # "compress"
    <2>1. FilesKept /\ Kept
      BY <1>1, <1>2, <1>10 DEF FilesKept, Kept, decVars
    <2>2. Stored /\ Opened /\ Results /\ InputOK
      BY <1>10, StoredFacts
    <2>3. PICK m \in Nat : \E tr : Standing(tr, m)
      BY <2>2 DEF Stored
    <2>4. PICK tr : Standing(tr, m)
      BY <2>3
    <2>5. ASSUME NEW t PROVE TS!DecoderAt(t)' <=> TS!DecoderAt(t)
      <3>1. written.payload' = written.payload /\ TS!NextTable' = TS!NextTable
        BY <1>1, <1>4 DEF TS!NextTable
      <3>2. TS!Opening(t)' <=> TS!Opening(t)
        BY <1>1, <1>2 DEF decVars, TS!Opening
      <3>3. TS!Decoded(t.symbols)' <=> TS!Decoded(t.symbols)
        BY <1>1, <1>3 DEF TS!Decoded
      <3>4. TS!PendingAt(t)' <=> TS!PendingAt(t)
        BY <1>2, <1>3, <3>1 DEF decVars, TS!PendingAt
      <3>5. TS!Underway(t)' <=> TS!Underway(t)
        BY <1>2, <3>3, <3>4 DEF decVars, TS!Underway
      <3>6. QED
        BY <1>2, <3>1, <3>2, <3>5 DEF decVars, TS!DecoderAt
    <2>6. \A t : TS!ReencoderAt(t)' <=> TS!ReencoderAt(t)
      BY <1>1, <1>2, <1>6 DEF encVars, TS!ReencoderAt
    <2>7. Restoring' <=> Restoring
      BY <1>1, <2>1, <2>2, StreamIsKept DEF Restoring
    <2>8. DecoderStands(tr, m)' /\ EncoderStands(tr, m)'
      BY <1>1, <2>1, <2>4, <2>5, <2>6, <2>7, IntactKept DEF Standing, DecoderStands, EncoderStands
    <2>9. Opened'
      BY <1>1, <2>1, <2>2 DEF Opened, FilesKept
    <2>10. Results'
      <3>1. Output' = Output
        BY <1>1 DEF Output
      <3>2. QED
        BY <1>1, <2>1, <2>2, <3>1, IntactKept DEF Results
    <2>11. phase' \in {"stored", "decompress", "reencode", "done"}
      BY <1>1, <1>10 DEF DtlzInv
    <2>12. file'.header \in Headers /\ "payload" \in DOMAIN file'
      BY <1>1, <2>2 DEF Stored
    <2>13. QED
      BY <2>1, <2>4, <2>8, <2>9, <2>10, <2>11, <2>12, InvFromParts
  <1>11. QED
    BY <1>9, <1>10

LEMMA DtlzNextInv == DtlzInv /\ [Next]_vars => DtlzInv'
  <1> SUFFICES ASSUME DtlzInv, [Next]_vars PROVE DtlzInv'
    OBVIOUS
  <1>1. CASE EncodeSymbol \/ FinishPayload \/ EncoderRuns
    <2>1. phase \in {"compress", "reencode"}
      BY <1>1 DEF EncodeSymbol, FinishPayload, EncoderRuns
    <2>2. QED
      BY <1>1, <2>1, CompressedInv, ReencodeSymbolInv, ReencodingRunsInv
  <1>2. CASE Store
    BY <1>2, StoreInv
  <1>3. CASE Damage
    BY <1>3, DamageInv
  <1>4. ASSUME NEW model \in Models, Open(model) PROVE DtlzInv'
    BY <1>4, OpenInv
  <1>5. CASE DecoderRuns
    BY <1>5, DecoderRunsInv
  <1>6. CASE DecoderEof
    BY <1>6, DecoderEofInv
  <1>7. CASE DecodeValue
    BY <1>7, DecodeValueInv
  <1>8. CASE DecodeSymbol
    BY <1>8, DecodeSymbolInv
  <1>9. CASE Reencode
    BY <1>9, ReencodeInv
  <1>10. CASE Compare
    BY <1>10, CompareInv
  <1>11. CASE UNCHANGED vars
    BY <1>11, UnchangedInv
  <1>12. QED
    BY <1>1, <1>2, <1>3, <1>4, <1>5, <1>6, <1>7, <1>8, <1>9, <1>10, <1>11 DEF Next

LEMMA DtlzInvariance == Spec => []DtlzInv
  <1>1. Init => DtlzInv
    BY CompressInit DEF DtlzInv, Init
  <1>2. QED
    BY <1>1, DtlzNextInv, PTL DEF Spec

-----------------------------------------------------------------------------
LEMMA PrefixBySymbols ==
  ASSUME symbols \in Seq(Symbols), NEW n, AtSymbol(n)
  PROVE  IsPrefixOf(decoded, symbols)
  <1>1. PICK s \in Seq(Symbols), d \in Seq(Nat) : s = symbols /\ d = decoded
    BY DEF AtSymbol
  <1>2. n \in 0 .. Len(s) /\ Len(d) = n /\ \A i \in 1 .. n : d[i] = s[i]
    BY <1>1 DEF AtSymbol
  <1>3. PICK p : p = SubSeq(s, 1, n)
    OBVIOUS
  <1>4. p \in Seq(Symbols) /\ Len(p) = n /\ \A i \in 1 .. n : p[i] = s[i]
    <2>1. \A i \in 1 .. n : s[i] \in Symbols
      BY <1>2
    <2>2. QED
      BY <1>2, <1>3, <2>1, SubSeqProperties
  <1>5. d = p
    BY <1>2, <1>4
  <1>6. QED
    BY <1>1, <1>2, <1>3, <1>5 DEF IsPrefixOf

\* A file that was opened unharmed.
LEMMA UnharmedIsIntact ==
  ASSUME DtlzInv, phase \in {"decompress", "reencode", "done"},
         file = written, dinput = file.payload
  PROVE  Intact /\ header.orig_len = written.header.orig_len
  <1>1. header = written.header /\ written.header \in Headers
    BY StoredFacts DEF Opened
  <1>2. header.orig_len \in Nat
    BY <1>1 DEF Headers
  <1>3. QED
    BY <1>1, <1>2 DEF Intact, SameStream

(***************************************************************************)
(* The file compress writes restores the input: decompress never fails on  *)
(* it, decodes its symbols in order, stops at the last although the file   *)
(* does not count them, and writes the input's bytes.  For every base and  *)
(* word size of the coder, every vocabulary, model, window and input.      *)
(***************************************************************************)
THEOREM FileRestoresInput == Spec => []RoundTrip
  <1>1. DtlzInv => RoundTrip
    <2> SUFFICES ASSUME DtlzInv, file = written, dinput = file.payload
                 PROVE  /\ IsPrefixOf(decoded, symbols)
                        /\ phase \in {"reencode", "done"} =>
                             verdict # "error" /\ decoded = symbols /\ Output = input
      BY DEF RoundTrip
    <2>1. InputOK /\ symbols \in Seq(Symbols)
      BY SymbolsOK DEF DtlzInv
    <2>2. CASE phase \in {"compress", "stored"}
      <3>1. decoded = <<>>
        BY <2>2 DEF DtlzInv, Compressing, Stored, Opened
      <3>2. AtSymbol(0)
        BY <2>1, <3>1 DEF AtSymbol
      <3>3. QED
        BY <2>1, <2>2, <3>2, PrefixBySymbols
    <2>3. CASE phase = "decompress"
      <3>1. Intact
        BY <2>3, UnharmedIsIntact
      <3>2. PICK m \in Nat : \E tr : Standing(tr, m)
        BY <2>3, StoredFacts
      <3>3. PICK tr : Standing(tr, m)
        BY <3>2
      <3>4. PICK j \in 0 .. m : TS!DecoderAt(tr[j])
        BY <2>3, <3>1, <3>3, DecodingFacts
      <3>5. PICK n \in Nat : AtSymbol(n)
        BY <2>1, <2>3, <3>4, DecodedSoFar
      <3>6. QED
        BY <2>1, <2>3, <3>5, PrefixBySymbols
    <2>4. CASE phase \in {"reencode", "done"}
      <3>1. Intact /\ header.orig_len = written.header.orig_len
        BY <2>4, UnharmedIsIntact
      <3>2. Results /\ written.header.orig_len = Len(input)
        BY <2>1, <2>4, StoredFacts, LengthIsTrue
      <3>3. verdict # "error" /\ decoded = symbols
        BY <2>4, <3>1, <3>2 DEF Results
      <3>4. Output = SubSeq(input, 1, Len(input))
        BY <2>4, <3>1, <3>2, <3>3 DEF Results
      <3>5. Output = input
        BY <2>1, <3>4, PlaceFacts, SubSeqFull
      <3>6. IsPrefixOf(decoded, symbols)
        <4>1. SubSeq(symbols, 1, Len(symbols)) = symbols
          BY <2>1, SubSeqFull
        <4>2. QED
          BY <2>1, <3>3, <4>1 DEF IsPrefixOf
      <3>7. QED
        BY <3>3, <3>5, <3>6
    <2>5. QED
      BY <2>2, <2>3, <2>4 DEF DtlzInv
  <1>2. QED
    BY <1>1, DtlzInvariance, PTL

(***************************************************************************)
(* What decompress accepts of a damaged file: with only a smaller orig_len *)
(* it writes that many bytes of the input, and no other payload for the    *)
(* same symbols under the header that was written is accepted.             *)
(***************************************************************************)
THEOREM DamageNeverPasses == Spec => []DamageIsSeen
  <1>1. DtlzInv => DamageIsSeen
    <2> SUFFICES ASSUME DtlzInv PROVE DamageIsSeen
      OBVIOUS
    <2>1. ASSUME verdict = "ok"
          PROVE  /\ phase = "done" /\ header = file.header /\ dinput = file.payload
                 /\ Results /\ written \in [header : Headers, payload : Seq(Digit)]
      <3>1. phase # "compress"
        BY <2>1 DEF DtlzInv, Compressing
      <3>2. Opened
        BY <3>1, StoredFacts
      <3>3. QED
        BY <2>1, <3>1, <3>2, StoredFacts DEF Opened
    <2>2. OrigLenIsAuthoritative
      <3> SUFFICES ASSUME NEW n, n = header.orig_len, verdict = "ok",
                          n <= written.header.orig_len,
                          file = [written EXCEPT !.header.orig_len = n]
                   PROVE  Output = SubSeq(input, 1, n)
        BY DEF OrigLenIsAuthoritative
      <3>1. PICK w \in [header : Headers, payload : Seq(Digit)] : w = written
        BY <2>1
      <3>2. /\ file.payload = w.payload
            /\ file.header.model = w.header.model /\ file.header.escapes = w.header.escapes
            /\ file.header.n_ctx = w.header.n_ctx /\ file.header.overlap = w.header.overlap
        BY <3>1 DEF Headers
      <3>3. Intact
        BY <2>1, <3>1, <3>2 DEF Intact, SameStream
      <3>4. QED
        BY <2>1, <3>3 DEF Results
    <2>3. OnePayloadPerStream
      <3> SUFFICES ASSUME verdict = "ok", file.header = written.header, decoded = symbols
                   PROVE  file.payload = written.payload
        BY DEF OnePayloadPerStream
      <3>1. SameStream
        BY <2>1 DEF SameStream
      <3>2. QED
        BY <2>1, <3>1 DEF Results
    <2>4. QED
      BY <2>2, <2>3 DEF DamageIsSeen
  <1>2. QED
    BY <1>1, DtlzInvariance, PTL
=============================================================================
