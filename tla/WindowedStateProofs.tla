------------------------ MODULE WindowedStateProofs -------------------------
(***************************************************************************)
(* The safety of the windowed model state, for every window size, overlap, *)
(* vocabulary and length of the stream, and that it implements             *)
(* ContextCoder; then that the KV cache it evaluates the model with is a   *)
(* map, for every shape; and, in the last part, that the three ways to     *)
(* turn the model's logits into an interval agree, for every row.          *)
(***************************************************************************)
EXTENDS WindowedState, KvCache, CdfScratch, SequenceTheorems, NumberLemmas

(***************************************************************************)
(* The closed form of the window's start is the one the code reaches step  *)
(* by step: with room for one more token, stable at a position, and        *)
(* carried from each position to the next.                                 *)
(***************************************************************************)
LEMMA WindowForms ==
  /\ NCtx \in Nat /\ Stride \in 1 .. NCtx
  /\ \A n : StartAt(n) = StartOf(NCtx, Stride, n)
  /\ \A n, s : NextWindowStart(n, s) = Slid(NCtx, Stride, n, s)
  <1>1. NCtx \in Nat /\ Stride \in 1 .. NCtx /\ NCtx - Stride = Overlap
    BY WindowAssumption DEF Stride
  <1>2. QED
    BY <1>1 DEF StartAt, StartOf, NextWindowStart, Slid

LEMMA StartInside ==
  ASSUME NEW n \in Nat
  PROVE  StartAt(n) \in 0 .. n /\ n - StartAt(n) < NCtx
  BY WindowForms, WindowHasRoom

LEMMA SlideStable ==
  ASSUME NEW n \in Nat
  PROVE  NextWindowStart(n, StartAt(n)) = StartAt(n)
  BY WindowForms, WindowIsStable

LEMMA SlideNext ==
  ASSUME NEW n \in Nat
  PROVE  NextWindowStart(n + 1, StartAt(n)) = StartAt(n + 1)
  BY WindowForms, WindowSlides

-----------------------------------------------------------------------------
(***************************************************************************)
(* The inductive invariant.  The cache is a prefix of the current window,  *)
(* at every step of a replay too; the window starts where the position     *)
(* says, except that it may lag one token behind between advance and sync. *)
(* That lag is why the state between two symbols is part of the invariant  *)
(* and not only the state in which one is coded.                           *)
(***************************************************************************)
Prefix(n) ==
  /\ window_start \in 0 .. n
  /\ context_len \in 0 .. n - window_start
  /\ \A p \in 0 .. context_len - 1 : cache[p] = tokens[window_start + p + 1]
  /\ context_len > 0 =>
       logits = SubSeq(tokens, window_start + 1, window_start + context_len)

WindowAt ==
  LET n == Len(tokens) IN
  /\ pc = "sync" =>
       /\ window_start + context_len = n
       /\ window_start = StartAt(n) \/ (n > 0 /\ window_start = StartAt(n - 1))
  /\ pc = "replay" => window_start = StartAt(n)
  /\ pc = "code" => window_start = StartAt(n) /\ window_start + context_len = n
  /\ pc = "advance" =>
       /\ n > 0
       /\ window_start = StartAt(n - 1)
       /\ window_start + context_len = n - 1

Inv ==
  /\ TypeOK
  /\ NeverOverrun
  /\ Prefix(Len(tokens))
  /\ WindowAt

LEMMA InitInv == Init => Inv
  <1> SUFFICES ASSUME Init PROVE Inv
    OBVIOUS
  <1>1. Len(tokens) = 0 /\ StartAt(0) = 0
    BY StartInside DEF Init
  <1>2. TypeOK
    BY WindowAssumption DEF Init, TypeOK, EmptyCache, Positions
  <1>3. Prefix(0)
    BY DEF Init, Prefix
  <1>4. QED
    BY <1>1, <1>2, <1>3 DEF Init, Inv, NeverOverrun, WindowAt

\* A forward pass with the token that follows the cached ones.
LEMMA ForwardStep ==
  ASSUME Inv,
         context_len < NCtx,
         window_start + context_len < Len(tokens),
         Store(tokens[window_start + context_len + 1]),
         UNCHANGED <<tokens, window_start, used>>
  PROVE  /\ context_len' = context_len + 1
         /\ context_len' \in 0 .. NCtx
         /\ cache' \in [Positions -> Tokens \cup {Empty}]
         /\ logits' \in Seq(Tokens)
         /\ Prefix(Len(tokens))'
  <1> DEFINE m == context_len
             w == window_start
             t == tokens[w + m + 1]
  <1>1. /\ tokens \in Seq(Tokens) /\ w \in Nat /\ m \in 0 .. NCtx - 1
        /\ cache \in [Positions -> Tokens \cup {Empty}]
        /\ \A p \in 0 .. m - 1 : cache[p] = tokens[w + p + 1]
        /\ NCtx \in Nat /\ Len(tokens) \in Nat
    BY WindowAssumption DEF Inv, TypeOK, Prefix
  <1>2. t \in Tokens
    BY <1>1
  <1>3. /\ cache' = [cache EXCEPT ![m] = t]
        /\ logits' = [i \in 1 .. m + 1 |-> cache'[i - 1]]
        /\ context_len' = m + 1 /\ tokens' = tokens /\ window_start' = w
    BY DEF Store
  <1>4. cache' \in [Positions -> Tokens \cup {Empty}]
    BY <1>1, <1>2, <1>3
  <1>5. \A p \in 0 .. m : cache'[p] = tokens[w + p + 1]
    BY <1>1, <1>3 DEF Positions
  <1>6. \A i \in 1 .. m + 1 : tokens[w + i] \in Tokens
    BY <1>1
  <1>7. logits' = [i \in 1 .. m + 1 |-> tokens[w + i]]
    <2>1. \A i \in 1 .. m + 1 : i - 1 \in 0 .. m /\ w + (i - 1) + 1 = w + i
      BY <1>1
    <2>2. \A i \in 1 .. m + 1 : cache'[i - 1] = tokens[w + i]
      BY <1>5, <2>1
    <2>3. QED
      BY <1>3, <2>2
  <1>8. logits' \in Seq(Tokens)
    BY <1>1, <1>6, <1>7
  <1>9. logits' = SubSeq(tokens, w + 1, w + (m + 1))
    <2>1. SubSeq(tokens, w + 1, w + (m + 1)) = [i \in 1 .. m + 1 |-> tokens[w + i]]
      BY <1>1
    <2>2. QED
      BY <1>7, <2>1
  <1>10. Prefix(Len(tokens))'
    BY <1>1, <1>3, <1>5, <1>9 DEF Prefix
  <1>11. QED
    BY <1>1, <1>3, <1>4, <1>8, <1>10

\* A token appended to the stream leaves what the cache holds a prefix.
LEMMA AppendStep ==
  ASSUME Inv, NEW token \in Tokens,
         tokens' = Append(tokens, token),
         UNCHANGED <<window_start, context_len, cache, logits>>
  PROVE  /\ tokens' \in Seq(Tokens)
         /\ Len(tokens') = Len(tokens) + 1
         /\ Prefix(Len(tokens))'
  <1> DEFINE n == Len(tokens)
  <1>1. /\ tokens \in Seq(Tokens) /\ n \in Nat
        /\ window_start \in 0 .. n /\ context_len \in 0 .. n - window_start
    BY DEF Inv, TypeOK, Prefix
  <1>2. /\ tokens' \in Seq(Tokens) /\ Len(tokens') = n + 1
        /\ \A i \in 1 .. n : tokens'[i] = tokens[i]
    BY <1>1
  <1>3. \A p \in 0 .. context_len - 1 :
          cache'[p] = tokens'[window_start + p + 1]
    <2>1. \A p \in 0 .. context_len - 1 : window_start + p + 1 \in 1 .. n
      BY <1>1
    <2>2. QED
      BY <1>2, <2>1 DEF Inv, Prefix
  <1>4. ASSUME context_len > 0
        PROVE  logits' = SubSeq(tokens', window_start + 1, window_start + context_len)
    <2>1. \A i \in 1 .. context_len : window_start + i \in 1 .. n
      BY <1>1
    <2>2. SubSeq(tokens, window_start + 1, window_start + context_len)
            = [i \in 1 .. context_len |-> tokens[window_start + i]]
      BY <1>1
    <2>3. SubSeq(tokens', window_start + 1, window_start + context_len)
            = [i \in 1 .. context_len |-> tokens'[window_start + i]]
      BY <1>1, <1>2
    <2>4. [i \in 1 .. context_len |-> tokens[window_start + i]]
            = [i \in 1 .. context_len |-> tokens'[window_start + i]]
      BY <1>2, <2>1
    <2>5. QED
      BY <1>4, <2>2, <2>3, <2>4 DEF Inv, Prefix
  <1>5. QED
    BY <1>1, <1>2, <1>3, <1>4 DEF Prefix

LEMMA SyncSameStep ==
  ASSUME Inv, SyncSame PROVE Inv'
  <1>1. Len(tokens) \in Nat /\ window_start \in Nat /\ pc = "sync"
    BY DEF Inv, TypeOK, SyncSame
  <1>2. window_start = StartAt(Len(tokens))
    <2>1. CASE window_start = StartAt(Len(tokens))
      BY <2>1
    <2>2. CASE Len(tokens) > 0 /\ window_start = StartAt(Len(tokens) - 1)
      <3>1. Len(tokens) - 1 \in Nat /\ (Len(tokens) - 1) + 1 = Len(tokens)
        BY <1>1, <2>2
      <3>2. NextWindowStart(Len(tokens), window_start) = StartAt(Len(tokens))
        BY <2>2, <3>1, SlideNext
      <3>3. QED
        BY <3>2 DEF SyncSame
    <2>3. QED
      BY <1>1, <2>1, <2>2 DEF Inv, WindowAt
  <1>3. QED
    BY <1>1, <1>2 DEF Inv, TypeOK, NeverOverrun, Prefix, WindowAt, SyncSame

LEMMA SyncSlideStep ==
  ASSUME Inv, SyncSlide PROVE Inv'
  <1> DEFINE n == Len(tokens)
  <1>1. n \in Nat /\ window_start \in Nat /\ pc = "sync"
    BY DEF Inv, TypeOK, SyncSlide
  <1>2. NextWindowStart(n, window_start) = StartAt(n)
    <2>1. CASE window_start = StartAt(n)
      BY <1>1, <2>1, SlideStable
    <2>2. CASE n > 0 /\ window_start = StartAt(n - 1)
      <3>1. n - 1 \in Nat /\ (n - 1) + 1 = n
        BY <1>1, <2>2
      <3>2. QED
        BY <2>2, <3>1, SlideNext
    <2>3. QED
      BY <1>1, <2>1, <2>2 DEF Inv, WindowAt
  <1>3. /\ window_start' = StartAt(n) /\ StartAt(n) \in 0 .. n
        /\ context_len' = 0 /\ tokens' = tokens /\ pc' = "replay"
    BY <1>1, <1>2, StartInside DEF SyncSlide
  <1>4. TypeOK'
    BY <1>1, <1>3, WindowAssumption
    DEF Inv, TypeOK, SyncSlide, EmptyCache, Positions
  <1>5. Prefix(Len(tokens))'
    BY <1>1, <1>3 DEF Prefix
  <1>6. QED
    BY <1>3, <1>4, <1>5 DEF Inv, NeverOverrun, WindowAt

LEMMA ReplayTokenStep ==
  ASSUME Inv, ReplayToken PROVE Inv'
  <1> DEFINE n == Len(tokens)
  <1>1. /\ n \in Nat /\ pc = "replay" /\ window_start = StartAt(n)
        /\ context_len \in Nat /\ window_start + context_len < n
    BY WindowAssumption DEF Inv, TypeOK, WindowAt, ReplayToken
  <1>2. context_len < NCtx
    BY <1>1, StartInside, WindowAssumption
  <1>3. Store(tokens[window_start + context_len + 1]) /\ pc' = "replay"
    BY <1>2 DEF ReplayToken, Forward
  <1>4. UNCHANGED <<tokens, window_start, used>>
    BY DEF ReplayToken
  <1>5. /\ context_len' \in 0 .. NCtx
        /\ cache' \in [Positions -> Tokens \cup {Empty}]
        /\ logits' \in Seq(Tokens)
        /\ Prefix(Len(tokens))'
    BY <1>1, <1>2, <1>3, <1>4, ForwardStep
  <1>6. TypeOK'
    BY <1>3, <1>4, <1>5 DEF Inv, TypeOK
  <1>7. QED
    BY <1>1, <1>3, <1>4, <1>5, <1>6 DEF Inv, NeverOverrun, WindowAt

LEMMA ReplayDoneStep ==
  ASSUME Inv, ReplayDone PROVE Inv'
  BY DEF Inv, TypeOK, NeverOverrun, Prefix, WindowAt, ReplayDone

\* What the cache holds when a symbol is coded is the window.
LEMMA CodeDistribution ==
  ASSUME Inv, pc = "code"
  PROVE  Distribution = WindowOf(tokens) /\ Distribution \in Seq(Tokens)
  <1> DEFINE n == Len(tokens)
  <1>1. /\ n \in Nat /\ window_start \in Nat /\ context_len \in Nat
        /\ logits \in Seq(Tokens)
        /\ window_start = StartAt(n) /\ window_start + context_len = n
    BY WindowAssumption DEF Inv, TypeOK, WindowAt
  <1>2. CASE context_len = 0
    <2>1. SubSeq(tokens, StartAt(n) + 1, n) = <<>>
      BY <1>1, <1>2, SubSeqEmpty
    <2>2. Distribution = <<>> /\ WindowOf(tokens) = <<>>
      BY <1>2, <2>1 DEF Distribution, WindowOf
    <2>3. QED
      BY <2>2
  <1>3. CASE context_len > 0
    <2>1. logits = SubSeq(tokens, window_start + 1, window_start + context_len)
      BY <1>3 DEF Inv, Prefix
    <2>2. logits = SubSeq(tokens, StartAt(n) + 1, n)
      BY <1>1, <2>1
    <2>3. Distribution = logits
      BY <1>1, <1>3 DEF Distribution
    <2>4. WindowOf(tokens) = SubSeq(tokens, StartAt(n) + 1, n)
      BY DEF WindowOf
    <2>5. QED
      BY <1>1, <2>2, <2>3, <2>4
  <1>4. QED
    BY <1>1, <1>2, <1>3

LEMMA CodeTokenStep ==
  ASSUME Inv, NEW token \in Tokens, CodeToken(token) PROVE Inv'
  <1> DEFINE n == Len(tokens)
  <1>1. /\ n \in Nat /\ pc = "code" /\ pc' = "advance"
        /\ window_start = StartAt(n) /\ window_start + context_len = n
        /\ tokens' = Append(tokens, token)
        /\ UNCHANGED <<window_start, context_len, cache, logits>>
    BY DEF Inv, TypeOK, WindowAt, CodeToken
  <1>2. tokens' \in Seq(Tokens) /\ Len(tokens') = n + 1 /\ Prefix(Len(tokens))'
    BY <1>1, AppendStep
  <1>3. used' \in Seq(Tokens)
    BY <1>1, CodeDistribution DEF CodeToken
  <1>4. TypeOK'
    BY <1>1, <1>2, <1>3 DEF Inv, TypeOK
  <1>5. Len(tokens)' - 1 = n /\ Len(tokens)' > 0
    BY <1>1, <1>2
  <1>6. WindowAt'
    BY <1>1, <1>5 DEF WindowAt
  <1>7. QED
    BY <1>1, <1>2, <1>4, <1>6 DEF Inv, NeverOverrun

LEMMA CodeEscapeStep ==
  ASSUME Inv, CodeEscape PROVE Inv'
  <1>1. used' \in Seq(Tokens)
    BY CodeDistribution DEF CodeEscape
  <1>2. QED
    BY <1>1 DEF Inv, TypeOK, NeverOverrun, Prefix, WindowAt, CodeEscape

LEMMA AdvanceStep ==
  ASSUME Inv, Advance PROVE Inv'
  <1> DEFINE n == Len(tokens)
  <1>1. /\ n \in Nat /\ n > 0 /\ pc = "advance" /\ window_start = StartAt(n - 1)
        /\ context_len \in Nat /\ window_start \in Nat
        /\ window_start + context_len = n - 1
    BY WindowAssumption DEF Inv, TypeOK, WindowAt, Advance
  <1>2. n - 1 \in Nat /\ context_len < NCtx /\ window_start + context_len + 1 = n
    <2>1. n - 1 \in Nat
      BY <1>1
    <2>2. (n - 1) - StartAt(n - 1) < NCtx
      BY ONLY <2>1, StartInside
    <2>3. QED
      BY <1>1, <2>1, <2>2, WindowAssumption, SMTT(30)
  <1>3. Store(tokens[window_start + context_len + 1]) /\ pc' = "sync"
    BY <1>2 DEF Advance, Forward
  <1>4. UNCHANGED <<tokens, window_start, used>>
    BY DEF Advance
  <1>5. /\ context_len' = context_len + 1
        /\ context_len' \in 0 .. NCtx
        /\ cache' \in [Positions -> Tokens \cup {Empty}]
        /\ logits' \in Seq(Tokens)
        /\ Prefix(Len(tokens))'
    BY <1>1, <1>2, <1>3, <1>4, ForwardStep
  <1>6. TypeOK'
    BY <1>3, <1>4, <1>5 DEF Inv, TypeOK
  <1>7. QED
    BY <1>1, <1>2, <1>3, <1>4, <1>5, <1>6 DEF Inv, NeverOverrun, WindowAt

LEMMA StepInv == Inv /\ [Next]_vars => Inv'
  <1> SUFFICES ASSUME Inv, [Next]_vars PROVE Inv'
    OBVIOUS
  <1>1. CASE SyncSame
    BY <1>1, SyncSameStep
  <1>2. CASE SyncSlide
    BY <1>2, SyncSlideStep
  <1>3. CASE ReplayToken
    BY <1>3, ReplayTokenStep
  <1>4. CASE ReplayDone
    BY <1>4, ReplayDoneStep
  <1>5. ASSUME NEW token \in Tokens, CodeToken(token)
        PROVE  Inv'
    BY <1>5, CodeTokenStep
  <1>6. CASE CodeEscape
    BY <1>6, CodeEscapeStep
  <1>7. CASE Advance
    BY <1>7, AdvanceStep
  <1>8. CASE UNCHANGED vars
    BY <1>8 DEF vars, Inv, TypeOK, NeverOverrun, Prefix, WindowAt
  <1>9. QED
    BY <1>1, <1>2, <1>3, <1>4, <1>5, <1>6, <1>7, <1>8 DEF Next

LEMMA AlwaysInv == Spec => []Inv
  BY InitInv, StepInv, PTL DEF Spec

-----------------------------------------------------------------------------
(***************************************************************************)
(* Type correctness: among it, that attention reads no position of the     *)
(* cache that the current window has not written.                          *)
(***************************************************************************)
THEOREM TypeCorrect == Spec => []TypeOK
  <1>1. Inv => TypeOK
    BY DEF Inv
  <1>2. QED
    BY <1>1, AlwaysInv, PTL

(***************************************************************************)
(* The check "context window invariant violated" of advance never fails,   *)
(* for every window size, overlap and length of the stream.                *)
(***************************************************************************)
THEOREM ContextNeverOverruns == Spec => []NeverOverrun
  <1>1. Inv => NeverOverrun
    BY DEF Inv
  <1>2. QED
    BY <1>1, AlwaysInv, PTL

(***************************************************************************)
(* The window at a position does not depend on the path to it, so an       *)
(* encoder, a decoder and a resumed encoder agree on it.                   *)
(***************************************************************************)
THEOREM WindowIsByPosition == Spec => []WindowByPosition
  <1>1. Inv => WindowByPosition
    BY DEF Inv, WindowAt, WindowByPosition
  <1>2. QED
    BY <1>1, AlwaysInv, PTL

(***************************************************************************)
(* When a symbol is coded the cache is the window, with no token from      *)
(* before the last slide.                                                  *)
(***************************************************************************)
THEOREM CacheIsTheWindow == Spec => []CacheIsWindow
  <1>1. Inv => CacheIsWindow
    BY WindowAssumption DEF Inv, TypeOK, Prefix, WindowAt, CacheIsWindow
  <1>2. QED
    BY <1>1, AlwaysInv, PTL

(***************************************************************************)
(* The incremental state implements the specification that evaluates the   *)
(* window of every symbol from nothing.                                    *)
(***************************************************************************)
THEOREM Implements == Spec => CodesUnderWindow
  <1>1. Init => Abstract!Init
    BY DEF Init, Abstract!Init
  <1>2. Inv /\ [Next]_vars => [Abstract!Next]_Abstract!cvars
    <2> SUFFICES ASSUME Inv, [Next]_vars
                 PROVE  [Abstract!Next]_Abstract!cvars
      OBVIOUS
    <2>1. ASSUME NEW token \in Tokens, CodeToken(token)
          PROVE  Abstract!Next
      <3>1. used' = WindowOf(tokens) /\ tokens' = Append(tokens, token)
        BY <2>1, CodeDistribution DEF CodeToken
      <3>2. WindowOf(tokens) = Abstract!WindowOf(tokens)
        BY DEF WindowOf, StartAt, Stride,
               Abstract!WindowOf, Abstract!StartAt, Abstract!Stride
      <3>3. QED
        BY <3>1, <3>2 DEF Abstract!Next, Abstract!CodeToken
    <2>2. CASE CodeEscape
      <3>1. used' = WindowOf(tokens) /\ UNCHANGED tokens
        BY <2>2, CodeDistribution DEF CodeEscape
      <3>2. WindowOf(tokens) = Abstract!WindowOf(tokens)
        BY DEF WindowOf, StartAt, Stride,
               Abstract!WindowOf, Abstract!StartAt, Abstract!Stride
      <3>3. QED
        BY <3>1, <3>2 DEF Abstract!Next, Abstract!CodeEscape
    <2>3. CASE SyncSame \/ SyncSlide \/ ReplayToken \/ ReplayDone \/ Advance
      BY <2>3 DEF SyncSame, SyncSlide, ReplayToken, ReplayDone, Advance,
                  Abstract!cvars
    <2>4. CASE UNCHANGED vars
      BY <2>4 DEF vars, Abstract!cvars
    <2>5. QED
      BY <2>1, <2>2, <2>3, <2>4 DEF Next
  <1>3. QED
    BY <1>1, <1>2, AlwaysInv, PTL DEF Spec, CodesUnderWindow, Abstract!Spec

-----------------------------------------------------------------------------
(***************************************************************************)
(* The KV cache is a map.  The offset of an element is a number in mixed   *)
(* radix with the digits layer, head, position, element: it is below the   *)
(* product of the bases, and its digits are unique.                        *)
(***************************************************************************)
\* A digit above and one below make a number below the product of the bases.
LEMMA MixedBound ==
  ASSUME NEW X \in Dimension, NEW Y \in Dimension,
         NEW x \in 0 .. X - 1, NEW y \in 0 .. Y - 1
  PROVE  x * Y + y \in 0 .. X * Y - 1 /\ X * Y \in Dimension
<1>1. x \in Nat /\ y \in Nat /\ X \in Nat /\ Y \in Nat /\ x + 1 <= X
  BY DEF Dimension
<1>2. Y * (x + 1) <= Y * X
  BY <1>1, TimesMonotone
<1>3. Y * (x + 1) = x * Y + Y /\ Y * X = X * Y
  BY <1>1
<1>4. x * Y \in Nat /\ X * Y \in Nat /\ X * Y >= Y
  BY <1>1, <1>2, <1>3, TimesMonotone
<1>5. QED
  BY <1>1, <1>2, <1>3, <1>4 DEF Dimension

\* Equal numbers have equal digits.
LEMMA MixedUnique ==
  ASSUME NEW Y \in Dimension,
         NEW x \in Nat, NEW x2 \in Nat, NEW y \in 0 .. Y - 1, NEW y2 \in 0 .. Y - 1,
         x * Y + y = x2 * Y + y2
  PROVE  x = x2 /\ y = y2
<1> DEFINE a == x * Y + y
<1>1. Y \in Nat /\ Y > 0 /\ x * Y \in Nat
  BY TimesMonotone DEF Dimension
<1>2. a \in Nat /\ a = Y * x + y /\ a = Y * x2 + y2
  BY <1>1
<1> HIDE DEF a
<1>3. a \div Y = x /\ a % Y = y
  BY <1>1, <1>2, DivModUnique
<1>4. a \div Y = x2 /\ a % Y = y2
  BY <1>1, <1>2, DivModUnique
<1>5. QED
  BY <1>3, <1>4

\* Every element of every place lies in the vectors.
LEMMA OffsetBound ==
  ASSUME NEW L \in Dimension, NEW H \in Dimension, NEW C \in Dimension, NEW D \in Dimension,
         NEW l \in 0 .. L - 1, NEW h \in 0 .. H - 1, NEW p \in 0 .. C - 1, NEW i \in 0 .. D - 1
  PROVE  ((l * H + h) * C + p) * D + i \in 0 .. L * H * C * D - 1
<1>1. l * H + h \in 0 .. L * H - 1 /\ L * H \in Dimension
  BY MixedBound
<1> DEFINE lh == l * H + h
           LH == L * H
<1> HIDE DEF lh, LH
<1>2. lh * C + p \in 0 .. LH * C - 1 /\ LH * C \in Dimension
  BY <1>1, MixedBound DEF lh, LH
<1> DEFINE lhp == lh * C + p
           LHC == LH * C
<1> HIDE DEF lhp, LHC
<1>3. lhp * D + i \in 0 .. LHC * D - 1
  BY <1>2, MixedBound DEF lhp, LHC
<1>4. QED
  BY <1>3 DEF lhp, lh, LHC, LH

-----------------------------------------------------------------------------
LEMMA ConfigShape ==
  ASSUME NEW c \in Configs
  PROVE  /\ c.block_count \in Dimension /\ c.head_count_kv \in Dimension
         /\ c.context_length \in Dimension /\ c.head_dim \in Dimension
  BY KvAssumption

LEMMA ElementInside ==
  ASSUME NEW c \in Configs, NEW l \in 0 .. c.block_count - 1, NEW h \in Heads(c),
         NEW p \in 0 .. c.context_length - 1, NEW i \in 0 .. c.head_dim - 1
  PROVE  Offset(c, l, h, p) + i \in 0 .. CacheLen(c) - 1
  BY ConfigShape, OffsetBound DEF Offset, CacheLen, Heads

\* Two places share no element.
LEMMA ElementUnique ==
  ASSUME NEW c \in Configs, NEW l \in 0 .. c.block_count - 1, NEW h \in Heads(c),
         NEW p \in 0 .. c.context_length - 1, NEW i \in 0 .. c.head_dim - 1,
         NEW l2 \in 0 .. c.block_count - 1, NEW h2 \in Heads(c),
         NEW p2 \in 0 .. c.context_length - 1, NEW i2 \in 0 .. c.head_dim - 1,
         Offset(c, l, h, p) + i = Offset(c, l2, h2, p2) + i2
  PROVE  l = l2 /\ h = h2 /\ p = p2 /\ i = i2
<1>1. PICK H \in Dimension, C \in Dimension, D \in Dimension :
         H = c.head_count_kv /\ C = c.context_length /\ D = c.head_dim
  BY ConfigShape
<1>2. /\ l \in Nat /\ h \in 0 .. H - 1 /\ p \in 0 .. C - 1 /\ i \in 0 .. D - 1
      /\ l2 \in Nat /\ h2 \in 0 .. H - 1 /\ p2 \in 0 .. C - 1 /\ i2 \in 0 .. D - 1
  BY <1>1 DEF Heads
<1> DEFINE lh == l * H + h
           lh2 == l2 * H + h2
<1>3. lh \in Nat /\ lh2 \in Nat
  BY <1>2, TimesMonotone DEF Dimension
<1> HIDE DEF lh, lh2
<1> DEFINE a == lh * C + p
           a2 == lh2 * C + p2
<1>4. a \in Nat /\ a2 \in Nat
  BY <1>2, <1>3, TimesMonotone DEF Dimension
<1>5. a * D + i = a2 * D + i2
  BY <1>1 DEF Offset, a, a2, lh, lh2
<1> HIDE DEF a, a2
<1>6. a = a2 /\ i = i2
  BY <1>2, <1>4, <1>5, MixedUnique
<1>7. lh = lh2 /\ p = p2
  BY <1>2, <1>3, <1>6, MixedUnique DEF a, a2
<1>8. l = l2 /\ h = h2
  BY <1>2, <1>7, MixedUnique DEF lh, lh2
<1>9. QED
  BY <1>6, <1>7, <1>8

LEMMA OffsetInt ==
  ASSUME NEW c \in Configs, NEW l \in 0 .. c.block_count - 1, NEW h \in Heads(c),
         NEW p \in 0 .. c.context_length - 1
  PROVE  Offset(c, l, h, p) \in Int
<1>1. 0 \in 0 .. c.head_dim - 1
  BY ConfigShape DEF Dimension
<1>2. c.block_count \in Int /\ c.head_count_kv \in Int /\ c.context_length \in Int
      /\ c.head_dim \in Int /\ l \in Int /\ h \in Int /\ p \in Int
  BY ConfigShape DEF Dimension, Heads
<1>3. QED
  BY <1>2 DEF Offset

\* What store leaves at a place: its own element at the stored place, and what
\* was there before at every other one.
LEMMA CopiedElement ==
  ASSUME NEW c \in Configs, NEW values, DOMAIN values = 0 .. CacheLen(c) - 1, NEW n,
         NEW layer \in 0 .. c.block_count - 1, NEW pos \in 0 .. c.context_length - 1,
         NEW l \in 0 .. c.block_count - 1, NEW h \in Heads(c),
         NEW p \in 0 .. c.context_length - 1, NEW i \in 0 .. c.head_dim - 1
  PROVE  Element(Copied(c, values, n, layer, pos), c, l, h, p, i)
           = IF l = layer /\ p = pos THEN <<n, h * c.head_dim + i>>
             ELSE Element(values, c, l, h, p, i)
<1> DEFINE a == Offset(c, l, h, p) + i
           Hit(g) == a - Offset(c, layer, g, pos) \in 0 .. c.head_dim - 1
<1>1. a \in DOMAIN values
  BY ElementInside
<1>2. Copied(c, values, n, layer, pos)[a]
        = IF \E g \in Heads(c) : Hit(g)
          THEN LET g == CHOOSE g \in Heads(c) : Hit(g)
               IN  <<n, g * c.head_dim + (a - Offset(c, layer, g, pos))>>
          ELSE values[a]
  BY <1>1 DEF Copied
<1>3. ASSUME NEW g \in Heads(c), Hit(g)
      PROVE  l = layer /\ h = g /\ p = pos /\ a - Offset(c, layer, g, pos) = i
  <2>1. PICK j \in 0 .. c.head_dim - 1 : a - Offset(c, layer, g, pos) = j
    BY <1>3
  <2>2. Offset(c, layer, g, pos) \in Int /\ Offset(c, l, h, p) \in Int /\ i \in Int /\ j \in Int
    BY OffsetInt, ConfigShape DEF Dimension
  <2>3. Offset(c, l, h, p) + i = Offset(c, layer, g, pos) + j
    BY <2>1, <2>2
  <2>4. QED
    BY <2>1, <2>3, ElementUnique
<1>4. CASE l = layer /\ p = pos
  <2>1. Hit(h)
    BY <1>4, OffsetInt, ConfigShape DEF Dimension
  <2>2. PICK g \in Heads(c) : g = CHOOSE d \in Heads(c) : Hit(d)
    BY <2>1
  <2>3. Hit(g)
    BY <2>1, <2>2
  <2>4. g = h /\ a - Offset(c, layer, g, pos) = i
    BY <2>3, <1>3
  <2> HIDE DEF Hit, a
  <2>5. Copied(c, values, n, layer, pos)[a] = <<n, g * c.head_dim + (a - Offset(c, layer, g, pos))>>
    BY <1>2, <2>1, <2>2
  <2>6. QED
    BY <2>4, <2>5, <1>4 DEF Element, a
<1>5. CASE ~(l = layer /\ p = pos)
  <2>1. ~ \E g \in Heads(c) : Hit(g)
    BY <1>3, <1>5
  <2>2. QED
    BY <1>2, <1>5, <2>1 DEF Element
<1>6. QED
  BY <1>4, <1>5

-----------------------------------------------------------------------------
\* The invariant with the types it needs.
CacheInv ==
  /\ config \in Configs
  /\ DOMAIN k = 0 .. CacheLen(config) - 1
  /\ DOMAIN v = 0 .. CacheLen(config) - 1
  /\ stores \in Nat
  /\ last \in [Places(config) -> Nat]
  /\ KeysAreLastStored

LEMMA CacheInitInv == CacheInit => CacheInv
<1> SUFFICES ASSUME CacheInit PROVE CacheInv
  OBVIOUS
<1>1. config \in Configs /\ stores \in Nat /\ last \in [Places(config) -> Nat]
      /\ DOMAIN k = 0 .. CacheLen(config) - 1 /\ DOMAIN v = 0 .. CacheLen(config) - 1
  BY DEF CacheInit
<1>2. ASSUME NEW place \in Places(config), NEW h \in Heads(config), NEW i \in 0 .. config.head_dim - 1
      PROVE  /\ Offset(config, place[1], h, place[2]) + i \in 0 .. CacheLen(config) - 1
             /\ Element(k, config, place[1], h, place[2], i) = Expected(config, h, last[place], i)
             /\ Element(v, config, place[1], h, place[2], i) = Expected(config, h, last[place], i)
  <2>1. Offset(config, place[1], h, place[2]) + i \in 0 .. CacheLen(config) - 1
    BY <1>1, ElementInside DEF Places
  <2>2. last[place] = 0
    BY DEF CacheInit
  <2>3. QED
    BY <2>1, <2>2 DEF CacheInit, Element, Expected
<1>3. KeysAreLastStored
  BY <1>2 DEF KeysAreLastStored
<1>4. QED
  BY <1>1, <1>3 DEF CacheInv

LEMMA StoreCacheInv ==
  ASSUME CacheInv, NEW place \in Places(config), StoreKv(place[1], place[2])
  PROVE  CacheInv'
<1>0. PICK c \in Configs : c = config
  BY DEF CacheInv
<1> DEFINE layer == place[1]
           pos == place[2]
           n == stores + 1
<1>1. /\ layer \in 0 .. c.block_count - 1 /\ pos \in 0 .. c.context_length - 1
      /\ place = <<layer, pos>>
  BY <1>0 DEF Places
<1>2. /\ config' = c /\ stores' = n /\ n \in Nat /\ n # 0
      /\ k' = Copied(c, k, n, layer, pos)
      /\ v' = Copied(c, v, n, layer, pos)
      /\ last' = [last EXCEPT ![place] = n]
      /\ DOMAIN k = 0 .. CacheLen(c) - 1 /\ DOMAIN v = 0 .. CacheLen(c) - 1
      /\ last \in [Places(c) -> Nat]
  <2>1. config = c /\ stores \in Nat /\ DOMAIN k = 0 .. CacheLen(c) - 1 /\ DOMAIN v = 0 .. CacheLen(c) - 1
        /\ last \in [Places(c) -> Nat]
    BY <1>0 DEF CacheInv
  <2>2. /\ config' = config /\ stores' = stores + 1
        /\ k' = Copied(config, k, stores + 1, layer, pos)
        /\ v' = Copied(config, v, stores + 1, layer, pos)
        /\ last' = [last EXCEPT ![<<layer, pos>>] = stores + 1]
    BY DEF StoreKv
  <2>3. n \in Nat /\ n # 0
    BY <2>1
  <2> HIDE DEF layer, pos
  <2>4. last' = [last EXCEPT ![place] = n]
    BY <1>1, <2>2
  <2>5. QED
    BY <2>1, <2>2, <2>3, <2>4
<1>3. /\ DOMAIN k' = 0 .. CacheLen(c) - 1 /\ DOMAIN v' = 0 .. CacheLen(c) - 1
      /\ last' \in [Places(c) -> Nat]
  <2> HIDE DEF n, layer, pos
  <2>1. DOMAIN Copied(c, k, n, layer, pos) = DOMAIN k /\ DOMAIN Copied(c, v, n, layer, pos) = DOMAIN v
    BY DEF Copied
  <2>2. QED
    BY <1>2, <2>1
<1>4. ASSUME NEW q \in Places(c), NEW h \in Heads(c), NEW i \in 0 .. c.head_dim - 1
      PROVE  /\ Offset(c, q[1], h, q[2]) + i \in 0 .. CacheLen(c) - 1
             /\ Element(k', c, q[1], h, q[2], i) = Expected(c, h, last'[q], i)
             /\ Element(v', c, q[1], h, q[2], i) = Expected(c, h, last'[q], i)
  <2>1. /\ q[1] \in 0 .. c.block_count - 1 /\ q[2] \in 0 .. c.context_length - 1
        /\ q = <<q[1], q[2]>>
    BY DEF Places
  <2>2. Offset(c, q[1], h, q[2]) + i \in 0 .. CacheLen(c) - 1
    BY <2>1, ElementInside
  <2>3. /\ Element(k, c, q[1], h, q[2], i) = Expected(c, h, last[q], i)
        /\ Element(v, c, q[1], h, q[2], i) = Expected(c, h, last[q], i)
    BY <1>0 DEF CacheInv, KeysAreLastStored
  <2>4. /\ Element(k', c, q[1], h, q[2], i)
             = IF q = place THEN <<n, h * c.head_dim + i>> ELSE Element(k, c, q[1], h, q[2], i)
        /\ Element(v', c, q[1], h, q[2], i)
             = IF q = place THEN <<n, h * c.head_dim + i>> ELSE Element(v, c, q[1], h, q[2], i)
    BY <1>1, <1>2, <2>1, CopiedElement
  <2>5. last'[q] = IF q = place THEN n ELSE last[q]
    BY <1>2
  <2>6. QED
    BY <1>2, <2>2, <2>3, <2>4, <2>5 DEF Expected
<1>5. KeysAreLastStored'
  <2>1. \A q \in Places(config'), h \in Heads(config'), i \in 0 .. (config').head_dim - 1 :
          /\ Offset(config', q[1], h, q[2]) + i \in 0 .. CacheLen(config') - 1
          /\ Element(k', config', q[1], h, q[2], i) = Expected(config', h, last'[q], i)
          /\ Element(v', config', q[1], h, q[2], i) = Expected(config', h, last'[q], i)
    <3>1. config' = c
      BY <1>2
    <3>2. QED
      BY <1>4, <3>1
  <2>2. QED
    BY <2>1 DEF KeysAreLastStored
<1>6. QED
  BY <1>2, <1>3, <1>5 DEF CacheInv, CacheLen, Places

\* The offsets of a head's positions follow each other.
LEMMA PrefixFromKeys == CacheInv => PrefixIsPositions
<1> SUFFICES ASSUME CacheInv,
                    NEW place \in Places(config), NEW h \in Heads(config),
                    NEW i \in 0 .. config.head_dim - 1
             PROVE  LET j == place[2] * config.head_dim + i
                    IN  /\ PrefixElement(k, config, place[1], h, j) = Expected(config, h, last[place], i)
                        /\ PrefixElement(v, config, place[1], h, j) = Expected(config, h, last[place], i)
  BY DEF PrefixIsPositions
<1>0. PICK c \in Configs : c = config
  BY DEF CacheInv
<1>1. /\ place[1] \in Int /\ place[2] \in Int /\ h \in Int /\ i \in Int
      /\ c.block_count \in Int /\ c.head_count_kv \in Int /\ c.context_length \in Int
      /\ c.head_dim \in Int
  BY <1>0, ConfigShape DEF Places, Heads, Dimension
<1>2. PICK lh \in Int : lh = place[1] * c.head_count_kv + h
  BY <1>1
<1>3. PICK base \in Int : base = lh * c.context_length
  BY <1>1, <1>2
<1>4. (base + 0) * c.head_dim + (place[2] * c.head_dim + i) = (base + place[2]) * c.head_dim + i
  BY <1>1, <1>3
<1>5. Offset(c, place[1], h, 0) + (place[2] * c.head_dim + i) = Offset(c, place[1], h, place[2]) + i
  BY <1>2, <1>3, <1>4 DEF Offset
<1>6. QED
  BY <1>0, <1>5 DEF CacheInv, KeysAreLastStored, PrefixElement, Element

\* For every shape, and whatever was stored in whatever order, the two vectors
\* are a map from layer, head and position to what was last stored there.
THEOREM CacheImplementsMap == CacheSpec => []CacheIsMap
<1>1. CacheInit => CacheInv
  BY CacheInitInv
<1>2. CacheInv /\ [CacheNext]_cacheVars => CacheInv'
  <2> SUFFICES ASSUME CacheInv, [CacheNext]_cacheVars PROVE CacheInv'
    OBVIOUS
  <2>1. CASE CacheNext
    BY <2>1, StoreCacheInv DEF CacheNext
  <2>2. CASE UNCHANGED cacheVars
    BY <2>2 DEF cacheVars, CacheInv, KeysAreLastStored, Expected, Element, Offset, CacheLen, Places, Heads
  <2>3. QED
    BY <2>1, <2>2
<1>3. CacheInv => CacheIsMap
  BY PrefixFromKeys DEF CacheInv, CacheIsMap
<1>4. QED
  BY <1>1, <1>2, <1>3, PTL DEF CacheSpec
-----------------------------------------------------------------------------
(***************************************************************************)
(* The distribution of a row of logits.  All three paths give what the     *)
(* running totals of the row's frequencies, with the tail's after them,    *)
(* say; the scans are shown to hold those totals by their closed forms.    *)
(***************************************************************************)
Frequencies == Seq(Nat \ {0})

LEMMA StartsTotal ==
  ASSUME NEW freq \in Frequencies
  PROVE  /\ freq \in Seq(Nat) /\ Starts(freq) = RunningTotal(freq)
         /\ \A i \in 1 .. Len(freq) + 1 : Starts(freq)[i] \in Nat
         /\ Starts(freq)[1] = 0
         /\ \A i \in 1 .. Len(freq) :
              freq[i] \in Nat \ {0} /\ Starts(freq)[i + 1] = Starts(freq)[i] + freq[i]
         /\ Ascend(Starts(freq), Len(freq))
  <1>1. freq \in Seq(Nat) /\ \A i \in 1 .. Len(freq) : freq[i] \in Nat \ {0}
    BY DEF Frequencies
  <1>2. Starts(freq) = RunningTotal(freq)
    BY DEF Starts, RunningTotal
  <1>3. QED
    BY <1>1, <1>2, TotalsGrow, TotalsOrdered DEF Ascend

\* The closed form satisfies the recursion, and nothing else does.
LEMMA EncoderScanned ==
  ASSUME NEW freq \in Frequencies, NEW symbol \in Nat
  PROVE  /\ EncoderScan(freq, symbol).total = Starts(freq)[Len(freq) + 1]
         /\ symbol \in 1 .. Len(freq) => EncoderScan(freq, symbol).cum = Starts(freq)[symbol]
  <1> DEFINE first == [total |-> 0, cum |-> 0]
             body(f, i) == [total |-> f[i - 1].total + freq[i],
                            cum   |-> IF i = symbol THEN f[i - 1].total ELSE f[i - 1].cum]
             E(f) == [i \in 0 .. Len(freq) |-> IF i = 0 THEN first ELSE body(f, i)]
  <1>0. PICK N \in Nat : N = Len(freq)
    BY DEF Frequencies
  <1>1. PICK S : S = Starts(freq)
    OBVIOUS
  <1>2. S[1] = 0 /\ \A i \in 1 .. N : S[i + 1] = S[i] + freq[i]
    BY <1>0, <1>1, StartsTotal
  <1> DEFINE at(i) == [total |-> S[i + 1], cum |-> IF symbol \in 1 .. i THEN S[symbol] ELSE 0]
  <1>3. PICK g : g = [i \in 0 .. N |-> at(i)]
    OBVIOUS
  <1>4. at(0) = first
    BY <1>2
  <1>5. ASSUME NEW i \in 1 .. N PROVE g[i - 1] = at(i - 1) /\ at(i) = body(g, i)
    <2>1. i - 1 \in 0 .. N /\ (i - 1) + 1 = i /\ ~ (symbol \in 1 .. i /\ i # symbol /\ symbol \notin 1 .. i - 1)
      OBVIOUS
    <2>2. g[i - 1] = at(i - 1)
      <3> HIDE DEF at
      <3>1. QED
        BY <1>3, <2>1
    <2>3. g[i - 1].total = S[i] /\ g[i - 1].cum = IF symbol \in 1 .. i - 1 THEN S[symbol] ELSE 0
      BY <2>1, <2>2
    <2>4. S[i + 1] = S[i] + freq[i]
      BY <1>2
    <2>5. (IF symbol \in 1 .. i THEN S[symbol] ELSE 0) = (IF i = symbol THEN S[i] ELSE g[i - 1].cum)
      BY <2>3
    <2>6. QED
      BY <2>2, <2>3, <2>4, <2>5
  <1> HIDE DEF at, body, first
  <1>6. g = E(g)
    BY <1>0, <1>3, <1>4, <1>5
  <1>7. PICK f : f = E(f) /\ EncoderScan(freq, symbol) = f[N]
    BY <1>0, <1>6 DEF EncoderScan, body, first
  <1>8. StepAlike(f, g, N)
    <2>1. f[0] = g[0]
      BY <1>0, <1>6, <1>7
    <2>2. ASSUME NEW i \in 1 .. N, f[i - 1] = g[i - 1] PROVE f[i] = g[i]
      <3>1. f[i] = body(f, i) /\ g[i] = body(g, i)
        <4>1. E(f)[i] = body(f, i) /\ E(g)[i] = body(g, i)
          BY ONLY <1>0, i \in 1 .. N, N \in Nat
        <4>2. f = E(f) /\ g = E(g)
          BY ONLY <1>6, <1>7
        <4> HIDE DEF E
        <4>3. QED
          BY ONLY <4>1, <4>2
      <3>2. QED
        BY <2>2, <3>1 DEF body
    <2>3. QED
      BY <2>1, <2>2 DEF StepAlike
  <1>9. f[N] = at(N)
    BY <1>3, <1>8, Determined
  <1>10. QED
    BY <1>0, <1>1, <1>7, <1>9 DEF at

\* A value lies in the interval of exactly one symbol, if it is below the total.
Within(S, n, value) == S[n] <= value /\ value < S[n + 1]

LEMMA IntervalOfValue ==
  ASSUME NEW N \in Nat, NEW S, Ascend(S, N), S[1] = 0, NEW value \in Nat
  PROVE  /\ value < S[N + 1] => \E n \in 1 .. N : Within(S, n, value)
         /\ \A n, m \in 1 .. N : Within(S, n, value) /\ Within(S, m, value) => n = m
  <1>1. ASSUME value < S[N + 1] PROVE \E n \in 1 .. N : Within(S, n, value)
    <2> DEFINE D == { n \in 1 .. N : value < S[n + 1] }
    <2>1. N # 0
      BY <1>1 DEF Ascend
    <2>2. N \in D /\ D \subseteq Nat
      BY <1>1, <2>1
    <2>3. PICK n \in D : \A m \in D : n <= m
      <3> HIDE DEF D
      <3>1. QED
        BY <2>2, HasLeast
    <2>4. n \in 1 .. N /\ value < S[n + 1] /\ S[n] \in Nat
      BY <2>3 DEF Ascend
    <2>5. S[n] <= value
      <3>1. CASE n = 1
        BY <3>1
      <3>2. CASE n # 1
        <4>1. n - 1 \in 1 .. N /\ (n - 1) + 1 = n /\ ~ (n <= n - 1)
          BY <2>4, <3>2
        <4>2. n - 1 \notin D
          BY <2>3, <4>1
        <4>3. ~ (value < S[n])
          BY <4>1, <4>2
        <4>4. QED
          BY <2>4, <4>3
      <3>3. QED
        BY <3>1, <3>2
    <2>6. QED
      BY <2>4, <2>5 DEF Within
  <1>2. ASSUME NEW n \in 1 .. N, NEW m \in 1 .. N, Within(S, n, value), Within(S, m, value), n < m
        PROVE  FALSE
    <2>1. n + 1 \in 1 .. N + 1 /\ m \in n + 1 .. N + 1
      BY <1>2
    <2>2. S[n + 1] <= S[m] /\ S[n + 1] \in Nat /\ S[m] \in Nat
      BY <2>1 DEF Ascend
    <2>3. QED
      BY <1>2, <2>2 DEF Within
  <1>3. QED
    BY <1>1, <1>2

LEMMA DecoderScanned ==
  ASSUME NEW freq \in Frequencies, NEW value \in Nat
  PROVE  /\ \A n \in 1 .. Len(freq) : Within(Starts(freq), n, value) =>
              DecoderScan(freq, value) = [symbol |-> n, cum |-> Starts(freq)[n]]
         /\ value >= Starts(freq)[Len(freq) + 1] =>
              DecoderScan(freq, value) = [symbol |-> 0, cum |-> Starts(freq)[Len(freq) + 1]]
  <1> DEFINE first == [symbol |-> 0, cum |-> 0]
             body(f, i) == IF f[i - 1].symbol # 0 THEN f[i - 1]
                           ELSE IF value < f[i - 1].cum + freq[i] THEN [f[i - 1] EXCEPT !.symbol = i]
                           ELSE [f[i - 1] EXCEPT !.cum = @ + freq[i]]
             E(f) == [i \in 0 .. Len(freq) |-> IF i = 0 THEN first ELSE body(f, i)]
  <1>0. PICK N \in Nat : N = Len(freq)
    BY DEF Frequencies
  <1>1. PICK S : S = Starts(freq)
    OBVIOUS
  <1>2. /\ S[1] = 0 /\ \A i \in 1 .. N : S[i + 1] = S[i] + freq[i] /\ freq[i] \in Nat
        /\ \A i \in 1 .. N + 1 : S[i] \in Nat
        /\ Ascend(S, N)
    BY <1>0, <1>1, StartsTotal
  <1>3. PICK P : value < S[N + 1] => P \in 1 .. N /\ Within(S, P, value)
    BY <1>2, IntervalOfValue
  <1> DEFINE at(i) == IF value < S[i + 1] THEN [symbol |-> P, cum |-> S[P]]
                                          ELSE [symbol |-> 0, cum |-> S[i + 1]]
  <1>4. PICK g : g = [i \in 0 .. N |-> at(i)]
    OBVIOUS
  <1>5. at(0) = first
    BY <1>2
  <1>6. ASSUME NEW i \in 1 .. N PROVE at(i) = body(g, i)
    <2>1. i - 1 \in 0 .. N /\ (i - 1) + 1 = i /\ i + 1 \in 1 .. N + 1 /\ i \in 1 .. N + 1
          /\ N + 1 \in i + 1 .. N + 1
      OBVIOUS
    <2>2. g[i - 1] = at(i - 1)
      <3> HIDE DEF at
      <3>1. QED
        BY <1>4, <2>1
    <2>3. g[i - 1] = IF value < S[i] THEN [symbol |-> P, cum |-> S[P]] ELSE [symbol |-> 0, cum |-> S[i]]
      BY <2>1, <2>2
    <2>4. S[i + 1] = S[i] + freq[i] /\ S[i] \in Nat /\ freq[i] \in Nat /\ S[i + 1] \in Nat
      BY <1>2, <2>1
    <2>5. value < S[i + 1] => P \in 1 .. N /\ Within(S, P, value)
      <3>1. S[i + 1] <= S[N + 1] /\ S[N + 1] \in Nat
        BY <1>2, <2>1 DEF Ascend
      <3>2. QED
        BY <1>3, <2>4, <3>1
    <2>6. CASE value < S[i]
      <3>1. value < S[i + 1]
        BY <2>4, <2>6
      <3>2. P # 0
        BY <2>5, <3>1
      <3>3. QED
        BY <2>3, <2>6, <3>1, <3>2
    <2>7. CASE ~ (value < S[i]) /\ value < S[i + 1]
      <3>1. Within(S, i, value)
        BY <2>4, <2>7 DEF Within
      <3>2. P = i
        BY <1>2, <2>5, <2>7, <3>1, IntervalOfValue
      <3>3. g[i - 1] = [symbol |-> 0, cum |-> S[i]]
        BY <2>3, <2>7
      <3>4. body(g, i) = [symbol |-> i, cum |-> S[i]]
        BY <2>4, <2>7, <3>3
      <3>5. QED
        BY <2>7, <3>2, <3>4
    <2>8. CASE ~ (value < S[i]) /\ ~ (value < S[i + 1])
      <3>1. g[i - 1] = [symbol |-> 0, cum |-> S[i]]
        BY <2>3, <2>8
      <3>2. body(g, i) = [symbol |-> 0, cum |-> S[i] + freq[i]]
        BY <2>4, <2>8, <3>1
      <3>3. QED
        BY <2>4, <2>8, <3>2
    <2>9. QED
      BY <2>6, <2>7, <2>8
  <1> HIDE DEF at, body, first
  <1>7. g = E(g)
    BY <1>0, <1>4, <1>5, <1>6
  <1>8. PICK f : f = E(f) /\ DecoderScan(freq, value) = f[N]
    BY <1>0, <1>7 DEF DecoderScan, body, first
  <1>9. StepAlike(f, g, N)
    <2>1. f[0] = g[0]
      BY <1>0, <1>7, <1>8
    <2>2. ASSUME NEW i \in 1 .. N, f[i - 1] = g[i - 1] PROVE f[i] = g[i]
      <3>1. f[i] = body(f, i) /\ g[i] = body(g, i)
        <4>1. E(f)[i] = body(f, i) /\ E(g)[i] = body(g, i)
          BY ONLY <1>0, i \in 1 .. N, N \in Nat
        <4>2. f = E(f) /\ g = E(g)
          BY ONLY <1>7, <1>8
        <4> HIDE DEF E
        <4>3. QED
          BY ONLY <4>1, <4>2
      <3>2. QED
        BY <2>2, <3>1 DEF body
    <2>3. QED
      BY <2>1, <2>2 DEF StepAlike
  <1>10. f[N] = at(N)
    BY <1>4, <1>9, Determined
  <1>11. ASSUME NEW n \in 1 .. N, Within(S, n, value) PROVE value < S[N + 1] /\ n = P
    <2>1. n + 1 \in 1 .. N + 1 /\ N + 1 \in n + 1 .. N + 1
      OBVIOUS
    <2>2. S[n + 1] <= S[N + 1] /\ S[n + 1] \in Nat /\ S[N + 1] \in Nat
      BY <1>2, <2>1 DEF Ascend
    <2>3. value < S[N + 1]
      BY <1>11, <2>2 DEF Within
    <2>4. QED
      BY <1>2, <1>3, <1>11, <2>3, IntervalOfValue
  <1>12. N + 1 \in 1 .. N + 1 /\ S[N + 1] \in Nat
    BY <1>2
  <1>13. QED
    BY <1>0, <1>1, <1>8, <1>10, <1>11, <1>12 DEF at

\* The totals of a row: those of the vocabulary, and one more for each symbol
\* of the tail.
Row(freq, tail) == freq \o [i \in 1 .. tail |-> 1]

LEMMA RowTotals ==
  ASSUME NEW freq \in Frequencies, NEW tail \in Nat
  PROVE  /\ Row(freq, tail) \in Frequencies /\ Len(Row(freq, tail)) = Len(freq) + tail
         /\ \A i \in 1 .. Len(freq) : Row(freq, tail)[i] = freq[i]
         /\ \A i \in 1 .. tail : Row(freq, tail)[Len(freq) + i] = 1
         /\ \A i \in 1 .. Len(freq) + 1 : Starts(Row(freq, tail))[i] = Starts(freq)[i]
         /\ \A i \in 0 .. tail :
              Starts(Row(freq, tail))[Len(freq) + 1 + i] = Starts(freq)[Len(freq) + 1] + i
  <1>0. PICK N \in Nat : N = Len(freq)
    BY DEF Frequencies
  <1> DEFINE ones == [i \in 1 .. tail |-> 1]
  <1>1. ones \in Seq(Nat \ {0}) /\ Len(ones) = tail /\ \A i \in 1 .. tail : ones[i] = 1
    OBVIOUS
  <1> HIDE DEF ones
  <1>2. PICK row : row = Row(freq, tail) /\ row = freq \o ones
    BY DEF Row, ones
  <1>3. /\ row \in Seq(Nat \ {0}) /\ Len(row) = N + tail
        /\ \A i \in 1 .. N + tail : row[i] = IF i <= N THEN freq[i] ELSE ones[i - N]
    <2>1. freq \in Seq(Nat \ {0}) /\ row = freq \o ones
      BY <1>2 DEF Frequencies
    <2>2. /\ row \in Seq(Nat \ {0}) /\ Len(row) = Len(freq) + Len(ones)
          /\ \A i \in 1 .. Len(freq) + Len(ones) :
               row[i] = IF i <= Len(freq) THEN freq[i] ELSE ones[i - Len(freq)]
      BY <1>1, <2>1, ConcatProperties
    <2>3. QED
      BY <1>0, <1>1, <2>2
  <1>4. \A i \in 1 .. N : row[i] = freq[i]
    BY <1>3
  <1>5. ASSUME NEW i \in 1 .. tail PROVE row[N + i] = 1
    <2>1. N + i \in 1 .. N + tail /\ ~ (N + i <= N) /\ (N + i) - N = i
      OBVIOUS
    <2>2. QED
      BY <1>1, <1>3, <2>1
  <1>6. PICK R : R = Starts(row)
    OBVIOUS
  <1>7. PICK S : S = Starts(freq)
    OBVIOUS
  <1>8. R[1] = 0 /\ \A i \in 1 .. N + tail : R[i + 1] = R[i] + row[i]
    <2>1. row \in Frequencies
      BY <1>3 DEF Frequencies
    <2>2. QED
      BY <1>3, <1>6, <2>1, StartsTotal
  <1>9. S[1] = 0 /\ (\A i \in 1 .. N : S[i + 1] = S[i] + freq[i]) /\ S[N + 1] \in Nat
    <2>1. N + 1 \in 1 .. Len(freq) + 1
      BY <1>0
    <2>2. QED
      BY <1>0, <1>7, <2>1, StartsTotal
  <1>10. PICK f, g : f = [i \in 0 .. N |-> R[i + 1]] /\ g = [i \in 0 .. N |-> S[i + 1]]
    OBVIOUS
  <1>11. StepAlike(f, g, N)
    <2>1. f[0] = g[0]
      BY <1>8, <1>9, <1>10
    <2>2. ASSUME NEW i \in 1 .. N, f[i - 1] = g[i - 1] PROVE f[i] = g[i]
      <3>1. f[i - 1] = R[i] /\ g[i - 1] = S[i] /\ f[i] = R[i + 1] /\ g[i] = S[i + 1]
        BY <1>10
      <3>2. R[i + 1] = R[i] + row[i] /\ S[i + 1] = S[i] + freq[i] /\ row[i] = freq[i]
        BY <1>4, <1>8, <1>9
      <3>3. QED
        BY <2>2, <3>1, <3>2
    <2>3. QED
      BY <2>1, <2>2 DEF StepAlike
  <1>12. ASSUME NEW i \in 1 .. N + 1 PROVE R[i] = S[i]
    <2>1. i - 1 \in 0 .. N /\ (i - 1) + 1 = i
      OBVIOUS
    <2>2. f[i - 1] = g[i - 1]
      BY <1>11, <2>1, Determined
    <2>3. QED
      BY <1>10, <2>1, <2>2
  <1> DEFINE T == { i \in Nat : R[N + 1 + i] = S[N + 1] + i }
  <1>13. 0 \in T
    BY <1>9, <1>12
  <1>14. ASSUME NEW i \in 0 .. tail - 1, i \in T PROVE i + 1 \in T
    <2>1. N + 1 + i \in 1 .. N + tail /\ N + 1 + (i + 1) = (N + 1 + i) + 1
          /\ i + 1 \in 1 .. tail /\ N + 1 + i = N + (i + 1)
      OBVIOUS
    <2>2. R[(N + 1 + i) + 1] = R[N + 1 + i] + row[N + 1 + i] /\ row[N + 1 + i] = 1
      BY <1>5, <1>8, <2>1
    <2>3. R[N + 1 + i] = S[N + 1] + i
      BY <1>14
    <2>4. R[N + 1 + (i + 1)] = S[N + 1] + (i + 1)
      BY <1>9, <2>1, <2>2, <2>3
    <2>5. QED
      BY <2>4
  <1> HIDE DEF T
  <1>15. 0 .. tail \subseteq T
    BY <1>13, <1>14, InductionTo
  <1>16. \A i \in 0 .. tail : R[N + 1 + i] = S[N + 1] + i
    BY <1>15 DEF T
  <1>17. QED
    BY <1>0, <1>2, <1>3, <1>4, <1>5, <1>6, <1>7, <1>12, <1>16 DEF Frequencies

\* The table of a row: the vocabulary's N symbols, whose frequencies add up to
\* T, and the tail's behind them.
TableWithTail(table, freq, tail, N, T) ==
  /\ table = WithTail(TableOf(freq), tail)
  /\ table.total = T + tail
  /\ Len(table.freq) = N + tail /\ Len(table.cum) = N + tail
  /\ \A i \in 1 .. N : table.freq[i] = freq[i] /\ table.cum[i] = Starts(freq)[i]
  /\ \A i \in 1 .. tail : table.freq[N + i] = 1 /\ table.cum[N + i] = T + (i - 1)

LEMMA RowTableIs ==
  ASSUME NEW freq \in Frequencies, NEW tail \in Nat, NEW N \in Nat, N = Len(freq),
         NEW T \in Nat, T = Starts(freq)[N + 1],
         NEW table, table = TableOf(Row(freq, tail))
  PROVE  TableWithTail(table, freq, tail, N, T)
  <1>1. PICK row : row = Row(freq, tail)
    OBVIOUS
  <1>2. PICK S, R : S = Starts(freq) /\ R = Starts(row)
    OBVIOUS
  <1>3. /\ row \in Frequencies /\ Len(row) = N + tail
        /\ \A i \in 1 .. N : row[i] = freq[i]
        /\ \A i \in 1 .. tail : row[N + i] = 1
        /\ \A i \in 1 .. N + 1 : R[i] = S[i]
        /\ \A i \in 0 .. tail : R[N + 1 + i] = T + i
    BY <1>1, <1>2, RowTotals
  <1>4. /\ \A i \in 1 .. N + tail + 1 : R[i] \in Nat
        /\ \A i \in 1 .. N + 1 : S[i] \in Nat
    BY <1>2, <1>3, StartsTotal
  <1>5. PICK c : c = SubSeq(R, 1, N + tail)
    OBVIOUS
  <1>6. c \in Seq(Nat) /\ Len(c) = N + tail /\ \A i \in 1 .. N + tail : c[i] = R[i]
    <2>1. \A i \in 1 .. N + tail : R[i] \in Nat
      BY <1>4
    <2>2. 1 \in Int /\ N + tail \in Int /\ (~ (1 <= N + tail) => N + tail = 0)
      OBVIOUS
    <2>3. /\ c \in Seq(Nat)
          /\ Len(c) = IF 1 <= N + tail THEN N + tail - 1 + 1 ELSE 0
          /\ \A i \in 1 .. N + tail - 1 + 1 : c[i] = R[1 + i - 1]
      BY <1>5, <2>1, <2>2, SubSeqProperties
    <2>4. QED
      BY <2>2, <2>3
  <1>7. PICK b : b = SubSeq(S, 1, N)
    OBVIOUS
  <1>8. b \in Seq(Nat) /\ Len(b) = N /\ \A i \in 1 .. N : b[i] = S[i]
    <2>1. \A i \in 1 .. N : S[i] \in Nat
      BY <1>4
    <2>2. 1 \in Int /\ N \in Int /\ (~ (1 <= N) => N = 0)
      OBVIOUS
    <2>3. /\ b \in Seq(Nat)
          /\ Len(b) = IF 1 <= N THEN N - 1 + 1 ELSE 0
          /\ \A i \in 1 .. N - 1 + 1 : b[i] = S[1 + i - 1]
      BY <1>7, <2>1, <2>2, SubSeqProperties
    <2>4. QED
      BY <2>2, <2>3
  <1>0. \A i \in 1 .. N : i \in 1 .. N + tail /\ i \in 1 .. N + 1
    OBVIOUS
  <1>9. PICK e : e = [i \in 1 .. tail |-> T + i - 1]
    OBVIOUS
  <1>10. e \in Seq(Nat) /\ Len(e) = tail /\ \A i \in 1 .. tail : e[i] = T + i - 1
    BY <1>9
  <1>11. ASSUME NEW i \in 1 .. tail PROVE c[N + i] = T + (i - 1)
    <2>1. N + i \in 1 .. N + tail /\ i - 1 \in 0 .. tail /\ N + 1 + (i - 1) = N + i
      OBVIOUS
    <2>2. QED
      BY <1>3, <1>6, <2>1
  <1>12. b \o e = c
    <2>1. /\ b \o e \in Seq(Nat) /\ Len(b \o e) = N + tail
          /\ \A i \in 1 .. N + tail : (b \o e)[i] = IF i <= N THEN b[i] ELSE e[i - N]
      <3>1. /\ b \o e \in Seq(Nat) /\ Len(b \o e) = Len(b) + Len(e)
            /\ \A i \in 1 .. Len(b) + Len(e) :
                 (b \o e)[i] = IF i <= Len(b) THEN b[i] ELSE e[i - Len(b)]
        BY <1>8, <1>10, ConcatProperties
      <3>2. QED
        BY <1>8, <1>10, <3>1
    <2>2. ASSUME NEW i \in 1 .. N + tail PROVE (b \o e)[i] = c[i]
      <3>1. CASE i <= N
        <4>1. i \in 1 .. N
          BY <3>1
        <4>2. (b \o e)[i] = b[i]
          BY <2>1, <3>1
        <4>3. QED
          BY <1>0, <1>3, <1>6, <1>8, <4>1, <4>2
      <3>2. CASE ~ (i <= N)
        <4>1. PICK j \in 1 .. tail : i = N + j /\ i - N = j
          <5>1. i - N \in 1 .. tail /\ i = N + (i - N)
            BY <3>2
          <5>2. QED
            BY <5>1
        <4>2. (b \o e)[i] = e[j] /\ e[j] = T + j - 1 /\ c[N + j] = T + (j - 1)
          BY <1>10, <1>11, <2>1, <3>2, <4>1
        <4>3. QED
          BY <4>1, <4>2
      <3>3. QED
        BY <3>1, <3>2
    <2>3. QED
      BY <1>6, <2>1, <2>2, SeqEqual
  <1>13. R[N + tail + 1] = T + tail
    <2>1. tail \in 0 .. tail /\ N + 1 + tail = N + tail + 1
      OBVIOUS
    <2>2. QED
      BY <1>3, <2>1
  <1>14. TableOf(row) = [freq |-> row, cum |-> c, total |-> T + tail]
    BY <1>2, <1>3, <1>5, <1>13 DEF TableOf
  <1>15. TableOf(freq) = [freq |-> freq, cum |-> b, total |-> T]
    BY <1>2, <1>7 DEF TableOf
  <1>16. WithTail(TableOf(freq), tail) = [freq |-> row, cum |-> b \o e, total |-> T + tail]
    BY <1>1, <1>9, <1>15 DEF WithTail, Row
  <1>17. \A i \in 1 .. N : c[i] = S[i]
    BY <1>0, <1>3, <1>6
  <1>18. table.freq = row /\ table.cum = c /\ table.total = T + tail
    BY <1>1, <1>14
  <1>19. table = WithTail(TableOf(freq), tail)
    BY <1>1, <1>12, <1>14, <1>16
  <1>20. QED
    BY <1>2, <1>3, <1>6, <1>11, <1>17, <1>18, <1>19 DEF TableWithTail

\* The binary search in it.
LEMMA SymbolSearched ==
  ASSUME NEW table, NEW M \in Nat, M = Len(table.cum),
         NEW S, Ascend(S, M), StartsAt(table.cum, S, M),
         NEW value \in Nat, NEW n \in 1 .. M, Within(S, n, value)
  PROVE  SymbolFor(table, value) = n
  <1>1. PICK c : c = table.cum
    OBVIOUS
  <1>2. \A m \in 0 .. M : IsPoint(c, value, M, m) <=> m = n
    BY <1>1, OnePoint DEF Within
  <1>3. PartitionPoint(c, value) = CHOOSE m \in 0 .. M : IsPoint(c, value, M, m)
    BY <1>1 DEF PartitionPoint, IsPoint
  <1>4. (CHOOSE m \in 0 .. M : IsPoint(c, value, M, m)) = n
    BY <1>2
  <1>5. PICK m : m = PartitionPoint(c, value) /\ m = n
    BY <1>3, <1>4
  <1>6. m # 0
    BY <1>5
  <1>7. SymbolFor(table, value) = m
    BY <1>1, <1>5, <1>6 DEF SymbolFor
  <1>8. QED
    BY <1>5, <1>7

\* What a call that is accepted works with.
LEMMA RowFacts ==
  ASSUME NEW weights \in Logits, NEW tail \in Tails, Accepted(weights, tail)
  PROVE  /\ tail \in Nat /\ Len(weights) \in Nat \ {0}
         /\ Freqs(weights) \in Frequencies /\ Len(Freqs(weights)) = Len(weights)
         /\ RowTable(weights, tail) = TableOf(Row(Freqs(weights), tail))
         /\ Starts(Freqs(weights))[Len(weights) + 1] \in Nat
  <1>1. /\ tail \in Nat /\ weights \in Seq(Nat \cup {NonFinite}) /\ weights # <<>>
        /\ \A i \in 1 .. Len(weights) : weights[i] # NonFinite
    BY ScratchAssumption DEF Accepted
  <1>2. PICK N \in Nat : N = Len(weights)
    BY <1>1
  <1>3. \A i \in 1 .. N : weights[i] \in Nat
    BY <1>1, <1>2
  <1>4. N # 0
    BY <1>1, <1>2
  <1>5. PICK freq : freq = Freqs(weights)
    OBVIOUS
  <1>6. freq \in Seq(Nat \ {0}) /\ Len(freq) = N
    <2>1. freq = [i \in 1 .. N |-> weights[i] + 1]
      BY <1>2, <1>5 DEF Freqs
    <2>2. freq \in [1 .. N -> Nat \ {0}]
      BY <1>3, <2>1
    <2>3. QED
      BY <2>2
  <1>7. freq \in Frequencies
    BY <1>6 DEF Frequencies
  <1>8. Starts(freq)[N + 1] \in Nat
    <2>1. N + 1 \in 1 .. Len(freq) + 1
      BY <1>6
    <2>2. QED
      BY <1>7, <2>1, StartsTotal
  <1>9. QED
    BY <1>1, <1>2, <1>4, <1>5, <1>6, <1>7, <1>8 DEF RowTable, Row

\* A row overwrites what was left in the scratch of logits, whatever its length was.
LEMMA FilledIsRow ==
  ASSUME NEW old, NEW weights \in Logits
  PROVE  Filled(old, weights) = weights
  <1>1. weights \in Seq(Nat \cup {NonFinite})
    BY ScratchAssumption
  <1>2. PICK N \in Nat : N = Len(weights)
    BY <1>1
  <1>3. Resized(old, N) = [i \in 1 .. N |-> IF i <= Len(old) THEN old[i] ELSE 0]
    BY DEF Resized
  <1>4. PICK slots : slots = Resized(old, N)
    OBVIOUS
  <1>5. Len(slots) = N
    BY <1>2, <1>3, <1>4
  <1>6. Filled(old, weights) = [i \in 1 .. N |-> IF i <= N THEN weights[i] ELSE slots[i]]
    BY <1>2, <1>4, <1>5 DEF Filled
  <1>7. weights = [i \in 1 .. N |-> weights[i]]
    BY <1>1, <1>2
  <1>8. QED
    BY <1>2, <1>6, <1>7

LEMMA RewrittenIsNew ==
  ASSUME NEW old, NEW freq \in Frequencies
  PROVE  /\ Rewritten(old, freq) = freq
         /\ Rewritten(old, TableOf(freq).cum) = TableOf(freq).cum
  <1>1. PICK cum : cum = TableOf(freq).cum
    OBVIOUS
  <1>2. freq \in Seq(Nat)
    BY DEF Frequencies
  <1>3. cum \in Seq(Nat)
    <2>1. PICK N \in Nat : N = Len(freq)
      BY <1>2
    <2>2. \A i \in 1 .. N : Starts(freq)[i] \in Nat
      BY <2>1, StartsTotal
    <2>3. 1 \in Int /\ N \in Int /\ (~ (1 <= N) => N = 0)
      OBVIOUS
    <2>4. cum = SubSeq(Starts(freq), 1, N)
      BY <1>1, <2>1 DEF TableOf
    <2>5. QED
      BY <2>2, <2>3, <2>4, SubSeqProperties
  <1>4. QED
    BY <1>1, <1>2, <1>3 DEF Rewritten

LEMMA TableAnswers ==
  ASSUME        NEW weights \in Logits, NEW tail \in Tails, FullTable(weights, tail)
  PROVE  answer' = AnswerOf(call')
  <1>0. PICK c : c = call' /\ c = Call("table", weights, tail, 0)
    BY DEF FullTable
  <1>1. c.op = "table" /\ c.weights = weights /\ c.tail = tail
    BY <1>0 DEF Call
  <1>2. CASE ~ Accepted(weights, tail)
    BY <1>0, <1>1, <1>2 DEF FullTable, AnswerOf
  <1>3. CASE Accepted(weights, tail)
    <2>1. PICK freq \in Frequencies, N \in Nat, T \in Nat :
            /\ freq = Freqs(weights) /\ N = Len(freq) /\ T = Starts(freq)[N + 1]
            /\ RowTable(weights, tail) = TableOf(Row(freq, tail)) /\ tail \in Nat
      BY <1>3, RowFacts
    <2>2. PICK table : /\ table = TableOf(Row(freq, tail)) /\ table = WithTail(TableOf(freq), tail)
                       /\ table.total = T + tail
      <3>1. PICK table : table = TableOf(Row(freq, tail))
        OBVIOUS
      <3>2. TableWithTail(table, freq, tail, N, T)
        BY <2>1, <3>1, RowTableIs
      <3>3. QED
        BY <3>1, <3>2 DEF TableWithTail
    <2>3. TableOf(freq).total = T
      BY <2>1 DEF TableOf
    <2>4. AnswerOf(c) = IF T + tail >= TotalLimit THEN Refused ELSE table
      BY <1>1, <1>3, <2>1, <2>2 DEF AnswerOf
    <2>8. exp' = weights
      BY <1>3, FilledIsRow DEF FullTable
    <2>9. [freq |-> Rewritten(cdf.freq, TableOf(freq).freq), cum |-> Rewritten(cdf.cum, TableOf(freq).cum),
           total |-> TableOf(freq).total] = TableOf(freq)
      BY <2>1, RewrittenIsNew DEF TableOf
    <2>5. answer' = IF T >= TotalLimit THEN Refused
                    ELSE IF T + tail >= TotalLimit THEN Refused ELSE table
      BY <1>3, <2>1, <2>2, <2>3, <2>8, <2>9 DEF FullTable
    <2>6. T >= TotalLimit => T + tail >= TotalLimit
      BY <2>1, CdfAssumption
    <2>7. QED
      BY <1>0, <2>4, <2>5, <2>6
  <1>4. QED
    BY <1>2, <1>3

LEMMA RangeAnswers ==
  ASSUME        NEW weights \in Logits, NEW tail \in Tails, NEW symbol \in Nat \ {0},
         SymbolRange(weights, tail, symbol)
  PROVE  answer' = AnswerOf(call')
  <1>0. PICK c : c = call' /\ c = Call("range", weights, tail, symbol)
    BY DEF SymbolRange
  <1>1. c.op = "range" /\ c.weights = weights /\ c.tail = tail /\ c.arg = symbol
    BY <1>0 DEF Call
  <1>2. CASE ~ Accepted(weights, tail)
    BY <1>0, <1>1, <1>2 DEF SymbolRange, AnswerOf
  <1>3. CASE Accepted(weights, tail)
    <2>1. PICK freq \in Frequencies, N \in Nat, T \in Nat :
            /\ freq = Freqs(weights) /\ N = Len(freq) /\ T = Starts(freq)[N + 1]
            /\ N = Len(weights)
            /\ RowTable(weights, tail) = TableOf(Row(freq, tail)) /\ tail \in Nat
      BY <1>3, RowFacts
    <2>2. PICK table :
            /\ table = TableOf(Row(freq, tail))
            /\ table.total = T + tail /\ Len(table.freq) = N + tail
            /\ \A i \in 1 .. N : table.freq[i] = freq[i] /\ table.cum[i] = Starts(freq)[i]
            /\ \A i \in 1 .. tail : table.freq[N + i] = 1 /\ table.cum[N + i] = T + (i - 1)
      <3>1. PICK table : table = TableOf(Row(freq, tail))
        OBVIOUS
      <3>2. TableWithTail(table, freq, tail, N, T)
        BY <2>1, <3>1, RowTableIs
      <3>3. QED
        BY <3>1, <3>2 DEF TableWithTail
    <2>3. AnswerOf(c) = IF T + tail >= TotalLimit \/ symbol > N + tail THEN Refused
                        ELSE [cum |-> table.cum[symbol], freq |-> table.freq[symbol], total |-> T + tail]
      <3>1. RowTable(weights, tail) = table
        BY ONLY <2>1, <2>2
      <3>2. AnswerOf(c) = IF table.total >= TotalLimit THEN Refused
                          ELSE IF symbol > Len(table.freq) THEN Refused ELSE IntervalOf(table, symbol)
        BY ONLY <1>1, <1>3, <3>1 DEF AnswerOf
      <3>3. IntervalOf(table, symbol) = [cum |-> table.cum[symbol], freq |-> table.freq[symbol], total |-> T + tail]
        BY ONLY <2>2 DEF IntervalOf
      <3>4. QED
        BY ONLY <2>2, <3>2, <3>3
    <2>4. PICK scan : scan = EncoderScan(freq, symbol)
      OBVIOUS
    <2>5. scan.total = T /\ (symbol \in 1 .. N => scan.cum = Starts(freq)[symbol])
      <3>1. N = Len(freq) /\ T = Starts(freq)[Len(freq) + 1]
        BY <1>3, <2>1
      <3>2. freq \in Frequencies /\ symbol \in Nat
        BY <2>1
      <3>3. /\ scan.total = Starts(freq)[Len(freq) + 1]
            /\ symbol \in 1 .. Len(freq) => scan.cum = Starts(freq)[symbol]
        BY ONLY <2>4, <3>2, EncoderScanned
      <3>4. QED
        BY ONLY <3>1, <3>3
    <2>6. CASE symbol > N + tail
      <3>1. answer' = Refused
        BY <2>1, <2>6 DEF SymbolRange
      <3>2. QED
        BY <1>0, <2>3, <2>6, <3>1
    <2>7. CASE ~ (symbol > N + tail)
      <3>0. exp' = weights
        BY <1>3, <2>1, <2>7, FilledIsRow DEF SymbolRange
      <3>1. answer' = IF T + tail >= TotalLimit THEN Refused
                      ELSE IF symbol <= N
                      THEN [cum |-> scan.cum, freq |-> freq[symbol], total |-> T + tail]
                      ELSE [cum |-> T + (symbol - N - 1), freq |-> 1, total |-> T + tail]
        BY <1>3, <2>1, <2>4, <2>5, <2>7, <3>0 DEF SymbolRange
      <3>2. CASE symbol <= N
        <4>1. symbol \in 1 .. N
          BY <3>2
        <4>2. QED
          BY <1>0, <2>2, <2>3, <2>5, <2>7, <3>1, <3>2, <4>1
      <3>3. CASE ~ (symbol <= N)
        <4>1. PICK i \in 1 .. tail : symbol = N + i /\ symbol - N - 1 = i - 1
          <5>1. symbol - N \in 1 .. tail /\ symbol = N + (symbol - N) /\ symbol - N - 1 = (symbol - N) - 1
            BY <2>1, <2>7, <3>3
          <5>2. QED
            BY <5>1
        <4>2. table.cum[symbol] = T + (symbol - N - 1) /\ table.freq[symbol] = 1
          BY <2>2, <4>1
        <4>3. QED
          BY <1>0, <2>3, <2>7, <3>1, <3>3, <4>2
      <3>4. QED
        BY <3>2, <3>3
    <2>8. QED
      BY <2>6, <2>7
  <1>4. QED
    BY <1>2, <1>3

LEMMA ValueAnswers ==
  ASSUME        NEW weights \in Logits, NEW tail \in Tails, NEW value \in Nat,
         SymbolOfValue(weights, tail, value)
  PROVE  answer' = AnswerOf(call')
  <1>0. PICK c : c = call' /\ c = Call("value", weights, tail, value)
    BY DEF SymbolOfValue
  <1>1. c.op = "value" /\ c.weights = weights /\ c.tail = tail /\ c.arg = value
    BY <1>0 DEF Call
  <1>2. CASE ~ Accepted(weights, tail)
    BY <1>0, <1>1, <1>2 DEF SymbolOfValue, AnswerOf
  <1>3. CASE Accepted(weights, tail)
    <2>1. PICK freq \in Frequencies, N \in Nat, T \in Nat :
            /\ freq = Freqs(weights) /\ N = Len(freq) /\ T = Starts(freq)[N + 1]
            /\ RowTable(weights, tail) = TableOf(Row(freq, tail)) /\ tail \in Nat
      BY <1>3, RowFacts
    <2>0. N \in Nat /\ T \in Nat /\ tail \in Nat
      BY <2>1
    <2>2. PICK table :
            /\ table = TableOf(Row(freq, tail))
            /\ table.total = T + tail /\ Len(table.freq) = N + tail /\ Len(table.cum) = N + tail
            /\ \A i \in 1 .. N : table.freq[i] = freq[i] /\ table.cum[i] = Starts(freq)[i]
            /\ \A i \in 1 .. tail : table.freq[N + i] = 1 /\ table.cum[N + i] = T + (i - 1)
      <3>1. PICK table : table = TableOf(Row(freq, tail))
        OBVIOUS
      <3>2. TableWithTail(table, freq, tail, N, T)
        BY <2>1, <3>1, RowTableIs
      <3>3. QED
        BY <3>1, <3>2 DEF TableWithTail
    <2>3. AnswerOf(c) =
            IF T + tail >= TotalLimit \/ value >= T + tail THEN Refused
            ELSE [symbol |-> SymbolFor(table, value),
                  range |-> [cum |-> table.cum[SymbolFor(table, value)],
                             freq |-> table.freq[SymbolFor(table, value)], total |-> T + tail]]
      BY <1>1, <1>3, <2>1, <2>2 DEF AnswerOf, IntervalOf
    <2>4. PICK scan : scan = DecoderScan(freq, value)
      OBVIOUS
    <2>5. EncoderScan(freq, 0).total = T
      BY <2>1, EncoderScanned
    <2>9. exp' = weights /\ decoder_freq' = freq
      <3>1. exp' = weights
        BY <1>3, FilledIsRow DEF SymbolOfValue
      <3>2. decoder_freq' = Rewritten(decoder_freq, freq)
        BY <1>3, <2>1, <3>1 DEF SymbolOfValue
      <3>3. QED
        BY <2>1, <3>1, <3>2, RewrittenIsNew
    <2>6. answer' =
            IF T + tail >= TotalLimit \/ value >= T + tail THEN Refused
            ELSE IF scan.symbol # 0
            THEN [symbol |-> scan.symbol,
                  range |-> [cum |-> scan.cum, freq |-> freq[scan.symbol], total |-> T + tail]]
            ELSE [symbol |-> N + (value - scan.cum) + 1,
                  range |-> [cum |-> value, freq |-> 1, total |-> T + tail]]
      BY <1>3, <2>1, <2>4, <2>5, <2>9 DEF SymbolOfValue
    <2>7. CASE T + tail >= TotalLimit \/ value >= T + tail
      BY <1>0, <2>3, <2>6, <2>7
    <2>8. CASE ~ (T + tail >= TotalLimit) /\ value < T + tail
      <3>1. PICK R, row : row = Row(freq, tail) /\ R = Starts(row)
        OBVIOUS
      <3>2. /\ row \in Frequencies /\ Len(row) = N + tail
            /\ \A i \in 1 .. N + 1 : R[i] = Starts(freq)[i]
            /\ \A i \in 0 .. tail : R[N + 1 + i] = T + i
        <4>1. freq \in Frequencies /\ tail \in Nat /\ N = Len(freq) /\ T = Starts(freq)[Len(freq) + 1]
          BY <2>1
        <4>2. /\ row \in Frequencies /\ Len(row) = Len(freq) + tail
              /\ \A i \in 1 .. Len(freq) + 1 : R[i] = Starts(freq)[i]
              /\ \A i \in 0 .. tail : R[Len(freq) + 1 + i] = Starts(freq)[Len(freq) + 1] + i
          BY <3>1, <4>1, RowTotals
        <4>3. QED
          BY <4>1, <4>2
      <3>3. Ascend(R, N + tail) /\ StartsAt(table.cum, R, N + tail)
        <4>1. Ascend(R, N + tail)
          BY <3>1, <3>2, StartsTotal
        <4>2. ASSUME NEW i \in 1 .. N + tail PROVE table.cum[i] = R[i]
          <5>1. CASE i <= N
            <6>1. i \in 1 .. N /\ i \in 1 .. N + 1
              BY <5>1
            <6>2. QED
              BY <2>2, <3>2, <6>1
          <5>2. CASE ~ (i <= N)
            <6>1. PICK j \in 1 .. tail : i = N + j
              <7>1. i - N \in 1 .. tail /\ i = N + (i - N)
                BY <2>1, <5>2
              <7>2. QED
                BY <7>1
            <6>2. j - 1 \in 0 .. tail /\ N + 1 + (j - 1) = N + j
              BY <2>1
            <6>3. table.cum[N + j] = T + (j - 1) /\ R[N + 1 + (j - 1)] = T + (j - 1)
              BY <2>2, <3>2, <6>2
            <6>4. QED
              BY <6>1, <6>2, <6>3
          <5>3. QED
            BY <5>1, <5>2
        <4>3. QED
          BY <4>1, <4>2 DEF StartsAt
      <3>4. ASSUME NEW n \in 1 .. N + tail, Within(R, n, value) PROVE SymbolFor(table, value) = n
        <4>1. PICK M \in Nat : M = N + tail
          BY <2>1
        <4>2. M = Len(table.cum) /\ Ascend(R, M) /\ StartsAt(table.cum, R, M) /\ n \in 1 .. M
          BY <2>2, <3>3, <3>4, <4>1
        <4>3. QED
          BY <3>4, <4>2, SymbolSearched
      <3>5. CASE value < T
        <4>1. PICK n \in 1 .. N : Within(Starts(freq), n, value)
          BY <2>1, <3>5, StartsTotal, IntervalOfValue
        <4>2. scan = [symbol |-> n, cum |-> Starts(freq)[n]]
          BY <2>1, <2>4, <4>1, DecoderScanned
        <4>3. n \in 1 .. N + tail /\ n \in 1 .. N + 1 /\ n + 1 \in 1 .. N + 1 /\ n # 0
          BY <2>1
        <4>4. Within(R, n, value)
          BY <3>2, <4>1, <4>3 DEF Within
        <4>5. SymbolFor(table, value) = n
          BY <3>4, <4>3, <4>4
        <4>6. table.cum[n] = Starts(freq)[n] /\ table.freq[n] = freq[n]
          BY <2>2
        <4>7. QED
          BY <1>0, <2>3, <2>6, <2>8, <4>2, <4>3, <4>5, <4>6
      <3>6. CASE ~ (value < T)
        <4>1. scan = [symbol |-> 0, cum |-> T]
          BY <2>1, <2>4, <3>6, DecoderScanned
        <4>2. PICK i \in 1 .. tail : value = T + (i - 1)
          <5>1. PICK d \in Nat : value = T + d /\ d < tail
            <6>1. T \in Nat /\ tail \in Nat /\ T <= value /\ value < T + tail
              BY <2>0, <2>8, <3>6
            <6>2. value - T \in Nat /\ value = T + (value - T) /\ value - T < tail
              BY <6>1
            <6>3. QED
              BY <6>2
          <5>2. d + 1 \in 1 .. tail /\ (d + 1) - 1 = d
            BY <2>1, <5>1
          <5>3. QED
            BY <5>1, <5>2
        <4>3. /\ N + i \in 1 .. N + tail /\ i - 1 \in 0 .. tail /\ i \in 0 .. tail
              /\ N + i = N + 1 + (i - 1) /\ (N + i) + 1 = N + 1 + i
          BY <2>1
        <4>4. R[N + 1 + (i - 1)] = T + (i - 1) /\ R[N + 1 + i] = T + i
          BY <3>2, <4>3
        <4>5. Within(R, N + i, value)
          BY <2>1, <4>2, <4>3, <4>4 DEF Within
        <4>6. SymbolFor(table, value) = N + i
          BY <3>4, <4>3, <4>5
        <4>7. table.cum[N + i] = value /\ table.freq[N + i] = 1
          BY <2>2, <4>2
        <4>8. N + (value - T) + 1 = N + i
          BY <2>0, <4>2
        <4>9. QED
          BY <1>0, <2>3, <2>6, <2>8, <4>1, <4>6, <4>7, <4>8
      <3>7. QED
        BY <3>5, <3>6
    <2>10. QED
      BY <2>1, <2>7, <2>8, CdfAssumption
  <1>4. QED
    BY <1>2, <1>3

(***************************************************************************)
(* The interval logits_to_symbol_range gives the encoder is the one the    *)
(* full table has for the symbol, the decoder finds a value's symbol where *)
(* the table's search does, and all three refuse the same rows, whatever   *)
(* the scratch holds from before.                                          *)
(***************************************************************************)
THEOREM ThreePathsAgree == ScratchSpec => []PathsAgree
<1>1. ScratchInit => PathsAgree
  BY DEF ScratchInit, PathsAgree
<1>2. ASSUME PathsAgree, [ScratchNext]_scratchVars PROVE PathsAgree'
  <2>1. CASE ScratchNext
    <3>1. PICK weights \in Logits, tail \in Tails :
            \/ FullTable(weights, tail)
            \/ \E symbol \in 1 .. SymbolLimit + 1 : SymbolRange(weights, tail, symbol)
            \/ \E value \in 0 .. TotalLimit : SymbolOfValue(weights, tail, value)
      BY <2>1 DEF ScratchNext
    <3>2. \A symbol \in 1 .. SymbolLimit + 1 : symbol \in Nat \ {0}
      BY CdfAssumption
    <3>3. \A value \in 0 .. TotalLimit : value \in Nat
      BY CdfAssumption
    <3>4. answer' = AnswerOf(call')
      BY <3>1, <3>2, <3>3, CdfAssumption, TableAnswers, RangeAnswers, ValueAnswers
    <3>5. QED
      BY <3>4 DEF PathsAgree
  <2>2. CASE UNCHANGED scratchVars
    BY <1>2, <2>2 DEF scratchVars, PathsAgree
  <2>3. QED
    BY <1>2, <2>1, <2>2
<1>3. QED
  BY <1>1, <1>2, PTL DEF ScratchSpec
=============================================================================
