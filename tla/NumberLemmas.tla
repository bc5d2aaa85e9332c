---------------------------- MODULE NumberLemmas ----------------------------
(***************************************************************************)
(* Natural numbers as the proofs about the coder's intervals, the tables,  *)
(* the context window and the checkpoints use them: division, induction    *)
(* and recursion, least and largest members, running totals, and the start *)
(* of a window that slides.                                                *)
(***************************************************************************)
EXTENDS Integers, Sequences, WellFoundedInduction, TLAPS

(***************************************************************************)
(* Euclidean division by a positive number: the quotient and the remainder *)
(* are what the division says, and nothing else is.                        *)
(***************************************************************************)
LEMMA DivMod ==
  ASSUME NEW a \in Nat, NEW b \in Nat, b > 0
  PROVE  /\ a \div b \in Nat
         /\ a % b \in 0 .. b - 1
         /\ a = b * (a \div b) + (a % b)
  OBVIOUS

LEMMA DivModUnique ==
  ASSUME NEW a \in Nat, NEW b \in Nat, b > 0,
         NEW q \in Int, NEW r \in 0 .. b - 1,
         a = b * q + r
  PROVE  a \div b = q /\ a % b = r
  <1>1. /\ a \div b \in Int
        /\ a % b \in 0 .. b - 1
        /\ a = b * (a \div b) + (a % b)
    BY DivMod
  <1>2. b * (q - a \div b) = (a % b) - r
    BY <1>1
  <1>3. q - a \div b = 0
    BY <1>1, <1>2
  <1>4. QED
    BY <1>1, <1>2, <1>3

LEMMA TimesMonotone ==
  ASSUME NEW a \in Nat, NEW x \in Nat, NEW y \in Nat, x <= y
  PROVE  a * x <= a * y /\ a * x \in Nat
  <1>1. a * (y - x) \in Nat /\ a * x \in Nat
    OBVIOUS
  <1>2. a * y = a * x + a * (y - x)
    OBVIOUS
  <1>3. QED
    BY <1>1, <1>2

\* A quotient by the bounds of what is divided.
LEMMA QuotientBetween ==
  ASSUME NEW b \in Nat, b > 0, NEW y \in Nat, NEW c \in Nat, NEW f \in Nat,
         b * c <= y, y < b * c + b * f
  PROVE  y \div b \in Nat /\ c <= y \div b /\ y \div b < c + f
  <1>1. PICK e \in Nat, s \in 0 .. b - 1 : e = y \div b /\ y = b * e + s
    BY DivMod
  <1>2. PICK be \in Nat, bc \in Nat, bf \in Nat : be = b * e /\ bc = b * c /\ bf = b * f
    BY TimesMonotone
  <1>3. y = be + s /\ bc <= y /\ y < bc + bf
    BY <1>1, <1>2
  <1>4. c <= e
    <2>1. CASE e + 1 <= c
      <3>1. b * (e + 1) <= b * c /\ b * (e + 1) = be + b
        BY <1>2, <2>1, TimesMonotone
      <3>2. be + b <= bc
        BY <1>2, <3>1
      <3>3. QED
        BY <1>3, <3>2
    <2>2. QED
      BY <2>1
  <1>5. e < c + f
    <2>1. CASE c + f <= e
      <3>1. b * (c + f) <= b * e /\ b * (c + f) = bc + bf
        BY <1>2, <2>1, TimesMonotone
      <3>2. bc + bf <= be
        BY <1>2, <3>1
      <3>3. QED
        BY <1>3, <3>2
    <2>2. QED
      BY <2>1
  <1>6. QED
    BY <1>1, <1>4, <1>5

-----------------------------------------------------------------------------
(***************************************************************************)
(* Induction, for the members of a set, since a predicate cannot be given  *)
(* to the provers as a parameter: a number that is missing from the set    *)
(* would have a predecessor that is missing too.                           *)
(***************************************************************************)
LEMMA Induction ==
  ASSUME NEW T, 0 \in T, \A n \in Nat : n \in T => n + 1 \in T
  PROVE  Nat \subseteq T
  <1> DEFINE D == Nat \ T
  <1> SUFFICES ASSUME D # {} PROVE FALSE
    OBVIOUS
  <1>1. PICK m \in D : \A y \in D : ~ (<<y, m>> \in OpToRel(<, Nat))
    BY WFMin, NatLessThanWellFounded
  <1>2. m \in Nat /\ m \notin T
    OBVIOUS
  <1>3. m - 1 \in Nat /\ (m - 1) + 1 = m
    BY <1>2
  <1>4. <<m - 1, m>> \in OpToRel(<, Nat)
    BY <1>2, <1>3 DEF OpToRel
  <1>5. m - 1 \in T
    BY <1>1, <1>3, <1>4
  <1>6. QED
    BY <1>2, <1>3, <1>5

\* A set of numbers has a least one, and a bounded measure a greatest.
LEMMA HasLeast ==
  ASSUME NEW D, D \subseteq Nat, D # {}
  PROVE  \E d \in D : \A y \in D : d <= y
  <1>1. PICK d \in D : \A y \in D : ~ (<<y, d>> \in OpToRel(<, Nat))
    BY WFMin, NatLessThanWellFounded
  <1>2. ASSUME NEW y \in D PROVE d <= y
    <2>1. d \in Nat /\ y \in Nat
      OBVIOUS
    <2>2. ~ (y < d)
      BY <1>1, <2>1 DEF OpToRel
    <2>3. QED
      BY <2>1, <2>2
  <1>3. QED
    BY <1>2

LEMMA HasLargest ==
  ASSUME NEW N \in Nat, NEW S, S # {}, NEW f \in [S -> 0 .. N]
  PROVE  \E t \in S : \A u \in S : f[u] <= f[t]
  <1> DEFINE D == { m \in Nat : \E u \in S : m = N - f[u] }
  <1>1. ASSUME NEW u \in S PROVE f[u] \in 0 .. N /\ N - f[u] \in D
    OBVIOUS
  <1>2. D # {} /\ D \subseteq Nat
    BY <1>1
  <1>3. PICK d \in D : \A y \in D : d <= y
    <2> HIDE DEF D
    <2>1. QED
      BY <1>2, HasLeast
  <1>4. PICK t \in S : d = N - f[t]
    OBVIOUS
  <1>5. ASSUME NEW u \in S PROVE f[u] <= f[t]
    BY <1>1, <1>3, <1>4
  <1>6. QED
    BY <1>5

\* Induction up to a bound.
LEMMA InductionTo ==
  ASSUME NEW T, NEW N \in Nat, 0 \in T, \A n \in 0 .. N - 1 : n \in T => n + 1 \in T
  PROVE  0 .. N \subseteq T
  <1> DEFINE U == T \cup { n \in Nat : n > N }
  <1>1. 0 \in U
    OBVIOUS
  <1>2. \A n \in Nat : n \in U => n + 1 \in U
    OBVIOUS
  <1> HIDE DEF U
  <1>3. Nat \subseteq U
    BY <1>1, <1>2, Induction
  <1>4. QED
    BY <1>3 DEF U

(***************************************************************************)
(* A function on 0 .. N is defined by its first value and by how each      *)
(* value is made from the one before: there is such a function ...         *)
(***************************************************************************)
StepsIn(V, c, N, step) == c \in V /\ step \in [1 .. N -> [V -> V]]

IsRun(f, V, c, N, step) ==
  /\ f \in [0 .. N -> V]
  /\ f[0] = c
  /\ \A i \in 1 .. N : f[i] = step[i][f[i - 1]]

LEMMA Recursion ==
  ASSUME NEW V, NEW c, NEW N \in Nat, NEW step, StepsIn(V, c, N, step)
  PROVE  \E f : IsRun(f, V, c, N, step)
  <1> DEFINE Defined(n) == \E f : IsRun(f, V, c, n, step)
             T == { n \in Nat : Defined(n) }
  <1>1. Defined(0)
    <2> DEFINE f == [i \in 0 .. 0 |-> c]
    <2>1. f \in [0 .. 0 -> V] /\ f[0] = c
      BY DEF StepsIn
    <2>2. \A i \in 1 .. 0 : f[i] = step[i][f[i - 1]]
      OBVIOUS
    <2> HIDE DEF f
    <2>3. QED
      BY <2>1, <2>2 DEF IsRun
  <1>2. ASSUME NEW n \in 0 .. N - 1, Defined(n) PROVE Defined(n + 1)
    <2>1. PICK f : IsRun(f, V, c, n, step)
      BY <1>2
    <2>2. f[n] \in V /\ step[n + 1] \in [V -> V]
      BY <2>1 DEF IsRun, StepsIn
    <2> DEFINE last == step[n + 1][f[n]]
               g == [i \in 0 .. n + 1 |-> IF i <= n THEN f[i] ELSE last]
    <2>3. last \in V
      BY <2>2
    <2>4. g \in [0 .. n + 1 -> V] /\ g[0] = c /\ g[n + 1] = last /\ \A i \in 0 .. n : g[i] = f[i]
      BY <2>1, <2>3 DEF IsRun
    <2> HIDE DEF g
    <2>5. \A i \in 1 .. n + 1 : g[i] = step[i][g[i - 1]]
      <3> SUFFICES ASSUME NEW i \in 1 .. n + 1 PROVE g[i] = step[i][g[i - 1]]
        OBVIOUS
      <3>1. CASE i <= n
        BY <2>1, <2>4, <3>1 DEF IsRun
      <3>2. CASE i = n + 1
        BY <2>4, <3>2
      <3>3. QED
        BY <3>1, <3>2
    <2>6. IsRun(g, V, c, n + 1, step)
      BY <2>4, <2>5 DEF IsRun
    <2>7. QED
      BY <2>6
  <1> HIDE DEF Defined
  <1>3. 0 \in T /\ \A n \in 0 .. N - 1 : n \in T => n + 1 \in T
    BY <1>1, <1>2
  <1> HIDE DEF T
  <1>4. 0 .. N \subseteq T
    BY <1>3, InductionTo
  <1>5. Defined(N)
    BY <1>4 DEF T
  <1>6. QED
    BY <1>5 DEF Defined

\* ... and no other.
StepAlike(f, g, N) ==
  /\ f[0] = g[0]
  /\ \A i \in 1 .. N : f[i - 1] = g[i - 1] => f[i] = g[i]

LEMMA Determined ==
  ASSUME NEW N \in Nat, NEW f, NEW g, StepAlike(f, g, N)
  PROVE  \A i \in 0 .. N : f[i] = g[i]
  <1> DEFINE T == { i \in Nat : f[i] = g[i] }
  <1>1. 0 \in T
    BY DEF StepAlike
  <1>2. \A n \in 0 .. N - 1 : n \in T => n + 1 \in T
    <2> SUFFICES ASSUME NEW n \in 0 .. N - 1, n \in T PROVE n + 1 \in T
      OBVIOUS
    <2>1. n + 1 \in 1 .. N /\ (n + 1) - 1 = n
      OBVIOUS
    <2>2. QED
      BY <2>1 DEF StepAlike
  <1> HIDE DEF T
  <1>3. 0 .. N \subseteq T
    BY <1>1, <1>2, InductionTo
  <1>4. QED
    BY <1>3 DEF T

(***************************************************************************)
(* The totals of the first numbers of a sequence, from none of them to all *)
(* of them.                                                                *)
(***************************************************************************)
RunningTotal(freq) ==
  LET start[i \in 1 .. Len(freq) + 1] ==
        IF i = 1 THEN 0 ELSE start[i - 1] + freq[i - 1]
  IN start

LEMMA TotalsGrow ==
  ASSUME NEW freq \in Seq(Nat)
  PROVE  /\ \A i \in 1 .. Len(freq) + 1 : RunningTotal(freq)[i] \in Nat
         /\ RunningTotal(freq)[1] = 0
         /\ \A i \in 1 .. Len(freq) : RunningTotal(freq)[i + 1] = RunningTotal(freq)[i] + freq[i]
  <1>1. PICK N \in Nat : N = Len(freq)
    OBVIOUS
  <1>2. PICK fr : fr = freq
    OBVIOUS
  <1>3. \A i \in 1 .. N : fr[i] \in Nat
    BY <1>1, <1>2
  <1>4. PICK S : /\ \A i \in 0 .. N : S[i] \in Nat
                 /\ S[0] = 0
                 /\ \A i \in 1 .. N : S[i] = S[i - 1] + fr[i]
    <2> DEFINE Added(i, c) == c + fr[i]
    <2>1. \A i \in 1 .. N, c \in Nat : Added(i, c) \in Nat
      BY <1>3
    <2> HIDE DEF Added
    <2>2. PICK step \in [1 .. N -> [Nat -> Nat]] :
            step = [i \in 1 .. N |-> [c \in Nat |-> Added(i, c)]]
      BY <2>1
    <2>3. StepsIn(Nat, 0, N, step)
      BY DEF StepsIn
    <2>4. PICK S : IsRun(S, Nat, 0, N, step)
      BY <2>3, Recursion
    <2>6. \A i \in 0 .. N : S[i] \in Nat
      BY <2>4 DEF IsRun
    <2>5. ASSUME NEW i \in 1 .. N PROVE S[i] = S[i - 1] + fr[i]
      <3>1. S[i - 1] \in Nat
        BY <2>6
      <3>2. step[i][S[i - 1]] = S[i - 1] + fr[i]
        BY <2>2, <3>1 DEF Added
      <3>3. QED
        BY <2>4, <3>2 DEF IsRun
    <2>7. QED
      BY <2>4, <2>5, <2>6 DEF IsRun
  <1> DEFINE E(f) == [i \in 1 .. Len(freq) + 1 |-> IF i = 1 THEN 0 ELSE f[i - 1] + freq[i - 1]]
             g == [i \in 1 .. N + 1 |-> S[i - 1]]
             f == CHOOSE f : f = E(f)
  <1>5. RunningTotal(freq) = f
    BY DEF RunningTotal
  <1>6. g = E(g)
    <2>1. ASSUME NEW i \in 1 .. N + 1 PROVE g[i] = E(g)[i]
      <3>1. CASE i = 1
        BY <1>1, <1>4, <3>1
      <3>2. CASE i # 1
        <4>1. i - 1 \in 1 .. N /\ (i - 1) - 1 = i - 2
          BY <3>2
        <4>2. S[i - 1] = S[i - 2] + fr[i - 1]
          BY <1>4, <4>1
        <4>3. QED
          BY <1>1, <1>2, <3>2, <4>1, <4>2
      <3>3. QED
        BY <3>1, <3>2
    <2>2. QED
      BY <1>1, <2>1
  <1> HIDE DEF E, g
  <1>7. f = E(f)
    BY <1>6
  <1> HIDE DEF f
  <1>8. /\ f[1] = 0
        /\ \A i \in 1 .. N : f[i + 1] = f[i] + fr[i]
    <2>1. f[1] = E(f)[1] /\ E(f)[1] = 0
      BY <1>1, <1>7 DEF E
    <2>2. ASSUME NEW i \in 1 .. N PROVE f[i + 1] = f[i] + fr[i]
      <3>1. E(f)[i + 1] = f[i] + fr[i]
        BY <1>1, <1>2 DEF E
      <3>2. QED
        BY <1>7, <3>1
    <2>3. QED
      BY <2>1, <2>2
  <1>9. \A i \in 1 .. N + 1 : f[i] = S[i - 1]
    <2>1. PICK h : h = [i \in 0 .. N |-> f[i + 1]]
      OBVIOUS
    <2>2. h[0] = 0 /\ \A i \in 1 .. N : h[i] = h[i - 1] + fr[i]
      <3>1. h[0] = 0
        BY <1>8, <2>1
      <3>2. ASSUME NEW i \in 1 .. N PROVE h[i] = h[i - 1] + fr[i]
        <4>1. h[i] = f[i + 1] /\ h[i - 1] = f[i]
          BY <2>1
        <4>2. QED
          BY <1>8, <4>1
      <3>3. QED
        BY <3>1, <3>2
    <2>3. StepAlike(h, S, N)
      BY <1>4, <2>2 DEF StepAlike
    <2>4. \A i \in 0 .. N : h[i] = S[i]
      BY <2>3, Determined
    <2>5. ASSUME NEW i \in 1 .. N + 1 PROVE f[i] = S[i - 1]
      <3>1. i - 1 \in 0 .. N /\ (i - 1) + 1 = i
        OBVIOUS
      <3>2. QED
        BY <2>1, <2>4, <3>1
    <2>6. QED
      BY <2>5
  <1>10. \A i \in 1 .. N + 1 : f[i] \in Nat
    BY <1>4, <1>9
  <1>11. QED
    BY <1>1, <1>2, <1>5, <1>8, <1>10

\* The totals do not decrease.
LEMMA TotalsOrdered ==
  ASSUME NEW freq \in Seq(Nat), NEW i \in 1 .. Len(freq) + 1, NEW j \in i .. Len(freq) + 1
  PROVE  RunningTotal(freq)[i] <= RunningTotal(freq)[j]
  <1>0. PICK S, fr : S = RunningTotal(freq) /\ fr = freq
    OBVIOUS
  <1>1. PICK N \in Nat : S = RunningTotal(freq) /\ fr = freq /\ N = Len(freq)
    BY <1>0
  <1>2. /\ \A k \in 1 .. N + 1 : S[k] \in Nat
        /\ \A k \in 1 .. N : S[k + 1] = S[k] + fr[k] /\ fr[k] \in Nat
    BY <1>1, TotalsGrow
  <1> DEFINE T == { k \in Nat : i + k \in 1 .. N + 1 => S[i] <= S[i + k] }
  <1>3. 0 \in T
    BY <1>1, <1>2
  <1>4. \A k \in Nat : k \in T => k + 1 \in T
    <2> SUFFICES ASSUME NEW k \in Nat, k \in T, i + (k + 1) \in 1 .. N + 1
                 PROVE  S[i] <= S[i + (k + 1)]
      OBVIOUS
    <2>1. i + k \in 1 .. N /\ i + (k + 1) = (i + k) + 1
      BY <1>1
    <2>2. S[i] <= S[i + k] /\ S[(i + k) + 1] = S[i + k] + fr[i + k] /\ fr[i + k] \in Nat
      BY <1>2, <2>1
    <2>3. S[i] \in Nat /\ S[i + k] \in Nat
      BY <1>1, <1>2, <2>1
    <2>4. QED
      BY <2>1, <2>2, <2>3
  <1> HIDE DEF T
  <1>5. Nat \subseteq T
    BY <1>3, <1>4, Induction
  <1>6. j - i \in T /\ i + (j - i) = j
    BY <1>5
  <1>7. QED
    BY <1>1, <1>6 DEF T

\* The bounds of the intervals, the starts of a table, and the last start that
\* is not above a value.
Ascend(S, N) ==
  /\ \A i \in 1 .. N + 1 : S[i] \in Nat
  /\ \A i \in 1 .. N + 1 : \A j \in i .. N + 1 : S[i] <= S[j]

StartsAt(cum, S, N) == \A i \in 1 .. N : cum[i] = S[i]

IsPoint(cum, v, N, n) ==
  /\ \A i \in 1 .. n : cum[i] <= v
  /\ \A i \in n + 1 .. N : cum[i] > v

\* A value in one of the intervals: only that interval's start counts as the
\* last one not above it.
LEMMA OnePoint ==
  ASSUME NEW N \in Nat, NEW S, NEW cum,
         Ascend(S, N), StartsAt(cum, S, N),
         NEW k \in 1 .. N, NEW v \in Nat, S[k] <= v, v < S[k + 1],
         NEW n \in 0 .. N
  PROVE  IsPoint(cum, v, N, n) <=> n = k
  <1>1. ASSUME NEW i \in 1 .. N, i <= k PROVE cum[i] <= v
    <2>1. S[i] <= S[k] /\ S[i] \in Nat /\ S[k] \in Nat /\ cum[i] = S[i]
      BY <1>1 DEF Ascend, StartsAt
    <2>2. QED
      BY <2>1
  <1>2. ASSUME NEW i \in 1 .. N, i > k PROVE cum[i] > v
    <2>1. k + 1 \in 1 .. N + 1 /\ i \in k + 1 .. N + 1
      BY <1>2
    <2>2. S[k + 1] <= S[i] /\ S[i] \in Nat /\ S[k + 1] \in Nat /\ cum[i] = S[i]
      BY <1>2, <2>1 DEF Ascend, StartsAt
    <2>3. QED
      BY <2>2
  <1>3. \A i \in 1 .. N : cum[i] \in Nat
    BY DEF Ascend, StartsAt
  <1>4. CASE n < k
    <2>1. k \in n + 1 .. N
      BY <1>4
    <2>2. ~ (cum[k] > v)
      BY <1>1, <1>3
    <2>3. QED
      BY <1>4, <2>1, <2>2 DEF IsPoint
  <1>5. CASE n > k
    <2>1. k + 1 \in 1 .. n /\ k + 1 \in 1 .. N
      BY <1>5
    <2>2. ~ (cum[k + 1] <= v)
      BY <1>2, <1>3, <2>1
    <2>3. QED
      BY <1>5, <2>1, <2>2 DEF IsPoint
  <1>6. CASE n = k
    <2>1. \A i \in 1 .. n : i \in 1 .. N /\ i <= k
      BY <1>6
    <2>2. \A i \in n + 1 .. N : i \in 1 .. N /\ i > k
      BY <1>6
    <2>3. QED
      BY <1>1, <1>2, <1>6, <2>1, <2>2 DEF IsPoint
  <1>7. QED
    BY <1>4, <1>5, <1>6

-----------------------------------------------------------------------------
(***************************************************************************)
(* The start of a window of c tokens that moves on by d when it is full,   *)
(* step by step, as the code slides it, and by position.                   *)
(***************************************************************************)
Slid(c, d, pos, start) == IF pos - start >= c THEN pos - (c - d) ELSE start
StartOf(c, d, pos) == IF pos < c THEN 0 ELSE ((pos - c) \div d + 1) * d

\* The closed form of a full window, without the division.
LEMMA StartOfFull ==
  ASSUME NEW c \in Nat, NEW d \in Nat, d > 0, NEW n \in Nat, n >= c,
         NEW q \in Nat, NEW r \in 0 .. d - 1, n = c + d * q + r
  PROVE  d * q \in Nat /\ StartOf(c, d, n) = d * q + d
  <1>1. d * q \in Nat /\ (q + 1) * d = d * q + d
    OBVIOUS
  <1>2. n - c \in Nat /\ n - c = d * q + r
    BY <1>1
  <1>3. (n - c) \div d = q
    BY <1>2, DivModUnique
  <1>4. QED
    BY <1>1, <1>3 DEF StartOf

LEMMA FullPosition ==
  ASSUME NEW c \in Nat, NEW d \in Nat, d > 0, NEW n \in Nat, n >= c
  PROVE  \E q \in Nat, r \in 0 .. d - 1 : n = c + d * q + r
  <1>1. n - c \in Nat
    OBVIOUS
  <1>2. /\ (n - c) \div d \in Nat
        /\ (n - c) % d \in 0 .. d - 1
        /\ n - c = d * ((n - c) \div d) + ((n - c) % d)
    BY <1>1, DivMod
  <1>3. n = c + d * ((n - c) \div d) + ((n - c) % d)
    BY <1>2
  <1>4. QED
    BY <1>2, <1>3

(***************************************************************************)
(* The closed form is what the steps reach: it leaves room for one more    *)
(* token, it is stable at a position, and it is carried to the next.       *)
(***************************************************************************)
LEMMA WindowHasRoom ==
  ASSUME NEW c \in Nat, NEW d \in 1 .. c, NEW n \in Nat
  PROVE  StartOf(c, d, n) \in 0 .. n /\ n - StartOf(c, d, n) < c
  <1>0. d \in Nat /\ d > 0
    OBVIOUS
  <1>1. CASE n < c
    BY <1>1 DEF StartOf
  <1>2. CASE n >= c
    <2>1. PICK q \in Nat, r \in 0 .. d - 1 : n = c + d * q + r
      BY ONLY <1>0, <1>2, c \in Nat, n \in Nat, FullPosition
    <2>2. d * q \in Nat /\ StartOf(c, d, n) = d * q + d
      BY <1>0, <1>2, <2>1, StartOfFull
    <2>3. PICK p \in Nat : p = d * q
      BY <2>2
    <2>4. n = c + p + r /\ StartOf(c, d, n) = p + d
      BY <2>1, <2>2, <2>3
    <2>5. p + d \in 0 .. c + p + r /\ (c + p + r) - (p + d) < c
      BY ONLY d \in 1 .. c, c \in Nat, p \in Nat, r \in 0 .. d - 1
    <2>6. QED
      BY ONLY <2>4, <2>5
  <1>3. QED
    BY <1>1, <1>2

LEMMA WindowIsStable ==
  ASSUME NEW c \in Nat, NEW d \in 1 .. c, NEW n \in Nat
  PROVE  Slid(c, d, n, StartOf(c, d, n)) = StartOf(c, d, n)
  BY WindowHasRoom DEF Slid

LEMMA WindowSlides ==
  ASSUME NEW c \in Nat, NEW d \in 1 .. c, NEW n \in Nat
  PROVE  Slid(c, d, n + 1, StartOf(c, d, n)) = StartOf(c, d, n + 1)
  <1>0. d \in Nat /\ d > 0
    OBVIOUS
  <1>1. CASE n + 1 < c
    BY <1>1 DEF StartOf, Slid
  <1>2. CASE n + 1 = c
    <2>1. StartOf(c, d, n) = 0
      BY <1>2 DEF StartOf
    <2>2. d * 0 = 0 /\ n + 1 = c + d * 0 + 0
      BY <1>2
    <2>3. StartOf(c, d, n + 1) = d * 0 + d
      BY <2>2, StartOfFull
    <2>4. QED
      BY <1>2, <2>1, <2>2, <2>3 DEF Slid
  <1>3. CASE n >= c
    <2>1. PICK q \in Nat, r \in 0 .. d - 1 : n = c + d * q + r
      BY ONLY <1>0, <1>3, c \in Nat, n \in Nat, FullPosition
    <2>2. d * q \in Nat /\ StartOf(c, d, n) = d * q + d
      BY <1>0, <1>3, <2>1, StartOfFull
    <2> DEFINE m == n + 1
               k == r + 1
               p == q + 1
    <2>3. m \in Nat /\ m >= c /\ k \in Nat /\ p \in Nat /\ d * p = d * q + d
      BY <1>3
    <2>4. CASE k < d
      <3>1. k \in 0 .. d - 1 /\ m = c + d * q + k
        BY <2>1, <2>2, <2>4
      <3>2. m - StartOf(c, d, n) < c
        BY <2>1, <2>2, <2>4
      <3> HIDE DEF m, k
      <3>3. StartOf(c, d, m) = d * q + d
        BY <1>0, <2>3, <3>1, StartOfFull
      <3>4. Slid(c, d, m, StartOf(c, d, n)) = StartOf(c, d, m)
        BY <2>2, <2>3, <3>2, <3>3, ~(m - StartOf(c, d, n) >= c) DEF Slid
      <3>5. QED
        BY <3>4 DEF m
    <2>5. CASE k = d
      <3>1. 0 \in 0 .. d - 1 /\ m = c + d * p + 0
        BY <2>1, <2>2, <2>3, <2>5
      <3>2. m - StartOf(c, d, n) = c
        BY <2>1, <2>2, <2>5
      <3> HIDE DEF m, p
      <3>3. StartOf(c, d, m) = d * p + d
        BY <1>0, <2>3, <3>1, StartOfFull
      <3>4. m - (c - d) = d * p + d
        BY <2>2, <2>3, <3>1
      <3>5. Slid(c, d, m, StartOf(c, d, n)) = StartOf(c, d, m)
        BY <3>2, <3>3, <3>4 DEF Slid
      <3>6. QED
        BY <3>5 DEF m
    <2>6. QED
      BY <2>1, <2>4, <2>5
  <1>4. QED
    BY <1>1, <1>2, <1>3
=============================================================================
