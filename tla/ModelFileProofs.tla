-------------------------- MODULE ModelFileProofs ---------------------------
(***************************************************************************)
(* What is proved of what is read from a model's file: its digest does not *)
(* depend on how it was cut into calls of update; the data of its tensors  *)
(* is there and apart; the three pieces of code that take a model from it  *)
(* agree; and the tokenizer made of its merges makes those of a rank scan. *)
(***************************************************************************)
EXTENDS Sha256Stream, GgufReader, ModelLoad, BpeMerge, NumberLemmas, SequenceTheorems

(***************************************************************************)
(* A digest is that of the padded message, for every size of block and     *)
(* every message.                                                          *)
(*                                                                         *)
(* The invariant: the blocks compressed so far, followed by the first      *)
(* bufLen bytes of the buffer, are the message, and the former are whole   *)
(* blocks.  An update moves bytes from the more to either of them;        *)
(* finalize appends the padding, in one block or in two.                   *)
(***************************************************************************)
Buffers == [1 .. Block -> Nat]
Zeros(n) == [i \in 1 .. n |-> 0]

ShaInv ==
  /\ compressed \in Seq(Nat) /\ message \in Seq(Nat)
  /\ buf \in Buffers /\ bufLen \in 0 .. Block - 1
  /\ len = Len(message) % Word
  /\ done \in BOOLEAN
  /\ ~done => /\ message = compressed \o SubSeq(buf, 1, bufLen)
              /\ \E q \in Nat : Len(compressed) = Block * q
  /\ done => compressed = Padded(message)

-----------------------------------------------------------------------------
LEMMA Sizes == /\ Block \in Nat /\ Block > 0 /\ Word \in Nat /\ Word > 0
               /\ LenAt \in 1 .. Block - 1 /\ LenBytes \in Nat /\ LenAt + LenBytes = Block /\ Pad \in Nat
BY StreamAssumption DEF LenAt

LEMMA FunctionIsSeq ==
  ASSUME NEW n \in Nat, NEW f \in [1 .. n -> Nat]
  PROVE  f \in Seq(Nat) /\ Len(f) = n
<1>1. f = [i \in 1 .. n |-> f[i]]
  OBVIOUS
<1>2. QED
  BY <1>1

LEMMA Joined ==
  ASSUME NEW s \in Seq(Nat), NEW t \in Seq(Nat)
  PROVE  /\ s \o t \in Seq(Nat) /\ Len(s \o t) = Len(s) + Len(t)
         /\ \A i \in 1 .. Len(s) : (s \o t)[i] = s[i]
         /\ \A i \in 1 .. Len(t) : (s \o t)[Len(s) + i] = t[i]
<1>1. Len(s) \in Nat /\ Len(t) \in Nat
  OBVIOUS
<1>2. /\ s \o t \in Seq(Nat) /\ Len(s \o t) = Len(s) + Len(t)
      /\ \A i \in 1 .. Len(s) + Len(t) : (s \o t)[i] = IF i <= Len(s) THEN s[i] ELSE t[i - Len(s)]
  BY ConcatProperties
<1>3. ASSUME NEW i \in 1 .. Len(t) PROVE (s \o t)[Len(s) + i] = t[i]
  <2>1. Len(s) + i \in 1 .. Len(s) + Len(t) /\ ~(Len(s) + i <= Len(s)) /\ (Len(s) + i) - Len(s) = i
    BY <1>1
  <2>2. QED
    BY <1>2, <2>1
<1>4. QED
  BY <1>1, <1>2, <1>3

\* The part of a sequence after the first a, up to the b-th.
LEMMA SliceOfNats ==
  ASSUME NEW s \in Seq(Nat), NEW a \in Nat, NEW b \in Nat, a <= b, b <= Len(s)
  PROVE  /\ SubSeq(s, a + 1, b) \in Seq(Nat) /\ Len(SubSeq(s, a + 1, b)) = b - a
         /\ \A i \in 1 .. b - a : SubSeq(s, a + 1, b)[i] = s[a + i]
<1>1. \A i \in a + 1 .. b : s[i] \in Nat
  OBVIOUS
<1>2. a + 1 \in Int /\ b \in Int
  OBVIOUS
<1>3. /\ SubSeq(s, a + 1, b) \in Seq(Nat)
      /\ Len(SubSeq(s, a + 1, b)) = IF a + 1 <= b THEN b - (a + 1) + 1 ELSE 0
      /\ \A i \in 1 .. b - (a + 1) + 1 : SubSeq(s, a + 1, b)[i] = s[a + 1 + i - 1]
  BY <1>1, <1>2, SubSeqProperties
<1>4. b - (a + 1) + 1 = b - a
  OBVIOUS
<1>5. \A i \in 1 .. b - a : a + 1 + i - 1 = a + i
  OBVIOUS
<1>6. QED
  BY <1>3, <1>4, <1>5

\* A sequence is what stands before a place and what stands after it.
LEMMA CutApart ==
  ASSUME NEW s \in Seq(Nat), NEW a \in Nat, a <= Len(s)
  PROVE  /\ SubSeq(s, 1, a) \in Seq(Nat) /\ Len(SubSeq(s, 1, a)) = a
         /\ SubSeq(s, a + 1, Len(s)) \in Seq(Nat) /\ Len(SubSeq(s, a + 1, Len(s))) = Len(s) - a
         /\ SubSeq(s, 1, a) \o SubSeq(s, a + 1, Len(s)) = s
<1>1. Len(s) \in Nat
  OBVIOUS
<1>2. SubSeq(s, 0 + 1, a) \in Seq(Nat) /\ Len(SubSeq(s, 0 + 1, a)) = a - 0
  BY SliceOfNats
<1>3. 0 + 1 = 1 /\ a - 0 = a
  OBVIOUS
<1>4. SubSeq(s, a + 1, Len(s)) \in Seq(Nat) /\ Len(SubSeq(s, a + 1, Len(s))) = Len(s) - a
  BY <1>1, SliceOfNats
<1>5. 1 \in 1 .. Len(s) + 1 /\ a \in 1 - 1 .. Len(s) /\ Len(s) \in a .. Len(s)
  BY <1>1
<1>6. SubSeq(s, 1, a) \o SubSeq(s, a + 1, Len(s)) = SubSeq(s, 1, Len(s))
  BY <1>5, ConcatAdjacentSubSeq
<1>7. SubSeq(s, 1, Len(s)) = s
  BY SubSeqFull
<1>8. QED
  BY <1>2, <1>3, <1>4, <1>6, <1>7

LEMMA Associative ==
  ASSUME NEW s \in Seq(Nat), NEW t \in Seq(Nat), NEW u \in Seq(Nat)
  PROVE  (s \o t) \o u = s \o (t \o u)
BY ConcatAssociative, SMTT(60)

LEMMA WholeBlocks ==
  ASSUME NEW n \in Nat
  PROVE  \E k \in Nat : /\ (n \div Block) * Block = Block * k /\ Block * k \in Nat
                        /\ Block * k <= n /\ n < Block * k + Block
<1> DEFINE k == n \div Block
           r == n % Block
           b == Block * k
<1>1. k \in Nat /\ r \in 0 .. Block - 1 /\ n = b + r
  BY Sizes, DivMod
<1> HIDE DEF k, r
<1>2. b \in Nat /\ k * Block = b
  BY <1>1, Sizes, TimesMonotone
<1>3. k \in Nat
  BY <1>1
<1> HIDE DEF b
<1>4. b <= n /\ n < b + Block
  BY <1>1, <1>2, Sizes
<1>5. QED
  BY <1>2, <1>3, <1>4 DEF b, k

LEMMA PrefixOfJoined ==
  ASSUME NEW b \in Buffers, NEW n \in 0 .. Block
  PROVE  /\ b \in Seq(Nat) /\ Len(b) = Block
         /\ SubSeq(b, 1, n) \in Seq(Nat) /\ Len(SubSeq(b, 1, n)) = n
         /\ \A i \in 1 .. n : SubSeq(b, 1, n)[i] = b[i]
<1>1. b \in Seq(Nat) /\ Len(b) = Block
  BY Sizes, FunctionIsSeq DEF Buffers
<1>2. 0 + 1 = 1 /\ n - 0 = n /\ \A i \in 1 .. n : 0 + i = i
  BY Sizes
<1>3. /\ SubSeq(b, 0 + 1, n) \in Seq(Nat) /\ Len(SubSeq(b, 0 + 1, n)) = n - 0
      /\ \A i \in 1 .. n - 0 : SubSeq(b, 0 + 1, n)[i] = b[0 + i]
  BY <1>1, Sizes, SliceOfNats
<1>4. QED
  BY <1>1, <1>2, <1>3

LEMMA CopiedPrefix ==
  ASSUME NEW b \in Buffers, NEW at \in Nat, NEW s \in Seq(Nat), at + Len(s) <= Block
  PROVE  /\ Copied(b, at, s) \in Buffers
         /\ SubSeq(Copied(b, at, s), 1, at + Len(s)) = SubSeq(b, 1, at) \o s
<1> DEFINE c == Copied(b, at, s)
           m == at + Len(s)
<1>1. \A i \in 1 .. Block : (IF i - at \in 1 .. Len(s) THEN s[i - at] ELSE b[i]) \in Nat
  BY DEF Buffers
<1>2. c \in Buffers /\ \A i \in 1 .. Block : c[i] = IF i - at \in 1 .. Len(s) THEN s[i - at] ELSE b[i]
  BY <1>1 DEF Copied, Buffers
<1>3. Len(s) \in Nat /\ m \in 0 .. Block /\ at \in 0 .. Block
  BY Sizes
<1> HIDE DEF c
<1>4. /\ SubSeq(c, 1, m) \in Seq(Nat) /\ Len(SubSeq(c, 1, m)) = m
      /\ \A i \in 1 .. m : SubSeq(c, 1, m)[i] = c[i]
  BY <1>2, <1>3, PrefixOfJoined
<1>5. /\ SubSeq(b, 1, at) \in Seq(Nat) /\ Len(SubSeq(b, 1, at)) = at
      /\ \A i \in 1 .. at : SubSeq(b, 1, at)[i] = b[i]
  BY <1>3, PrefixOfJoined
<1> DEFINE p == SubSeq(b, 1, at)
           j == p \o s
<1> HIDE DEF p
<1>6. /\ j \in Seq(Nat) /\ Len(j) = m
      /\ \A i \in 1 .. m : j[i] = IF i <= at THEN p[i] ELSE s[i - at]
  BY <1>5, ConcatProperties DEF p
<1> HIDE DEF j
<1>7. ASSUME NEW i \in 1 .. m PROVE SubSeq(c, 1, m)[i] = j[i]
  <2>1. i \in 1 .. Block /\ SubSeq(c, 1, m)[i] = IF i - at \in 1 .. Len(s) THEN s[i - at] ELSE b[i]
    BY <1>2, <1>3, <1>4, Sizes
  <2>2. i <= at <=> ~(i - at \in 1 .. Len(s))
    BY <1>3
  <2>3. i <= at => i \in 1 .. at
    BY <1>3
  <2>4. QED
    BY <2>1, <2>2, <2>3, <1>5, <1>6 DEF p
<1>8. SubSeq(c, 1, m) = j
  BY <1>4, <1>6, <1>7, SeqEqual
<1>9. QED
  BY <1>2, <1>8 DEF c, j, p

LEMMA CopiedNothing ==
  ASSUME NEW b \in Buffers
  PROVE  Copied(b, 0, <<>>) = b
<1>1. \A i \in 1 .. Block : ~(i - 0 \in 1 .. Len(<<>>))
  BY Sizes
<1>2. QED
  BY <1>1 DEF Copied, Buffers

LEMMA ZerosAreSeq ==
  ASSUME NEW n \in Nat
  PROVE  Zeros(n) \in Seq(Nat) /\ Len(Zeros(n)) = n /\ \A i \in 1 .. n : Zeros(n)[i] = 0
<1>1. Zeros(n) \in [1 .. n -> Nat]
  BY DEF Zeros
<1>2. QED
  BY <1>1, FunctionIsSeq DEF Zeros

LEMMA ZerosJoined ==
  ASSUME NEW a \in Nat, NEW b \in Nat
  PROVE  Zeros(a) \o Zeros(b) = Zeros(a + b)
<1> DEFINE s == Zeros(a)
           t == Zeros(b)
           u == Zeros(a + b)
           j == s \o t
<1>1. s \in Seq(Nat) /\ Len(s) = a /\ \A i \in 1 .. a : s[i] = 0
  BY ZerosAreSeq
<1>2. t \in Seq(Nat) /\ Len(t) = b /\ \A i \in 1 .. b : t[i] = 0
  BY ZerosAreSeq
<1>3. u \in Seq(Nat) /\ Len(u) = a + b /\ \A i \in 1 .. a + b : u[i] = 0
  BY ZerosAreSeq
<1> HIDE DEF s, t, u
<1>4. /\ j \in Seq(Nat) /\ Len(j) = a + b
      /\ \A i \in 1 .. a + b : j[i] = IF i <= a THEN s[i] ELSE t[i - a]
  <2>1. PICK c, d, m : c = s /\ d = t /\ m = c \o d
    OBVIOUS
  <2>2. /\ m \in Seq(Nat) /\ Len(m) = Len(c) + Len(d)
        /\ \A i \in 1 .. Len(c) + Len(d) : m[i] = IF i <= Len(c) THEN c[i] ELSE d[i - Len(c)]
    BY ONLY <1>1, <1>2, <2>1, ConcatProperties
  <2>3. Len(c) = a /\ Len(d) = b /\ m = j
    BY ONLY <1>1, <1>2, <2>1
  <2>4. QED
    BY ONLY <2>1, <2>2, <2>3
<1> HIDE DEF j
<1>5. \A i \in 1 .. a + b : j[i] = u[i]
  BY <1>1, <1>2, <1>3, <1>4
<1>6. j = u
  BY <1>3, <1>4, <1>5, SeqEqual
<1>7. QED
  BY <1>6 DEF j, s, t, u

LEMMA ZeroedPrefix ==
  ASSUME NEW b \in Buffers, NEW n \in 0 .. Block, NEW m \in 0 .. Block, n <= m
  PROVE  /\ Zeroed(b, n, m) \in Buffers
         /\ SubSeq(Zeroed(b, n, m), 1, m) = SubSeq(b, 1, n) \o Zeros(m - n)
<1> DEFINE c == Zeroed(b, n, m)
           p == SubSeq(b, 1, n)
           z == Zeros(m - n)
           j == p \o z
<1>1. c \in Buffers /\ \A i \in 1 .. Block : c[i] = IF i \in n + 1 .. m THEN 0 ELSE b[i]
  BY DEF Zeroed, Buffers
<1>2. m - n \in Nat
  BY Sizes
<1> HIDE DEF c
<1>3. /\ SubSeq(c, 1, m) \in Seq(Nat) /\ Len(SubSeq(c, 1, m)) = m
      /\ \A i \in 1 .. m : SubSeq(c, 1, m)[i] = c[i]
  BY <1>1, PrefixOfJoined
<1>4. p \in Seq(Nat) /\ Len(p) = n /\ \A i \in 1 .. n : p[i] = b[i]
  BY PrefixOfJoined
<1>5. z \in Seq(Nat) /\ Len(z) = m - n /\ \A i \in 1 .. m - n : z[i] = 0
  BY <1>2, ZerosAreSeq
<1> HIDE DEF p, z
<1>6. /\ j \in Seq(Nat) /\ Len(j) = n + (m - n)
      /\ \A i \in 1 .. n + (m - n) : j[i] = IF i <= n THEN p[i] ELSE z[i - n]
  <2>1. /\ j \in Seq(Nat) /\ Len(j) = Len(p) + Len(z)
        /\ \A i \in 1 .. Len(p) + Len(z) : j[i] = IF i <= Len(p) THEN p[i] ELSE z[i - Len(p)]
    BY <1>4, <1>5, ConcatProperties
  <2>2. QED
    BY <2>1, <1>4, <1>5
<1> HIDE DEF j
<1>7. n + (m - n) = m
  BY Sizes
<1>8. \A i \in 1 .. m : SubSeq(c, 1, m)[i] = j[i]
  <2> SUFFICES ASSUME NEW i \in 1 .. m PROVE SubSeq(c, 1, m)[i] = j[i]
    OBVIOUS
  <2>1. i \in 1 .. Block /\ SubSeq(c, 1, m)[i] = IF i \in n + 1 .. m THEN 0 ELSE b[i]
    BY <1>1, <1>3, Sizes
  <2>2. j[i] = IF i <= n THEN p[i] ELSE z[i - n]
    BY <1>6, <1>7
  <2>3. CASE i <= n
    <3>1. i \in 1 .. n /\ ~(i \in n + 1 .. m)
      BY <2>3
    <3>2. QED
      BY <2>1, <2>2, <2>3, <3>1, <1>4
  <2>4. CASE i > n
    <3>1. i - n \in 1 .. m - n /\ i \in n + 1 .. m /\ ~(i <= n)
      BY <2>4
    <3>2. QED
      BY <2>1, <2>2, <3>1, <1>5
  <2>5. QED
    BY <2>3, <2>4
<1>9. SubSeq(c, 1, m) = j
  BY <1>3, <1>6, <1>7, <1>8, SeqEqual
<1>10. QED
  BY <1>1, <1>9 DEF c, j, p, z

-----------------------------------------------------------------------------
\* Reducing a length first changes nothing.
LEMMA LengthReduced ==
  ASSUME NEW n \in Nat
  PROVE  Length(n % Word) = Length(n)
<1> DEFINE q == n \div Word
           r == n % Word
           p == (8 * r) \div Word
           t == (8 * r) % Word
<1>1. q \in Nat /\ r \in 0 .. Word - 1 /\ n = Word * q + r
  BY Sizes, DivMod
<1>2. p \in Nat /\ t \in 0 .. Word - 1 /\ 8 * r = Word * p + t
  BY <1>1, Sizes, DivMod
<1> HIDE DEF q, r, p, t
<1> DEFINE a == 8 * n
<1>3. a = Word * (8 * q + p) + t /\ 8 * q + p \in Int /\ a \in Nat
  BY <1>1, <1>2, Sizes
<1> HIDE DEF a
<1>4. a % Word = t
  BY <1>2, <1>3, Sizes, DivModUnique
<1>5. QED
  BY <1>4 DEF Length, r, t, a

LEMMA LengthAdded ==
  ASSUME NEW a \in Nat, NEW b \in Nat
  PROVE  ((a % Word) + b) % Word = (a + b) % Word
<1> DEFINE q == a \div Word
           r == a % Word
           p == (r + b) \div Word
           t == (r + b) % Word
<1>1. q \in Nat /\ r \in 0 .. Word - 1 /\ a = Word * q + r
  BY Sizes, DivMod
<1>2. p \in Nat /\ t \in 0 .. Word - 1 /\ r + b = Word * p + t
  BY <1>1, Sizes, DivMod
<1> HIDE DEF q, r, p, t
<1>3. a + b = Word * (q + p) + t /\ q + p \in Int /\ a + b \in Nat
  BY <1>1, <1>2, Sizes
<1>4. (a + b) % Word = t
  BY <1>2, <1>3, Sizes, DivModUnique, SMTT(30)
<1>5. QED
  BY <1>4 DEF r, t

LEMMA LengthIsSeq ==
  ASSUME NEW n \in Nat
  PROVE  Length(n) \in Seq(Nat) /\ Len(Length(n)) = LenBytes
<1>1. (8 * n) % Word \in 0 .. Word - 1
  BY Sizes, DivMod
<1>2. Length(n) \in [1 .. LenBytes -> Nat]
  BY <1>1, StreamAssumption DEF Length
<1>3. QED
  BY <1>2, Sizes, FunctionIsSeq

-----------------------------------------------------------------------------
LEMMA ShaInitHolds == ShaInit => ShaInv
<1> SUFFICES ASSUME ShaInit PROVE ShaInv
  OBVIOUS
<1>1. compressed = <<>> /\ message = <<>> /\ len = 0 /\ bufLen = 0 /\ done = FALSE
  BY DEF ShaInit
<1>2. buf \in Buffers
  BY DEF ShaInit, Buffers
<1>3. 0 % Word = 0
  BY Sizes, DivModUnique
<1>4. Len(compressed) = Block * 0 /\ Len(message) = 0 /\ <<>> \in Seq(Nat)
  BY <1>1, Sizes
<1>5. SubSeq(buf, 1, bufLen) = <<>>
  BY <1>1, SubSeqEmpty
<1>6. message = compressed \o SubSeq(buf, 1, bufLen)
  BY <1>1, <1>4, <1>5, ConcatEmptySeq
<1>7. \E q \in Nat : Len(compressed) = Block * q
  BY <1>4
<1>8. bufLen \in 0 .. Block - 1 /\ len = Len(message) % Word
  BY <1>1, <1>3, <1>4, Sizes
<1>9. QED
  BY <1>1, <1>2, <1>4, <1>6, <1>7, <1>8 DEF ShaInv

\* What update does with its more: it goes to the block that was begun, to
\* whole blocks, and to the buffer.
LEMMA UpdateHolds ==
  ASSUME ShaInv, NEW more \in Updates, Update(more)
  PROVE  ShaInv'
<1> DEFINE n == TopUp(more)
           start == SubSeq(more, 1, n)
           top == Copied(buf, bufLen, start)
           full == bufLen + n = Block
           rest == SubSeq(more, n + 1, Len(more))
           w == Whole(rest)
           whole == SubSeq(rest, 1, w)
           tail == SubSeq(rest, w + 1, Len(rest))
           held == SubSeq(buf, 1, bufLen)
           c1 == IF full THEN top ELSE <<>>
<1>1. /\ compressed \in Seq(Nat) /\ message \in Seq(Nat) /\ buf \in Buffers
      /\ bufLen \in 0 .. Block - 1 /\ len = Len(message) % Word /\ ~done
      /\ message = compressed \o held
  BY DEF ShaInv, Update
<1>2. PICK q \in Nat : Len(compressed) = Block * q
  BY DEF ShaInv, Update
<1>3. /\ compressed' = compressed \o c1 \o whole
      /\ buf' = Copied(top, 0, tail)
      /\ bufLen' = IF tail # <<>> THEN Len(tail) ELSE IF full THEN 0 ELSE bufLen + n
      /\ len' = (len + Len(more)) % Word
      /\ message' = message \o more
      /\ done' = done
  BY Zenon DEF Update
<1>4. more \in Seq(Nat) /\ Len(more) \in Nat
  <2>1. more \in Seq(Nat)
    BY StreamAssumption
  <2>2. QED
    BY <2>1
<1>5. /\ n \in Nat /\ n <= Len(more) /\ bufLen + n <= Block
      /\ bufLen = 0 => n = 0
      /\ bufLen # 0 /\ ~full => n = Len(more)
  BY <1>1, <1>4, Sizes DEF TopUp
<1> HIDE DEF n
<1>6. /\ start \in Seq(Nat) /\ Len(start) = n
      /\ rest \in Seq(Nat) /\ Len(rest) = Len(more) - n
      /\ start \o rest = more
  BY <1>4, <1>5, CutApart
<1> HIDE DEF start, rest
<1>7. \E k \in Nat : w = Block * k /\ w \in Nat /\ w <= Len(rest) /\ Len(rest) < w + Block
  <2>1. Len(rest) \in Nat
    BY <1>6
  <2>2. QED
    BY <2>1, WholeBlocks DEF Whole
<1>8. PICK k \in Nat : w = Block * k /\ w \in Nat /\ w <= Len(rest) /\ Len(rest) < w + Block
  BY <1>7
<1>9. w \in Nat /\ w <= Len(rest) /\ Len(rest) < w + Block /\ Len(rest) \in Nat
  BY <1>6, <1>8
<1> HIDE DEF w
<1>10. /\ whole \in Seq(Nat) /\ Len(whole) = w
       /\ tail \in Seq(Nat) /\ Len(tail) = Len(rest) - w
       /\ whole \o tail = rest
  BY <1>6, <1>9, CutApart
<1> HIDE DEF whole, tail
<1>11. top \in Buffers /\ SubSeq(top, 1, bufLen + n) = held \o start
  <2>1. bufLen \in Nat /\ bufLen + Len(start) <= Block /\ bufLen + Len(start) = bufLen + n
    BY <1>1, <1>5, <1>6, Sizes
  <2>2. QED
    BY <2>1, <1>1, <1>6, CopiedPrefix
<1> HIDE DEF top
<1>12. top \in Seq(Nat) /\ Len(top) = Block /\ held \in Seq(Nat) /\ <<>> \in Seq(Nat) /\ Len(<<>>) = 0
  <2>1. bufLen \in 0 .. Block /\ 0 \in 0 .. Block
    BY <1>1, Sizes
  <2>2. top \in Seq(Nat) /\ Len(top) = Block
    BY <2>1, <1>11, PrefixOfJoined
  <2>3. held \in Seq(Nat)
    BY <2>1, <1>1, PrefixOfJoined
  <2>4. QED
    BY <2>2, <2>3
<1> HIDE DEF held
<1>13. message' \in Seq(Nat) /\ Len(message') = Len(message) + Len(more) /\ len' = Len(message') % Word
  <2>1. message' \in Seq(Nat) /\ Len(message') = Len(message) + Len(more)
    BY <1>1, <1>3, <1>4, Joined
  <2>2. Len(message) \in Nat
    BY <1>1
  <2>3. QED
    BY <2>1, <2>2, <1>1, <1>3, <1>4, LengthAdded
<1>14. message' = compressed \o ((held \o start) \o (whole \o tail))
  <2>1. message' = (compressed \o held) \o (start \o rest)
    BY <1>1, <1>3, <1>6
  <2>2. start \o rest \in Seq(Nat)
    BY <1>4, <1>6
  <2>3. (compressed \o held) \o (start \o rest) = compressed \o (held \o (start \o rest))
    BY <2>2, <1>1, <1>12, Associative, ZenonT(60)
  <2>4. held \o (start \o rest) = (held \o start) \o rest
    BY <1>6, <1>12, Associative, ZenonT(60)
  <2>5. QED
    BY <2>1, <2>3, <2>4, <1>10
<1>15. buf' \in Buffers /\ (tail = <<>> => buf' = top)
       /\ (tail # <<>> => SubSeq(buf', 1, Len(tail)) = tail)
  <2>1. 0 + Len(tail) = Len(tail) /\ Len(tail) \in Nat /\ Len(tail) <= Block
    BY <1>9, <1>10, Sizes
  <2>2. /\ Copied(top, 0, tail) \in Buffers
        /\ SubSeq(Copied(top, 0, tail), 1, 0 + Len(tail)) = SubSeq(top, 1, 0) \o tail
    BY <2>1, <1>10, <1>11, CopiedPrefix
  <2>3. SubSeq(top, 1, 0) = <<>>
    BY SubSeqEmpty
  <2>4. <<>> \o tail = tail
    BY <1>10, ConcatEmptySeq
  <2>5. tail = <<>> => buf' = top
    BY <1>3, <1>11, CopiedNothing
  <2>6. QED
    BY <2>1, <2>2, <2>3, <2>4, <2>5, <1>3
<1>16. tail = <<>> <=> Len(tail) = 0
  BY <1>10
<1>20. SubSeq(buf', 1, Len(tail)) = tail
  <2>1. ASSUME tail = <<>> PROVE SubSeq(buf', 1, Len(tail)) = tail
    <3>1. Len(tail) = 0 /\ SubSeq(buf', 1, 0) = <<>>
      BY <2>1, <1>16, SubSeqEmpty
    <3>2. QED
      BY <2>1, <3>1
  <2>2. QED
    BY <2>1, <1>15
<1>17. c1 \in Seq(Nat) /\ Len(c1) = IF full THEN Block ELSE 0
  BY <1>12
<1>18. compressed' \in Seq(Nat) /\ \E r \in Nat : Len(compressed') = Block * r
  <2>1. compressed \o c1 \in Seq(Nat) /\ Len(compressed \o c1) = Len(compressed) + Len(c1)
    BY <1>1, <1>17, Joined
  <2>2. compressed' \in Seq(Nat) /\ Len(compressed') = Len(compressed) + Len(c1) + w
    BY <2>1, <1>3, <1>10, Joined, ZenonT(60)
  <2>3. Len(c1) = Block * (IF full THEN 1 ELSE 0)
    BY <1>17, Sizes
  <2> DEFINE f == IF full THEN 1 ELSE 0
  <2>4. f \in Nat /\ Len(c1) = Block * f
    BY <2>3
  <2> HIDE DEF f
  <2>5. Len(compressed') = Block * q + Block * f + Block * k
    BY <2>2, <2>4, <1>2, <1>8
  <2>6. Block * q + Block * f + Block * k = Block * (q + f + k) /\ q + f + k \in Nat
    BY <2>4, Sizes
  <2>7. QED
    BY <2>2, <2>5, <2>6
<1>19. bufLen' \in 0 .. Block - 1 /\ message' = compressed' \o SubSeq(buf', 1, bufLen')
  <2>1. ASSUME full
        PROVE  bufLen' \in 0 .. Block - 1 /\ message' = compressed' \o SubSeq(buf', 1, bufLen')
    <3>1. bufLen' = Len(tail) /\ bufLen' \in 0 .. Block - 1
      BY <2>1, <1>3, <1>9, <1>10, <1>16, Sizes
    <3>2. held \o start = top
      BY <2>1, <1>11, <1>12, SubSeqFull
    <3>3. SubSeq(buf', 1, bufLen') = tail
      BY <3>1, <1>20
    <3>4. compressed \o (top \o (whole \o tail)) = (compressed \o top) \o (whole \o tail)
      <4>1. whole \o tail \in Seq(Nat)
        BY <1>10, Joined
      <4>2. QED
        BY <4>1, <1>1, <1>12, Associative, ZenonT(60)
    <3>5. (compressed \o top) \o (whole \o tail) = ((compressed \o top) \o whole) \o tail
      <4>1. compressed \o top \in Seq(Nat)
        BY <1>1, <1>12, Joined
      <4>2. QED
        BY <4>1, <1>10, Associative
    <3>6. compressed' = (compressed \o top) \o whole
      BY <2>1, <1>3
    <3>7. QED
      BY <3>1, <3>2, <3>3, <3>4, <3>5, <3>6, <1>14
  <2>2. ASSUME ~full, bufLen = 0
        PROVE  bufLen' \in 0 .. Block - 1 /\ message' = compressed' \o SubSeq(buf', 1, bufLen')
    <3>1. n = 0 /\ bufLen' = Len(tail) /\ bufLen' \in 0 .. Block - 1
      BY <2>2, <1>3, <1>5, <1>9, <1>10, <1>16, Sizes
    <3>2. held \o start = <<>>
      BY <3>1, <2>2, <1>11, SubSeqEmpty
    <3>3. SubSeq(buf', 1, bufLen') = tail
      BY <3>1, <1>20
    <3>4. compressed' = compressed \o whole
      BY <2>2, <1>1, <1>3, ConcatEmptySeq
    <3>5. message' = compressed \o (whole \o tail)
      <4>1. whole \o tail \in Seq(Nat)
        BY <1>6, <1>10
      <4>2. <<>> \o (whole \o tail) = whole \o tail
        BY <4>1, ConcatEmptySeq
      <4>3. QED
        BY <4>2, <3>2, <1>14
    <3>6. compressed \o (whole \o tail) = (compressed \o whole) \o tail
      BY <1>1, <1>10, Associative
    <3>7. QED
      BY <3>1, <3>3, <3>4, <3>5, <3>6
  <2>3. ASSUME ~full, bufLen # 0
        PROVE  bufLen' \in 0 .. Block - 1 /\ message' = compressed' \o SubSeq(buf', 1, bufLen')
    <3>1. Len(rest) = 0 /\ w = 0 /\ Len(tail) = 0 /\ Len(whole) = 0
      BY <2>3, <1>4, <1>5, <1>6, <1>9, <1>10
    <3>2. whole = <<>> /\ tail = <<>>
      BY <3>1, <1>10
    <3>3. bufLen' = bufLen + n /\ bufLen' \in 0 .. Block - 1
      BY <3>2, <2>3, <1>1, <1>3, <1>5, Sizes
    <3>4. SubSeq(buf', 1, bufLen') = held \o start
      BY <3>2, <3>3, <1>11, <1>15
    <3>5. compressed' = compressed
      BY <3>2, <2>3, <1>1, <1>3, ConcatEmptySeq
    <3>6. held \o start \in Seq(Nat)
      BY <1>6, <1>12, Joined
    <3>7. (held \o start) \o (whole \o tail) = held \o start
      BY <3>2, <3>6, <1>12, ConcatEmptySeq
    <3>8. QED
      BY <3>3, <3>4, <3>5, <3>7, <1>14
  <2>4. QED
    BY <2>1, <2>2, <2>3
<1>21. QED
  BY <1>1, <1>3, <1>13, <1>15, <1>18, <1>19 DEF ShaInv

LEMMA DivModInt ==
  ASSUME NEW a \in Int, NEW b \in Nat, b > 0
  PROVE  a \div b \in Int /\ a % b \in 0 .. b - 1 /\ a = b * (a \div b) + (a % b)
OBVIOUS

\* Division by a positive number is unique.
LEMMA RemainderUnique ==
  ASSUME NEW b \in Nat, b > 0, NEW u \in Int, NEW t \in Int, NEW v \in 0 .. b - 1, NEW r \in 0 .. b - 1,
         b * u + v = b * t + r
  PROVE  v = r
<1>1. b * (u - t) = r - v
  OBVIOUS
<1>2. u - t = 0
  BY <1>1
<1>3. QED
  BY <1>1, <1>2

\* How many zeros the padding has when the message ends bufLen bytes into a block.
LEMMA PaddingLength ==
  ASSUME NEW q \in Nat, NEW n \in 0 .. Block - 1
  PROVE  (LenAt - (Block * q + n) - 1) % Block = IF n + 1 <= LenAt THEN LenAt - n - 1 ELSE LenAt - n - 1 + Block
<1> DEFINE r == IF n + 1 <= LenAt THEN LenAt - n - 1 ELSE LenAt - n - 1 + Block
           t == IF n + 1 <= LenAt THEN -q ELSE -q - 1
           b == Block * q
           a == LenAt - (b + n) - 1
<1>1. r \in 0 .. Block - 1 /\ t \in Int
  BY Sizes
<1>2. a = Block * t + r
  <2>1. CASE n + 1 <= LenAt
    <3>1. Block * (-q) = -b
      BY Sizes
    <3>2. QED
      BY <2>1, <3>1, Sizes
  <2>2. CASE ~(n + 1 <= LenAt)
    <3>1. Block * (-q - 1) = -b - Block
      BY Sizes
    <3>2. QED
      BY <2>2, <3>1, Sizes
  <2>3. QED
    BY <2>1, <2>2
<1>3. a \in Int
  BY Sizes
<1> HIDE DEF r, t, a
<1> DEFINE u == a \div Block
           v == a % Block
<1>4. u \in Int /\ v \in 0 .. Block - 1 /\ a = Block * u + v
  BY <1>3, Sizes, DivModInt
<1> HIDE DEF u, v
<1>5. v = r
  <2>1. Block * u + v = Block * t + r
    BY <1>2, <1>4
  <2>2. QED
    BY <2>1, <1>1, <1>4, Sizes, RemainderUnique
<1>6. QED
  BY <1>5 DEF a, r, v

LEMMA FinalizeHolds ==
  ASSUME ShaInv, Finalize
  PROVE  ShaInv'
<1> DEFINE padded == Copied(buf, bufLen, <<Pad>>)
           n == bufLen + 1
           over == n > LenAt
           from == IF over THEN 0 ELSE n
           zeroed == Zeroed(padded, from, LenAt)
           last == Copied(zeroed, LenAt, Length(len))
           first == IF over THEN Zeroed(padded, n, Block) ELSE <<>>
           held == SubSeq(buf, 1, bufLen)
           pad == <<Pad>>
           L == Length(Len(message))
           z == (LenAt - Len(message) - 1) % Block
<1>1. /\ compressed \in Seq(Nat) /\ message \in Seq(Nat) /\ buf \in Buffers
      /\ bufLen \in 0 .. Block - 1 /\ len = Len(message) % Word
      /\ message = compressed \o held
  BY DEF ShaInv, Finalize
<1>2. PICK q \in Nat : Len(compressed) = Block * q
  BY DEF ShaInv, Finalize
<1>3. /\ done' = TRUE /\ len' = len /\ buf' = buf /\ bufLen' = bufLen /\ message' = message
      /\ compressed' = compressed \o first \o last
  BY Zenon DEF Finalize
<1>4. pad \in Seq(Nat) /\ Len(pad) = 1
  BY Sizes
<1>5. held \in Seq(Nat) /\ Len(held) = bufLen
  <2>1. bufLen \in 0 .. Block
    BY <1>1, Sizes
  <2>2. QED
    BY <2>1, <1>1, PrefixOfJoined
<1>6. padded \in Buffers /\ SubSeq(padded, 1, n) = held \o pad
  <2>1. bufLen \in Nat /\ bufLen + Len(pad) <= Block /\ bufLen + Len(pad) = n
    BY <1>1, <1>4, Sizes
  <2>2. QED
    BY <2>1, <1>1, <1>4, CopiedPrefix
<1> HIDE DEF padded
<1>7. n \in 1 .. Block /\ from \in 0 .. LenAt
  BY <1>1, Sizes
<1>8. L \in Seq(Nat) /\ Len(L) = LenBytes /\ Length(len) = L
  <2>1. Len(message) \in Nat
    BY <1>1
  <2>2. QED
    BY <2>1, <1>1, LengthIsSeq, LengthReduced
<1> HIDE DEF L
<1>9. zeroed \in Buffers /\ SubSeq(zeroed, 1, LenAt) = SubSeq(padded, 1, from) \o Zeros(LenAt - from)
  <2>1. from \in 0 .. Block /\ LenAt \in 0 .. Block /\ from <= LenAt
    BY <1>7, Sizes
  <2>2. QED
    BY <2>1, <1>6, ZeroedPrefix
<1> HIDE DEF zeroed
<1>10. last \in Seq(Nat) /\ last = SubSeq(zeroed, 1, LenAt) \o L
  <2>1. LenAt \in Nat /\ LenAt + Len(Length(len)) <= Block /\ LenAt + Len(Length(len)) = Block
    BY <1>8, Sizes
  <2>2. last \in Buffers /\ SubSeq(last, 1, Block) = SubSeq(zeroed, 1, LenAt) \o L
    BY <2>1, <1>8, <1>9, CopiedPrefix
  <2> HIDE DEF last
  <2>3. 0 \in 0 .. Block
    BY Sizes
  <2>4. last \in Seq(Nat) /\ Len(last) = Block
    BY <2>2, <2>3, PrefixOfJoined
  <2>5. QED
    BY <2>2, <2>4, SubSeqFull
<1> HIDE DEF last
<1>11. Len(message) = Block * q + bufLen
  <2>1. Len(compressed \o held) = Len(compressed) + Len(held)
    BY <1>1, <1>5, Joined
  <2>2. QED
    BY <2>1, <1>1, <1>2, <1>5
<1>12. z = IF n <= LenAt THEN LenAt - n ELSE LenAt - n + Block
  <2>1. z = IF n <= LenAt THEN LenAt - bufLen - 1 ELSE LenAt - bufLen - 1 + Block
    BY <1>1, <1>11, PaddingLength
  <2>2. LenAt - bufLen - 1 = LenAt - n
    BY <1>1, Sizes
  <2>3. QED
    BY <2>1, <2>2
<1>13. Padded(message) = ((message \o pad) \o Zeros(z)) \o L
  BY DEF Padded, Zeros, L
<1> HIDE DEF z
<1>19. compressed \in Seq(Nat)
  BY <1>1
<1> DEFINE mp == message \o pad
           hp == held \o pad
<1>14. mp \in Seq(Nat) /\ hp \in Seq(Nat) /\ compressed \o hp = mp
  <2>1. (compressed \o held) \o pad = compressed \o (held \o pad)
    BY <1>1, <1>4, <1>5, Associative, ZenonT(60)
  <2>2. QED
    BY <2>1, <1>1, <1>4, <1>5, Joined
<1> HIDE DEF mp, hp
<1>15. compressed' = Padded(message)
  <2>1. ASSUME ~over PROVE compressed' = Padded(message)
    <3>1. first = <<>> /\ from = n /\ z = LenAt - n /\ z \in Nat
      BY <2>1, <1>7, <1>12, Sizes
    <3>2. Zeros(z) \in Seq(Nat)
      BY <3>1, ZerosAreSeq
    <3>3. last = (hp \o Zeros(z)) \o L
      <4>1. SubSeq(padded, 1, from) = hp /\ Zeros(LenAt - from) = Zeros(z)
        BY <3>1, <1>6 DEF hp
      <4>2. QED
        BY <4>1, <1>9, <1>10
    <3>4. compressed' = compressed \o last
      BY <3>1, <1>1, <1>3, ConcatEmptySeq
    <3>5. hp \o Zeros(z) \in Seq(Nat)
      BY <3>2, <1>14, Joined
    <3>6. compressed \o ((hp \o Zeros(z)) \o L) = (compressed \o (hp \o Zeros(z))) \o L
      BY <3>5, <1>19, <1>8, Associative
    <3>7. compressed \o (hp \o Zeros(z)) = (compressed \o hp) \o Zeros(z)
      BY <3>2, <1>19, <1>14, Associative
    <3>8. QED
      BY <3>3, <3>4, <3>6, <3>7, <1>13, <1>14 DEF mp
  <2>2. ASSUME over PROVE compressed' = Padded(message)
    <3> DEFINE z1 == Zeros(Block - n)
               z2 == Zeros(LenAt)
    <3>1. from = 0 /\ Block - n \in Nat /\ LenAt \in Nat /\ z = (Block - n) + LenAt
      BY <2>2, <1>7, <1>12, Sizes
    <3>2. z1 \in Seq(Nat) /\ z2 \in Seq(Nat) /\ Zeros(z) = z1 \o z2
      BY <3>1, ZerosAreSeq, ZerosJoined
    <3>3. last = z2 \o L
      <4>1. SubSeq(padded, 1, 0) = <<>> /\ LenAt - 0 = LenAt
        BY SubSeqEmpty, Sizes
      <4>2. <<>> \o z2 = z2
        BY <3>2, ConcatEmptySeq
      <4>3. QED
        BY <4>1, <4>2, <3>1, <1>9, <1>10
    <3>4. first = hp \o z1 /\ first \in Seq(Nat)
      <4> DEFINE f == Zeroed(padded, n, Block)
      <4>1. n \in 0 .. Block /\ Block \in 0 .. Block /\ n <= Block /\ 0 \in 0 .. Block
        BY <1>7, Sizes
      <4>2. f \in Buffers /\ SubSeq(f, 1, Block) = SubSeq(padded, 1, n) \o z1
        BY <4>1, <1>6, ZeroedPrefix
      <4> HIDE DEF f
      <4>3. f \in Seq(Nat) /\ Len(f) = Block
        BY <4>1, <4>2, PrefixOfJoined
      <4>4. SubSeq(f, 1, Block) = f
        BY <4>3, SubSeqFull
      <4>5. first = f
        BY <2>2 DEF f
      <4>6. QED
        BY <4>2, <4>3, <4>4, <4>5, <1>6 DEF hp
    <3> HIDE DEF z1, z2, first
    <3>5. compressed \o first = mp \o z1
      <4>1. compressed \o (hp \o z1) = (compressed \o hp) \o z1
        BY <3>2, <1>19, <1>14, Associative
      <4>2. QED
        BY <4>1, <3>4, <1>14
    <3>6. compressed' = (mp \o z1) \o (z2 \o L)
      BY <3>3, <3>5, <1>3
    <3>7. mp \o z1 \in Seq(Nat)
      BY <3>2, <1>14, Joined
    <3>8. (mp \o z1) \o (z2 \o L) = ((mp \o z1) \o z2) \o L
      BY <3>2, <3>7, <1>8, Associative
    <3>9. (mp \o z1) \o z2 = mp \o (z1 \o z2)
      BY <3>2, <1>14, Associative, ZenonT(60)
    <3>10. QED
      BY <3>2, <3>6, <3>8, <3>9, <1>13 DEF mp
  <2>3. QED
    BY <2>1, <2>2
<1>16. compressed' \in Seq(Nat)
  <2>1. z \in Nat
    BY <1>7, <1>12, Sizes
  <2>2. Zeros(z) \in Seq(Nat)
    BY <2>1, ZerosAreSeq
  <2>3. mp \o Zeros(z) \in Seq(Nat)
    BY <2>2, <1>14, Joined
  <2>4. QED
    BY <2>3, <1>8, <1>13, <1>15, Joined DEF mp
<1>17. compressed' = Padded(message')
  BY <1>3, <1>15
<1>18. QED
  BY <1>1, <1>3, <1>16, <1>17 DEF ShaInv

-----------------------------------------------------------------------------
LEMMA ShaInvariance == ShaSpec => []ShaInv
<1>1. ShaInv /\ [ShaNext]_shaVars => ShaInv'
  <2> SUFFICES ASSUME ShaInv, [ShaNext]_shaVars PROVE ShaInv'
    OBVIOUS
  <2>1. ASSUME NEW more \in Updates, Update(more) PROVE ShaInv'
    BY <2>1, UpdateHolds
  <2>2. CASE Finalize
    BY <2>2, FinalizeHolds
  <2>3. CASE UNCHANGED shaVars
    BY <2>3 DEF ShaInv, shaVars, Padded, Length
  <2>4. QED
    BY <2>1, <2>2, <2>3 DEF ShaNext
<1>2. QED
  BY <1>1, ShaInitHolds, PTL DEF ShaSpec

\* Before finalize, the blocks compressed are as many of the message's as are full.
LEMMA WholeBlocksOfMessage ==
  ASSUME ShaInv, ~done
  PROVE  compressed = SubSeq(message, 1, (Len(message) \div Block) * Block)
<1>1. /\ compressed \in Seq(Nat) /\ message \in Seq(Nat) /\ buf \in Buffers /\ bufLen \in 0 .. Block - 1
      /\ message = compressed \o SubSeq(buf, 1, bufLen)
  BY DEF ShaInv
<1>2. PICK q \in Nat : Len(compressed) = Block * q
  BY DEF ShaInv
<1> DEFINE held == SubSeq(buf, 1, bufLen)
           m == Len(message)
           c == Len(compressed)
<1>3. held \in Seq(Nat) /\ Len(held) = bufLen
  <2>1. bufLen \in 0 .. Block
    BY <1>1, Sizes
  <2>2. QED
    BY <2>1, <1>1, PrefixOfJoined
<1> HIDE DEF held
<1>4. /\ message = compressed \o held /\ m = c + bufLen /\ c \in Nat /\ m \in Nat
      /\ \A i \in 1 .. c : message[i] = compressed[i]
  <2>1. message = compressed \o held
    BY <1>1 DEF held
  <2>2. QED
    BY <2>1, <1>1, <1>3, Joined
<1> HIDE DEF m, c
<1>5. m = Block * q + bufLen
  BY <1>2, <1>4 DEF c
<1>6. m \div Block = q
  <2>1. bufLen \in 0 .. Block - 1
    BY <1>1
  <2>2. m \in Nat /\ q \in Int /\ Block \in Nat /\ Block > 0
    BY <1>4, Sizes
  <2>3. QED
    BY <2>1, <2>2, <1>5, DivModUnique
<1>7. (m \div Block) * Block = c
  BY <1>2, <1>6, Sizes DEF c
<1>8. /\ SubSeq(message, 1, c) \in Seq(Nat) /\ Len(SubSeq(message, 1, c)) = c
      /\ \A i \in 1 .. c : SubSeq(message, 1, c)[i] = message[i]
  <2>1. 0 + 1 = 1 /\ c - 0 = c /\ 0 <= c /\ c <= m /\ 0 \in Nat /\ \A i \in 1 .. c : 0 + i = i
    BY <1>1, <1>4, Sizes
  <2>2. /\ SubSeq(message, 0 + 1, c) \in Seq(Nat) /\ Len(SubSeq(message, 0 + 1, c)) = c - 0
        /\ \A i \in 1 .. c - 0 : SubSeq(message, 0 + 1, c)[i] = message[0 + i]
    BY <2>1, <1>1, <1>4, SliceOfNats DEF m
  <2>3. QED
    BY <2>1, <2>2
<1>9. SubSeq(message, 1, c) = compressed
  BY <1>1, <1>4, <1>8, SeqEqual DEF c
<1>10. QED
  BY <1>7, <1>9 DEF m

\* However the message is cut into calls of update (hash.rs), the digest is
\* that of the padded message, and no stale byte of the buffer reaches it.
THEOREM DigestIsOfMessage == ShaSpec => []DigestOfMessage
<1>1. ShaInv => DigestOfMessage
  BY WholeBlocksOfMessage DEF ShaInv, DigestOfMessage
<1>2. QED
  BY <1>1, ShaInvariance, PTL

-----------------------------------------------------------------------------
(***************************************************************************)
(* A file that parse lets through has all its tensors' data, one tensor's  *)
(* apart from the other's, whatever the file is.                           *)
(*                                                                         *)
(* The invariant says that what was read are numbers, and that the layout  *)
(* was found right.  A position or an error is an end.                     *)
(***************************************************************************)
Ends == Nat \cup {Truncated, UnsupportedValueType, InvalidBool, InvalidUtf8}
TensorInfo == [name : Seq(Nat), ty : Nat, offset : Nat, dimensions : Seq(Nat)]

ReaderTypes ==
  /\ content \in Seq(0 .. Base - 1)
  /\ pos \in Nat /\ data_offset \in Nat /\ tensors \in Seq(TensorInfo)

\* What LayoutError has established when it finds no error.
Accepted(base) ==
  /\ \A i \in DOMAIN tensors : RangeError(tensors[i], base, Len(content)) = "ok"
  /\ ~Overlap(base)

ReaderInv == ReaderTypes /\ (stage = "ok" /\ validate => Accepted(data_offset))

LEMMA EndsAre ==
  /\ Ends \subseteq Int /\ Truncated \in Ends /\ UnsupportedValueType \in Ends /\ InvalidBool \in Ends /\ InvalidUtf8 \in Ends
  /\ \A e \in Ends : e < 0 \/ (e \in Nat /\ e >= 0)
  /\ Truncated < 0 /\ UnsupportedValueType < 0 /\ InvalidBool < 0 /\ InvalidUtf8 < 0
BY DEF Ends, Truncated, UnsupportedValueType, InvalidBool, InvalidUtf8

LEMMA ErrorsAreNamed == \A e \in Ends : e < 0 => ErrorName(e) # "ok"
BY DEF Ends, ErrorName, Truncated, UnsupportedValueType, InvalidBool, InvalidUtf8

LEMMA CellsAre ==
  ASSUME content \in Seq(0 .. Base - 1)
  PROVE  /\ Len(content) \in Nat /\ \A i \in 1 .. Len(content) : content[i] \in Nat
         /\ \A p \in Nat : p + 1 <= Len(content) => U32(p) \in Nat
         /\ \A p \in Nat : p + 2 <= Len(content) => U64(p) \in Nat
<1>1. Base \in Nat
  BY GgufAssumption
<1>2. Len(content) \in Nat /\ \A i \in 1 .. Len(content) : content[i] \in Nat
  BY <1>1
<1>3. ASSUME NEW p \in Nat, p + 1 <= Len(content) PROVE U32(p) \in Nat
  <2>1. p + 1 \in 1 .. Len(content)
    BY <1>2, <1>3
  <2> QED
    BY <1>2, <2>1 DEF U32
<1>4. ASSUME NEW p \in Nat, p + 2 <= Len(content) PROVE U64(p) \in Nat
  <2>1. p + 1 \in 1 .. Len(content) /\ p + 2 \in 1 .. Len(content)
    BY <1>2, <1>4
  <2>2. PICK a \in Nat, b \in Nat : a = content[p + 1] /\ b = content[p + 2]
    BY <1>2, <2>1
  <2>3. Base * b \in Nat
    BY <1>1
  <2> QED
    BY <2>2, <2>3 DEF U64
<1> QED
  BY <1>2, <1>3, <1>4

LEMMA PastIs ==
  ASSUME content \in Seq(0 .. Base - 1), NEW p \in Ends, NEW n \in Nat
  PROVE  /\ Past(p, n) \in Ends
         /\ p < 0 => Past(p, n) = p
         /\ Past(p, n) >= 0 => p \in Nat /\ Past(p, n) = p + n /\ p + n <= Len(content)
BY EndsAre, CellsAre DEF Past, Available, Ends, Truncated

LEMMA StringEndIs ==
  ASSUME content \in Seq(0 .. Base - 1), NEW p \in Ends
  PROVE  /\ StringEnd(p) \in Ends
         /\ StringEnd(p) >= 0 => p \in Nat /\ p + 2 <= StringEnd(p) /\ StringEnd(p) <= Len(content)
<1> DEFINE start == Past(p, 2)
           end   == IF start < 0 THEN start ELSE Past(start, U64(p))
<1>1. start \in Ends /\ (start >= 0 => p \in Nat /\ start = p + 2 /\ p + 2 <= Len(content))
  BY PastIs
<1>2. CASE start < 0
  <2>1. end \in Ends /\ ~(end >= 0) /\ StringEnd(p) = end
    BY <1>1, <1>2, EndsAre DEF StringEnd
  <2> QED
    BY <2>1
<1>3. CASE ~(start < 0)
  <2>1. start >= 0
    <3> HIDE DEF start
    <3> QED
      BY <1>1, <1>3, EndsAre
  <2>2. U64(p) \in Nat
    BY <1>1, <2>1, CellsAre
  <2>3. end = Past(start, U64(p))
    BY <1>3
  <2> HIDE DEF start
  <2>4. end \in Ends /\ (end >= 0 => end = start + U64(p) /\ start + U64(p) <= Len(content))
    BY <1>1, <2>2, <2>3, PastIs
  <2>5. StringEnd(p) \in {end, InvalidUtf8}
    BY DEF StringEnd, start
  <2> HIDE DEF end
  <2> QED
    BY <1>1, <2>1, <2>2, <2>4, <2>5, EndsAre
<1> QED
  BY <1>2, <1>3

LEMMA ItemEndIs ==
  ASSUME content \in Seq(0 .. Base - 1), NEW ty \in Nat, NEW p \in Ends
  PROVE  ItemEnd(ty, p) \in Ends
<1>1. BoolEnd(p) \in Ends
  <2>1. BoolEnd(p) \in {Past(p, 1), InvalidBool}
    BY DEF BoolEnd
  <2> QED
    BY <2>1, PastIs, EndsAre
<1>2. Width(ty) \in Nat
  BY DEF Width
<1> QED
  BY <1>1, <1>2, StringEndIs, PastIs DEF ItemEnd

LEMMA ItemEndsAre ==
  ASSUME content \in Seq(0 .. Base - 1), NEW ty \in Nat, NEW start \in Ends, NEW n \in Nat
  PROVE  ItemEnds(ty, start, n)[n] \in Ends
<1> DEFINE E(g) == [i \in 0 .. n |-> IF i = 0 THEN start ELSE ItemEnd(ty, g[i - 1])]
           f == CHOOSE g : g = E(g)
<1>1. ItemEnds(ty, start, n) = f
  BY DEF ItemEnds
<1>2. PICK step \in [1 .. n -> [Ends -> Ends]] : step = [i \in 1 .. n |-> [e \in Ends |-> ItemEnd(ty, e)]]
  BY ItemEndIs
<1>3. StepsIn(Ends, start, n, step)
  BY DEF StepsIn
<1>4. PICK h : IsRun(h, Ends, start, n, step)
  BY <1>3, Recursion
<1>5. h \in [0 .. n -> Ends] /\ h[0] = start /\ \A i \in 1 .. n : h[i] = ItemEnd(ty, h[i - 1])
  BY <1>2, <1>4 DEF IsRun
<1>6. h = E(h)
  BY <1>5
<1>7. f = E(f)
  BY <1>6
<1>8. f[0] = start /\ \A i \in 1 .. n : f[i] = ItemEnd(ty, f[i - 1])
  <2> HIDE DEF f
  <2>1. E(f)[0] = start /\ \A i \in 1 .. n : E(f)[i] = ItemEnd(ty, f[i - 1])
    OBVIOUS
  <2> HIDE DEF E
  <2> QED
    BY <1>7, <2>1
<1> HIDE DEF f, E
<1>9. StepAlike(f, h, n)
  BY <1>5, <1>8 DEF StepAlike
<1>10. f[n] = h[n]
  BY <1>9, Determined
<1> QED
  BY <1>1, <1>5, <1>10

LEMMA ValueEndIs ==
  ASSUME content \in Seq(0 .. Base - 1), NEW p \in Ends
  PROVE  ValueEnd(p) \in Ends
<1>1. ASSUME NEW q \in Ends PROVE ArrayEnd(q) \in Ends
  <2> DEFINE body == Past(Past(q, 1), 2)
  <2>1. body \in Ends
    BY PastIs
  <2>2. ASSUME ~(body < 0) PROVE U32(q) \in Nat /\ U64(q + 1) \in Nat
    <3>1. PICK r \in Ends : r = Past(q, 1)
      BY PastIs
    <3>2. Past(r, 2) >= 0
      <4>1. PICK e \in Ends : e = Past(r, 2)
        BY <2>1, <3>1 DEF body
      <4> QED
        BY <4>1, <2>2, <3>1, EndsAre DEF body
    <3>3. r \in Nat /\ r + 2 <= Len(content)
      BY <3>2, PastIs
    <3>4. q \in Nat /\ r = q + 1
      BY <3>1, <3>3, PastIs
    <3> QED
      BY <3>3, <3>4, CellsAre
  <2> HIDE DEF body
  <2>3. body < 0 \/ ItemEnds(U32(q), body, U64(q + 1))[U64(q + 1)] \in Ends
    BY <2>1, <2>2, ItemEndsAre
  <2> QED
    BY <2>1, <2>3, EndsAre DEF ArrayEnd, body
<1>2. PICK body \in Ends : body = Past(p, 1)
  BY PastIs
<1>3. ASSUME ~(body < 0) PROVE U32(p) \in Nat
  <2>1. Past(p, 1) >= 0
    BY <1>2, <1>3, EndsAre
  <2> QED
    BY <2>1, PastIs, CellsAre
<1>4. body < 0 \/ (ArrayEnd(body) \in Ends /\ ItemEnd(U32(p), body) \in Ends)
  BY <1>1, <1>3, ItemEndIs
<1> QED
  BY <1>2, <1>4, EndsAre DEF ValueEnd

-----------------------------------------------------------------------------
\* The layout.
LEMMA ElementsAre ==
  ASSUME NEW dimensions \in Seq(Nat)
  PROVE  Elements(dimensions) \in Nat
<1> PICK n \in Nat : n = Len(dimensions)
  OBVIOUS
<1> DEFINE Times(i, v) == IF v > MaxU64 \/ v * dimensions[i] > MaxU64 THEN Above ELSE v * dimensions[i]
           E(g) == [i \in 0 .. Len(dimensions) |->
                      IF i = 0 THEN 1
                      ELSE IF g[i - 1] > MaxU64 \/ g[i - 1] * dimensions[i] > MaxU64 THEN Above
                      ELSE g[i - 1] * dimensions[i]]
           f == CHOOSE g : g = E(g)
<1>1. Products(dimensions) = f
  BY DEF Products
<1>2. ASSUME NEW i \in 1 .. n, NEW v \in Nat PROVE Times(i, v) \in Nat
  <2>1. dimensions[i] \in Nat
    OBVIOUS
  <2>2. v * dimensions[i] \in Nat
    BY <2>1
  <2>3. Above \in Nat
    <3>1. Base \in Nat
      BY GgufAssumption
    <3>2. Base * Base \in Nat
      BY <3>1
    <3> QED
      BY <3>2 DEF Above, MaxU64
  <2> QED
    BY <2>2, <2>3
<1>3. \A g : E(g) = [i \in 0 .. n |-> IF i = 0 THEN 1 ELSE Times(i, g[i - 1])]
  OBVIOUS
<1> HIDE DEF Times, E
<1>4. PICK step \in [1 .. n -> [Nat -> Nat]] : step = [i \in 1 .. n |-> [v \in Nat |-> Times(i, v)]]
  BY <1>2
<1>5. StepsIn(Nat, 1, n, step)
  BY DEF StepsIn
<1>6. PICK h : IsRun(h, Nat, 1, n, step)
  BY <1>5, Recursion
<1>7. h \in [0 .. n -> Nat] /\ h[0] = 1 /\ \A i \in 1 .. n : h[i] = Times(i, h[i - 1])
  <2>1. h \in [0 .. n -> Nat] /\ h[0] = 1 /\ \A i \in 1 .. n : h[i] = step[i][h[i - 1]]
    BY <1>6 DEF IsRun
  <2>2. ASSUME NEW i \in 1 .. n PROVE h[i] = Times(i, h[i - 1])
    <3>1. PICK v \in Nat : v = h[i - 1]
      <4>1. i - 1 \in 0 .. n
        OBVIOUS
      <4> QED
        BY <2>1, <4>1
    <3>2. step[i][v] = Times(i, v)
      BY <1>4
    <3>3. h[i] = step[i][v]
      BY <2>1, <3>1
    <3> QED
      BY <3>1, <3>2, <3>3
  <2> QED
    BY <2>1, <2>2
<1>8. h = E(h)
  <2>1. E(h) = [i \in 0 .. n |-> IF i = 0 THEN 1 ELSE Times(i, h[i - 1])]
    BY <1>3
  <2>2. h = [i \in 0 .. n |-> h[i]]
    BY <1>7
  <2>3. ASSUME NEW i \in 0 .. n PROVE h[i] = IF i = 0 THEN 1 ELSE Times(i, h[i - 1])
    <3>1. i = 0 \/ i \in 1 .. n
      OBVIOUS
    <3> QED
      BY <1>7, <3>1
  <2> QED
    BY ONLY <2>1, <2>2, <2>3
<1>9. f = E(f)
  BY <1>8
<1> HIDE DEF f
<1>10. f[0] = 1 /\ \A i \in 1 .. n : f[i] = Times(i, f[i - 1])
  <2>1. E(f)[0] = 1 /\ \A i \in 1 .. n : E(f)[i] = Times(i, f[i - 1])
    BY <1>3
  <2> QED
    BY <1>9, <2>1
<1>11. StepAlike(f, h, n)
  BY <1>7, <1>10 DEF StepAlike
<1>12. f[n] = h[n]
  BY <1>11, Determined
<1> QED
  BY <1>1, <1>7, <1>12 DEF Elements

LEMMA RangeIs ==
  ASSUME NEW t \in TensorInfo, NEW base \in Nat, NEW limit \in Nat, RangeError(t, base, limit) = "ok"
  PROVE  /\ EncodedLen(t) \in Nat /\ t.offset \in Nat
         /\ RangeStart(t, base) = base + t.offset /\ RangeEnd(t, base) = base + t.offset + EncodedLen(t)
         /\ RangeEnd(t, base) <= limit
<1>1. ShapeError(t) = "ok" /\ ~(RangeEnd(t, base) > limit)
  <2>1. CASE ShapeError(t) # "ok"
    BY <2>1 DEF RangeError
  <2>2. CASE ShapeError(t) = "ok"
    <3> HIDE DEF ShapeError, RangeEnd
    <3>1. RangeEnd(t, base) > MaxU64 => RangeError(t, base, limit) = "InvalidTensorOffset"
      BY <2>2 DEF RangeError
    <3>2. ~(RangeEnd(t, base) > MaxU64) /\ RangeEnd(t, base) > limit => RangeError(t, base, limit) = "Truncated"
      BY <2>2 DEF RangeError
    <3> QED
      BY <2>2, <3>1, <3>2
  <2> QED
    BY <2>1, <2>2
<1>2. t.ty \in DOMAIN Types
  BY <1>1 DEF ShapeError
<1>3. PICK b \in Nat \ {0}, s \in Nat : b = Types[t.ty].block /\ s = Types[t.ty].size
  BY <1>2, GgufAssumption
<1>4. PICK e \in Nat : e = Elements(t.dimensions)
  BY ElementsAre DEF TensorInfo
<1>5. e \div b \in Nat
  BY <1>3, <1>4
<1>6. (e \div b) * s \in Nat
  BY <1>5
<1>7. PICK l \in Nat : l = EncodedLen(t)
  BY <1>3, <1>4, <1>6 DEF EncodedLen
<1>8. PICK o \in Nat : o = t.offset
  BY DEF TensorInfo
<1>9. RangeStart(t, base) = base + o /\ RangeEnd(t, base) = base + o + l
  BY <1>7, <1>8 DEF RangeStart, RangeEnd
<1> QED
  BY <1>1, <1>7, <1>8, <1>9

\* What comes later in the order of the starts comes no earlier than a neighbour.
LEMMA NeighbourAfter ==
  ASSUME tensors \in Seq(TensorInfo), NEW i \in DOMAIN tensors, NEW j \in DOMAIN tensors, Before(i, j)
  PROVE  \E k \in DOMAIN tensors : Neighbours(i, k) /\ tensors[k].offset <= tensors[j].offset
<1>1. DOMAIN tensors \subseteq Nat /\ \A k \in DOMAIN tensors : tensors[k].offset \in Nat
  <2>1. DOMAIN tensors \subseteq Nat /\ \A k \in DOMAIN tensors : tensors[k] \in TensorInfo
    OBVIOUS
  <2> QED
    BY <2>1 DEF TensorInfo
<1> DEFINE Later == { k \in DOMAIN tensors : Before(i, k) }
           Starts == { tensors[k].offset : k \in Later }
<1>2. Starts \subseteq Nat /\ tensors[j].offset \in Starts
  BY <1>1
<1> HIDE DEF Starts
<1>3. PICK least \in Starts : \A o \in Starts : least <= o
  BY <1>2, HasLeast
<1> DEFINE First == { k \in Later : tensors[k].offset = least }
<1>4. First \subseteq Nat /\ First # {}
  BY <1>1, <1>3 DEF Starts
<1> HIDE DEF First
<1>5. PICK k \in First : \A l \in First : k <= l
  BY <1>4, HasLeast
<1>6. k \in DOMAIN tensors /\ Before(i, k) /\ tensors[k].offset = least
  BY <1>5 DEF First
<1>7. ASSUME NEW l \in DOMAIN tensors, Before(i, l), Before(l, k) PROVE FALSE
  <2>1. tensors[l].offset \in Starts
    BY <1>7 DEF Starts
  <2>2. least <= tensors[l].offset /\ least \in Nat /\ tensors[l].offset \in Nat /\ l \in Nat /\ k \in Nat
    BY <1>1, <1>2, <1>3, <1>6, <2>1
  <2>3. tensors[l].offset = least /\ l < k
    BY <2>2, <1>6, <1>7 DEF Before
  <2>4. l \in First
    BY <2>3, <1>7 DEF First
  <2> QED
    BY <2>2, <2>3, <2>4, <1>5
<1>8. Neighbours(i, k)
  BY <1>6, <1>7 DEF Neighbours
<1> QED
  BY <1>2, <1>3, <1>6, <1>8

LEMMA NoErrorAccepts ==
  ASSUME ReaderTypes, NEW base, LayoutError(base) = "ok"
  PROVE  Accepted(base)
<1>1. \A i \in DOMAIN tensors : RangeError(tensors[i], base, Len(content)) = "ok"
  <2> DEFINE bad == { i \in DOMAIN tensors : RangeError(tensors[i], base, Len(content)) # "ok" }
  <2>1. SUFFICES ASSUME bad # {} PROVE FALSE
    OBVIOUS
  <2>2. PICK first \in bad : first = CHOOSE i \in bad : \A j \in bad : i <= j
    <3>1. bad \subseteq Nat
      BY DEF ReaderTypes
    <3> HIDE DEF bad
    <3> QED
      BY <2>1, <3>1, HasLeast
  <2>3. LayoutError(base) \in {"Truncated", RangeError(tensors[first], base, Len(content))}
    BY <2>1, <2>2 DEF LayoutError
  <2> QED
    BY <2>2, <2>3
<1> QED
  BY <1>1 DEF LayoutError, Accepted

LEMMA LayoutIsApart ==
  ASSUME ReaderTypes, validate, Accepted(data_offset)
  PROVE  /\ \A i \in DOMAIN tensors : Len(TensorData(tensors[i])) = EncodedLen(tensors[i])
         /\ Apart(tensors)
<1>1. /\ content \in Seq(0 .. Base - 1) /\ Len(content) \in Nat /\ data_offset \in Nat
      /\ tensors \in Seq(TensorInfo) /\ DOMAIN tensors \subseteq Nat
      /\ \A i \in DOMAIN tensors : tensors[i] \in TensorInfo
  BY CellsAre DEF ReaderTypes
<1>2. \A i \in DOMAIN tensors : RangeError(tensors[i], data_offset, Len(content)) = "ok"
  BY DEF Accepted
<1>3. ~Overlap(data_offset)
  BY DEF Accepted
<1>4. ASSUME NEW i \in DOMAIN tensors
      PROVE  /\ EncodedLen(tensors[i]) \in Nat /\ tensors[i].offset \in Nat
             /\ RangeStart(tensors[i], data_offset) = data_offset + tensors[i].offset
             /\ RangeEnd(tensors[i], data_offset) = data_offset + tensors[i].offset + EncodedLen(tensors[i])
             /\ RangeEnd(tensors[i], data_offset) <= Len(content)
  BY <1>1, <1>2, RangeIs
<1>5. ASSUME NEW i \in DOMAIN tensors PROVE Len(TensorData(tensors[i])) = EncodedLen(tensors[i])
  <2>1. TensorData(tensors[i]) = Cells(RangeStart(tensors[i], data_offset), RangeEnd(tensors[i], data_offset))
    BY <1>2 DEF TensorData, FileLen
  <2> PICK a \in Nat, n \in Nat : a = data_offset + tensors[i].offset /\ n = EncodedLen(tensors[i])
    BY <1>1, <1>4
  <2>2. TensorData(tensors[i]) = SubSeq(content, a + 1, a + n) /\ a + n <= Len(content)
    BY <2>1, <1>4 DEF Cells
  <2>3. Len(SubSeq(content, a + 1, a + n)) = n
    <3>1. \A k \in a + 1 .. a + n : content[k] \in Nat
      BY <2>2, <1>1, CellsAre
    <3> QED
      BY <3>1, SubSeqProperties
  <2> QED
    BY <2>2, <2>3
<1>6. ASSUME NEW i \in DOMAIN tensors, NEW j \in DOMAIN tensors, Before(i, j)
      PROVE  RangeEnd(tensors[i], 0) <= RangeStart(tensors[j], 0)
  <2>1. PICK k \in DOMAIN tensors : Neighbours(i, k) /\ tensors[k].offset <= tensors[j].offset
    BY <1>1, <1>6, NeighbourAfter
  <2>2. ~(RangeEnd(tensors[i], data_offset) > RangeStart(tensors[k], data_offset))
    BY <1>3, <2>1 DEF Overlap
  <2> PICK n \in Nat, a \in Nat, b \in Nat, c \in Nat :
        n = EncodedLen(tensors[i]) /\ a = tensors[i].offset /\ b = tensors[j].offset /\ c = tensors[k].offset
    BY <1>4
  <2>3. ~(data_offset + a + n > data_offset + c) /\ c <= b
    BY <2>1, <2>2, <1>4
  <2>4. a + n <= b
    <3>1. data_offset \in Nat
      BY <1>1
    <3> QED
      BY ONLY <2>3, <3>1, a \in Nat, b \in Nat, c \in Nat, n \in Nat
  <2>5. RangeEnd(tensors[i], 0) = 0 + a + n /\ RangeStart(tensors[j], 0) = 0 + b
    BY DEF RangeEnd, RangeStart
  <2> QED
    BY <2>4, <2>5
<1>7. Apart(tensors)
  <2> SUFFICES ASSUME NEW i \in DOMAIN tensors, NEW j \in DOMAIN tensors, i # j
               PROVE  \/ RangeEnd(tensors[i], 0) <= RangeStart(tensors[j], 0)
                      \/ RangeEnd(tensors[j], 0) <= RangeStart(tensors[i], 0)
    BY DEF Apart
  <2>1. i \in Nat /\ j \in Nat /\ tensors[i].offset \in Nat /\ tensors[j].offset \in Nat
    BY <1>1, <1>4
  <2>2. Before(i, j) \/ Before(j, i)
    BY <2>1 DEF Before
  <2> QED
    BY <2>2, <1>6
<1> QED
  BY <1>5, <1>7
-----------------------------------------------------------------------------
\* The actions.
LEMMA StoredIs ==
  ASSUME NEW cells \in Seq(0 .. Base - 1)
  PROVE  Stored(cells) \subseteq Seq(0 .. Base - 1)
<1> SUFFICES ASSUME NEW c \in Stored(cells) PROVE c \in Seq(0 .. Base - 1)
  OBVIOUS
<1>1. CASE c = cells
  BY <1>1
<1>2. CASE \E n \in 0 .. Len(cells) : c = SubSeq(cells, 1, n)
  <2>1. PICK n \in 0 .. Len(cells) : c = SubSeq(cells, 1, n)
    BY <1>2
  <2>2. n \in Int /\ \A i \in 1 .. n : cells[i] \in 0 .. Base - 1
    <3>1. PICK C : C = 0 .. Base - 1
      OBVIOUS
    <3>2. cells \in Seq(C) /\ n \in 0 .. Len(cells)
      BY <3>1
    <3>3. n \in Int /\ \A i \in 1 .. n : cells[i] \in C
      BY <3>2
    <3> QED
      BY <3>1, <3>3
  <2> QED
    BY <2>1, <2>2, SubSeqProperties
<1>3. CASE \E i \in DOMAIN cells, v \in 0 .. Base - 1 : c = [cells EXCEPT ![i] = v]
  BY <1>3
<1> QED
  BY <1>1, <1>2, <1>3 DEF Stored

LEMMA CellsRead ==
  ASSUME content \in Seq(0 .. Base - 1), NEW p \in Nat, NEW q \in Nat, q <= Len(content)
  PROVE  Cells(p, q) \in Seq(Nat)
<1>1. \A i \in p + 1 .. q : content[i] \in Nat
  BY CellsAre
<1> QED
  BY <1>1, SubSeqProperties DEF Cells

LEMMA TensorRead ==
  ASSUME content \in Seq(0 .. Base - 1), NEW p \in Nat,
         NEW ndim, NEW dims, NEW ty, NEW end,
         ndim = StringEnd(p), dims = Past(ndim, 1),
         ty = IF dims < 0 THEN dims ELSE Past(dims, 2 * U32(ndim)),
         end = Past(Past(ty, 1), 2)
  PROVE  /\ end \in Ends
         /\ ~(end < 0) =>
              [name |-> Cells(p + 2, ndim), ty |-> U32(ty), offset |-> U64(ty + 1),
               dimensions |-> [i \in 1 .. U32(ndim) |-> U64(dims + 2 * (i - 1))]] \in TensorInfo
<1>1. ndim \in Ends /\ (ndim >= 0 => ndim \in Nat /\ ndim <= Len(content))
  <2>1. p \in Ends
    BY DEF Ends
  <2>2. ndim \in Ends /\ (ndim >= 0 => ndim <= Len(content))
    BY <2>1, StringEndIs
  <2> QED
    BY <2>2, EndsAre
<1>2. dims \in Ends /\ (dims >= 0 => ndim \in Nat /\ dims = ndim + 1 /\ ndim + 1 <= Len(content))
  BY <1>1, PastIs
<1>3. dims < 0 \/ (dims \in Nat /\ U32(ndim) \in Nat)
  BY <1>2, EndsAre, CellsAre
<1>4. ty \in Ends
      /\ (ty >= 0 => dims \in Nat /\ U32(ndim) \in Nat /\ ty = dims + 2 * U32(ndim) /\ ty <= Len(content))
  <2>1. CASE dims < 0
    BY <2>1, <1>2, EndsAre
  <2>2. CASE ~(dims < 0)
    <3>1. PICK n \in Nat : n = 2 * U32(ndim)
      BY <2>2, <1>3
    <3>2. ty = Past(dims, n)
      BY <2>2, <3>1
    <3> QED
      BY <2>2, <3>1, <3>2, <1>2, <1>3, PastIs
  <2> QED
    BY <2>1, <2>2
<1>5. PICK e \in Ends : e = Past(ty, 1) /\ (e >= 0 => ty \in Nat /\ e = ty + 1)
  BY <1>4, PastIs
<1>6. end \in Ends /\ (end >= 0 => e \in Nat /\ end = e + 2 /\ e + 2 <= Len(content))
  BY <1>5, PastIs
<1>7. ASSUME ~(end < 0)
      PROVE  [name |-> Cells(p + 2, ndim), ty |-> U32(ty), offset |-> U64(ty + 1),
               dimensions |-> [i \in 1 .. U32(ndim) |-> U64(dims + 2 * (i - 1))]] \in TensorInfo
  <2>1. /\ ty \in Nat /\ ty + 3 <= Len(content) /\ dims \in Nat /\ U32(ndim) \in Nat
        /\ ty = dims + 2 * U32(ndim) /\ ndim \in Nat /\ ndim <= Len(content)
    <3>1. end >= 0 /\ e \in Nat /\ end = e + 2 /\ e + 2 <= Len(content)
      BY <1>6, <1>7, EndsAre
    <3>2. e >= 0 /\ ty \in Nat /\ e = ty + 1
      BY <1>5, <3>1
    <3>3. ty >= 0 /\ dims \in Nat /\ U32(ndim) \in Nat /\ ty = dims + 2 * U32(ndim)
      BY <1>4, <3>2
    <3>4. dims >= 0 /\ ndim \in Nat
      BY <1>2, <3>3
    <3> QED
      BY <1>1, <3>1, <3>2, <3>3, <3>4, CellsAre
  <2>2. U32(ty) \in Nat
    BY <2>1, CellsAre
  <2>3. U64(ty + 1) \in Nat
    <3>1. PICK q \in Nat : q = ty + 1 /\ q + 2 <= Len(content)
      <4>1. Len(content) \in Nat
        BY CellsAre
      <4> QED
        BY <2>1, <4>1
    <3> QED
      BY <2>1, <3>1, CellsAre
  <2>4. Cells(p + 2, ndim) \in Seq(Nat)
    BY <2>1, CellsRead
  <2>5. [i \in 1 .. U32(ndim) |-> U64(dims + 2 * (i - 1))] \in Seq(Nat)
    <3>1. PICK n \in Nat : n = U32(ndim)
      BY <2>1
    <3>2. ASSUME NEW i \in 1 .. n PROVE U64(dims + 2 * (i - 1)) \in Nat
      <4>1. PICK q \in Nat : q = dims + 2 * (i - 1)
        BY <2>1
      <4>2. q + 2 <= ty
        <5>1. PICK d \in Nat, t \in Nat : d = dims /\ t = ty
          BY <2>1
        <5>2. q = d + 2 * (i - 1) /\ t = d + 2 * n
          BY <2>1, <3>1, <4>1, <5>1
        <5>3. q + 2 <= t
          BY ONLY <5>2, n \in Nat, d \in Nat, i \in 1 .. n, q \in Nat, t \in Nat
        <5> QED
          BY <5>1, <5>3
      <4>3. q + 2 <= Len(content)
        <5>1. Len(content) \in Nat
          BY CellsAre
        <5> QED
          BY <2>1, <4>2, <5>1
      <4> QED
        BY <4>1, <4>3, CellsAre
    <3> QED
      BY <3>1, <3>2
  <2> QED
    BY <2>2, <2>3, <2>4, <2>5 DEF TensorInfo
<1> QED
  BY <1>6, <1>7

LEMMA AlignedIs == ASSUME NEW n \in Nat PROVE AlignUp(n) \in Nat
<1>1. PICK a \in Nat \ {0} : a = Align
  BY GgufAssumption
<1>2. PICK m \in Nat : m = n + a - 1
  BY <1>1
<1>3. m \div a \in Nat
  BY <1>1, DivMod
<1>4. (m \div a) * a \in Nat
  BY <1>3
<1> QED
  BY <1>1, <1>2, <1>4 DEF AlignUp

LEMMA ReaderInvInit == ReaderInit => ReaderInv
<1> SUFFICES ASSUME ReaderInit PROVE ReaderInv
  OBVIOUS
<1>1. content \in Seq(0 .. Base - 1)
  <2>1. PICK w \in Written : content \in Stored(Encoded(w))
    BY DEF ReaderInit
  <2> QED
    BY <2>1, WrittenAssumption, StoredIs
<1> QED
  BY <1>1 DEF ReaderInit, ReaderInv, ReaderTypes

\* A step that goes on reading, or refuses the file.
LEMMA ReadingOn ==
  ASSUME ReaderInv, UNCHANGED given, pos' \in Nat, data_offset' \in Nat, tensors' \in Seq(TensorInfo), stage' # "ok"
  PROVE  ReaderInv'
BY DEF ReaderInv, ReaderTypes, given

LEMMA ReadHeaderKeepsInv == ReaderInv /\ ReadHeader => ReaderInv'
<1> SUFFICES ASSUME ReaderInv, ReadHeader PROVE ReaderInv'
  OBVIOUS
<1>1. UNCHANGED given /\ pos' \in Nat /\ data_offset' \in Nat /\ tensors' \in Seq(TensorInfo)
  BY DEF ReaderInv, ReaderTypes, ReadHeader, Fail
<1>2. stage' # "ok"
  BY DEF ReadHeader, Fail
<1> QED
  BY <1>1, <1>2, ReadingOn

LEMMA ReadMetadataKeepsInv == ReaderInv /\ ReadMetadata => ReaderInv'
<1> SUFFICES ASSUME ReaderInv, ReadMetadata PROVE ReaderInv'
  OBVIOUS
<1>1. PICK value, end, key : value = StringEnd(pos) /\ end = ValueEnd(value) /\ key = Cells(pos + 2, value)
  OBVIOUS
<1>2. /\ UNCHANGED given /\ stage = "metadata"
      /\ \/ end < 0 /\ Fail(ErrorName(end))
         \/ ~(end < 0) /\ Fail("DuplicateMetadataKey")
         \/ ~(end < 0) /\ pos' = end /\ UNCHANGED <<counts, tensors, data_offset, stage>>
  BY <1>1 DEF ReadMetadata
<1>3. end \in Ends
  <2>1. pos \in Ends /\ content \in Seq(0 .. Base - 1)
    BY DEF ReaderInv, ReaderTypes, Ends
  <2> QED
    BY <1>1, <2>1, StringEndIs, ValueEndIs
<1>4. pos' \in Nat /\ data_offset' \in Nat /\ tensors' \in Seq(TensorInfo)
  BY <1>2, <1>3, EndsAre DEF ReaderInv, ReaderTypes, Fail
<1>5. stage' # "ok"
  BY <1>2, <1>3, ErrorsAreNamed DEF Fail
<1> QED
  BY <1>2, <1>4, <1>5, ReadingOn

LEMMA CountTensorsKeepsInv == ReaderInv /\ CountTensors => ReaderInv'
<1> SUFFICES ASSUME ReaderInv, CountTensors PROVE ReaderInv'
  OBVIOUS
<1>1. UNCHANGED given /\ pos' \in Nat /\ data_offset' \in Nat /\ tensors' \in Seq(TensorInfo) /\ stage' # "ok"
  BY DEF ReaderInv, ReaderTypes, CountTensors, Fail
<1> QED
  BY <1>1, ReadingOn

LEMMA ReadTensorKeepsInv == ReaderInv /\ ReadTensor => ReaderInv'
<1> SUFFICES ASSUME ReaderInv, ReadTensor PROVE ReaderInv'
  OBVIOUS
<1>1. PICK ndim, dims : ndim = StringEnd(pos) /\ dims = Past(ndim, 1)
  OBVIOUS
<1>2. PICK ty, end : ty = (IF dims < 0 THEN dims ELSE Past(dims, 2 * U32(ndim))) /\ end = Past(Past(ty, 1), 2)
  OBVIOUS
<1>3. PICK read : read = [name |-> Cells(pos + 2, ndim), ty |-> U32(ty), offset |-> U64(ty + 1),
               dimensions |-> [i \in 1 .. U32(ndim) |-> U64(dims + 2 * (i - 1))]]
  OBVIOUS
<1>4. /\ UNCHANGED given /\ stage = "tensors"
      /\ \/ end < 0 /\ Fail(ErrorName(end))
         \/ ~(end < 0) /\ Fail("DuplicateTensorName")
         \/ ~(end < 0) /\ tensors' = Append(tensors, read) /\ pos' = end /\ UNCHANGED <<counts, metadata, data_offset, stage>>
  BY <1>1, <1>2, <1>3 DEF ReadTensor
<1>5. end \in Ends /\ (~(end < 0) => read \in TensorInfo)
  <2>1. pos \in Nat /\ content \in Seq(0 .. Base - 1)
    BY DEF ReaderInv, ReaderTypes
  <2> QED
    BY <1>1, <1>2, <1>3, <2>1, TensorRead
<1>6. pos' \in Nat /\ data_offset' \in Nat /\ tensors' \in Seq(TensorInfo)
  <2>1. pos \in Nat /\ data_offset \in Nat /\ tensors \in Seq(TensorInfo)
    BY DEF ReaderInv, ReaderTypes
  <2>2. \/ UNCHANGED <<pos, data_offset, tensors>>
        \/ ~(end < 0) /\ tensors' = Append(tensors, read) /\ pos' = end /\ data_offset' = data_offset
    BY <1>4 DEF Fail
  <2>3. ~(end < 0) => end \in Nat /\ read \in TensorInfo
    BY <1>5, EndsAre
  <2>4. read \in TensorInfo => Append(tensors, read) \in Seq(TensorInfo)
    BY ONLY <2>1, AppendProperties
  <2> QED
    BY <2>1, <2>2, <2>3, <2>4
<1>7. stage' # "ok"
  BY <1>4, <1>5, ErrorsAreNamed DEF Fail
<1> QED
  BY <1>4, <1>6, <1>7, ReadingOn

LEMMA AcceptedStays ==
  ASSUME NEW base, Accepted(base), tensors' = tensors, content' = content, data_offset' = base
  PROVE  Accepted(data_offset)'
BY DEF Accepted, Overlap, Neighbours, Before

LEMMA CheckLayoutKeepsInv == ReaderInv /\ CheckLayout => ReaderInv'
<1> SUFFICES ASSUME ReaderInv, CheckLayout PROVE ReaderInv'
  OBVIOUS
<1>1. PICK base \in Nat : base = AlignUp(pos)
  BY AlignedIs DEF ReaderInv, ReaderTypes
<1>2. /\ UNCHANGED given /\ UNCHANGED <<pos, counts, metadata, tensors>> /\ data_offset' = base
      /\ stage' = IF validate THEN LayoutError(base) ELSE "ok"
  BY <1>1 DEF CheckLayout
<1>3. ReaderTypes'
  BY <1>2 DEF ReaderInv, ReaderTypes, given
<1>4. ASSUME stage' = "ok", validate' PROVE Accepted(data_offset)'
  <2>1. LayoutError(base) = "ok"
    BY <1>2, <1>4 DEF given
  <2>2. Accepted(base)
    BY <2>1, NoErrorAccepts DEF ReaderInv
  <2> QED
    BY <2>2, <1>2, AcceptedStays DEF given
<1> QED
  BY <1>3, <1>4 DEF ReaderInv

LEMMA ReaderNextKeepsInv == ReaderInv /\ [ReaderNext]_readerVars => ReaderInv'
<1> SUFFICES ASSUME ReaderInv, [ReaderNext]_readerVars PROVE ReaderInv'
  OBVIOUS
<1>1. CASE UNCHANGED readerVars
  <2>1. UNCHANGED <<content, validate, pos, data_offset, tensors, stage>>
    BY <1>1 DEF readerVars
  <2>2. stage = "ok" /\ validate => Accepted(data_offset)'
    BY <2>1, AcceptedStays DEF ReaderInv
  <2> QED
    BY <2>1, <2>2 DEF ReaderInv, ReaderTypes
<1> QED
  BY <1>1, ReadHeaderKeepsInv, ReadMetadataKeepsInv, CountTensorsKeepsInv, ReadTensorKeepsInv, CheckLayoutKeepsInv
  DEF ReaderNext

LEMMA ReaderInvShows == ReaderInv => DataIsApart
BY LayoutIsApart DEF ReaderInv, DataIsApart

\* A file that parse lets through gives every tensor all of its data, and no
\* two tensors share a cell of it, for every file there may be.  The code
\* compares only neighbours in the order of their starts; a later tensor that
\* another one ran into would make it run into its neighbour as well.
THEOREM DataIsApartTheorem == ReaderSpec => []DataIsApart
<1>1. ReaderInit => ReaderInv
  BY ReaderInvInit
<1>2. ReaderInv /\ [ReaderNext]_readerVars => ReaderInv'
  BY ReaderNextKeepsInv
<1>3. ReaderInv => DataIsApart
  BY ReaderInvShows
<1> QED
  BY <1>1, <1>2, <1>3, PTL DEF ReaderSpec

-----------------------------------------------------------------------------
LEMMA FileStays ==
  ASSUME gguf' = gguf
  PROVE  /\ HasTokens' = HasTokens /\ TokenLen' = TokenLen
         /\ D' = D /\ DFf' = DFf /\ HeadCount' = HeadCount /\ HeadCountKv' = HeadCountKv /\ RopeDim' = RopeDim
         /\ ModelVocab' = ModelVocab /\ InfoVocab' = InfoVocab /\ TokenizeVocab' = TokenizeVocab
         /\ InfoOk' = InfoOk /\ Loads' = Loads
<1>1. Metadata' = Metadata
  BY DEF Metadata
<1>2. Arch' = Arch
  BY <1>1 DEF Arch
<1>3. HasTokens' = HasTokens /\ TokenLen' = TokenLen
  BY <1>1 DEF HasTokens, TokenLen, Has
<1>4. D' = D /\ DFf' = DFf /\ HeadCount' = HeadCount
  BY <1>1, <1>2 DEF D, DFf, HeadCount, Number, K, Has
<1>5. HeadCountKv' = HeadCountKv /\ HeadDim' = HeadDim
  BY <1>1, <1>2, <1>4 DEF HeadCountKv, HeadDim, Number, K, Has
<1>6. RopeDim' = RopeDim /\ HeadsFit' = HeadsFit
  BY <1>1, <1>2, <1>4, <1>5 DEF RopeDim, HeadsFit, Number, K, Has
<1>7. ConfigOk' = ConfigOk
  BY <1>1, <1>2, <1>4, <1>5, <1>6 DEF ConfigOk, Has, Required, Optional, Number, IsU32, IsFloat, Positive, K, BoolIs, Zero
<1>8. \A name : Named(name)' = Named(name)
  BY DEF Named
<1>9. \A name : Tensor(name)' = Tensor(name)
  BY DEF Tensor, Named
<1>10. EmbeddingRows' = EmbeddingRows
  BY <1>8, <1>9 DEF EmbeddingRows, Present
<1>11. ModelVocab' = ModelVocab /\ InfoVocab' = InfoVocab
  BY <1>1, <1>2, <1>3, <1>10 DEF ModelVocab, InfoVocab, FromKeys, VocabKeys, IsU32, K, Has
<1>12. TokenizeVocab' = TokenizeVocab
  BY <1>8, <1>9, <1>10 DEF TokenizeVocab, Present
<1>13. Vectors' = Vectors
  BY <1>1, <1>2, <1>4 DEF Vectors, Number, K, Has
<1>14. Biases' = Biases
  BY <1>1, <1>2, <1>4, <1>5 DEF Biases, Number, K, Has
<1>15. \A l : LayerMatrices(l)' = LayerMatrices(l)
  BY <1>4, <1>5 DEF LayerMatrices
<1>16. \A n : WeightMatrices(n)' = WeightMatrices(n)
  BY <1>1, <1>2, <1>4, <1>8, <1>15 DEF WeightMatrices, Present, Number, K, Has
<1>17. \A part, types : Fits(part, types)' = Fits(part, types)
  BY <1>8, <1>9 DEF Fits, Present
<1>18. \A part, types : Readable(part, types)' = Readable(part, types)
  BY <1>9, <1>17 DEF Readable
<1>19. InfoOk' = InfoOk
  BY <1>3, <1>7, <1>11, <1>13, <1>16, <1>17 DEF InfoOk
<1>20. Loads' = Loads
  BY <1>7, <1>11, <1>13, <1>14, <1>16, <1>8, <1>18 DEF Loads, Present
<1> QED
  BY <1>3, <1>4, <1>5, <1>6, <1>11, <1>12, <1>19, <1>20

-----------------------------------------------------------------------------
(***************************************************************************)
(* The three readings of one file.                                         *)
(***************************************************************************)
Loadable == HasTokens /\ Loads /\ ModelVocab = {TokenLen} /\ TokenLen + Escapes <= MaxSymbols
LoadedShapes == [vocab |-> TokenLen, config |-> << D, DFf, HeadCount, HeadCountKv, RopeDim >>]

LoadInv ==
  /\ gguf \in Ggufs /\ reading \in {"info", "load", "tokenize", "done"}
  /\ reading # "info" => info = InfoOk
  /\ reading \in {"info", "load"} => model = NoModel
  /\ reading \in {"tokenize", "done"} => model = IF Loadable THEN LoadedShapes ELSE NoModel
  /\ reading = "done" => tokenize = (HasTokens /\ TokenizeVocab = {TokenLen})

LEMMA LoadInvInit == LoadInit => LoadInv
BY DEF LoadInit, LoadInv

LEMMA LoadInvNext == LoadInv /\ [LoadNext]_loadVars => LoadInv'
<1> SUFFICES ASSUME LoadInv, [LoadNext]_loadVars PROVE LoadInv'
  OBVIOUS
<1>1. gguf' = gguf
  BY DEF LoadNext, ModelInfo, LoadModel, Tokenize, loadVars
<1>2. InfoOk' = InfoOk /\ HasTokens' = HasTokens /\ TokenLen' = TokenLen /\ TokenizeVocab' = TokenizeVocab
  BY <1>1, FileStays
<1>3. Loadable' = Loadable /\ LoadedShapes' = LoadedShapes
  BY <1>1, FileStays DEF Loadable, LoadedShapes
<1>4. NoModel' = NoModel
  BY DEF NoModel
<1>5. CASE ModelInfo
  BY <1>1, <1>2, <1>3, <1>4, <1>5 DEF LoadInv, ModelInfo
<1>6. CASE LoadModel
  <2>1. model' = IF Loadable THEN LoadedShapes ELSE NoModel
    BY <1>6 DEF LoadModel, Loadable, LoadedShapes
  <2> QED
    BY <1>1, <1>2, <1>3, <1>4, <1>6, <2>1 DEF LoadInv, LoadModel
<1>7. CASE Tokenize
  BY <1>1, <1>2, <1>3, <1>4, <1>7 DEF LoadInv, Tokenize
<1>8. CASE UNCHANGED loadVars
  BY <1>1, <1>2, <1>3, <1>4, <1>8 DEF LoadInv, loadVars
<1> QED
  BY <1>5, <1>6, <1>7, <1>8 DEF LoadNext

LEMMA ShapesAreSome == LoadedShapes # NoModel
<1>1. LoadedShapes.config # NoModel.config
  BY DEF LoadedShapes, NoModel
<1> QED
  BY <1>1

LEMMA VocabsAgree == HasTokens => ModelVocab = InfoVocab
BY DEF HasTokens, ModelVocab, InfoVocab

LEMMA TensorIsNamed ==
  ASSUME NEW name, Present(name)
  PROVE  \E i \in DOMAIN gguf.tensors : Tensor(name) = gguf.tensors[i]
<1>1. Tensor(name) \in Named(name)
  BY DEF Present, Tensor
<1> QED
  BY <1>1 DEF Named

LEMMA MisfitIsUnseen ==
  ASSUME NEW part, NEW types, Fits(part, types), ~Readable(part, types)
  PROVE  Unseen
<1>1. PICK i \in DOMAIN gguf.tensors : Tensor(part[1]) = gguf.tensors[i]
  BY TensorIsNamed DEF Fits
<1>2. part[2] = gguf.tensors[i].dimensions
  BY <1>1 DEF Fits
<1>3. ~(part[2][1] % Blocks[gguf.tensors[i].ty] = 0) \/ ~gguf.tensors[i].finite
  BY <1>1 DEF Readable
<1> QED
  BY <1>2, <1>3 DEF Unseen

\* What a model that loads has been found to be by model-info and tokenize.
LEMMA LoadableIsComplete ==
  ASSUME Loadable
  PROVE  InfoOk /\ TokenizeVocab = {TokenLen} /\ InfoVocab = {TokenLen}
<1>1. PICK n : n = TokenLen
  OBVIOUS
<1>2. (CHOOSE k \in ModelVocab : TRUE) = n
  BY <1>1 DEF Loadable
<1>3. \A part \in WeightMatrices(n) : Readable(part, Supported)
  BY <1>2 DEF Loadable, Loads
<1>4. InfoVocab = {n}
  BY <1>1, VocabsAgree DEF Loadable
<1>5. InfoOk
  BY <1>1, <1>3, <1>4 DEF InfoOk, Loadable, Loads, Readable
<1>6. ASSUME NEW name, << name, <<D, n>> >> \in WeightMatrices(n)
      PROVE  Present(name) /\ Len(Tensor(name).dimensions) = 2 /\ Tensor(name).dimensions[2] = n
  <2>1. Readable(<< name, <<D, n>> >>, Supported)
    BY <1>3, <1>6
  <2>2. Present(name) /\ Tensor(name).dimensions = <<D, n>>
    BY <2>1 DEF Readable, Fits
  <2> QED
    BY <2>2
<1>7. << <<0, "token_embd">>, <<D, n>> >> \in WeightMatrices(n)
  BY DEF WeightMatrices
<1>8. Present(<<0, "output">>) => << <<0, "output">>, <<D, n>> >> \in WeightMatrices(n)
  BY DEF WeightMatrices
<1>9. EmbeddingRows = {n}
  BY <1>6, <1>7 DEF EmbeddingRows
<1>10. TokenizeVocab = {n}
  BY <1>6, <1>8, <1>9 DEF TokenizeVocab
<1> QED
  BY <1>1, <1>4, <1>5, <1>10

\* What model-info finds complete and does not load has something it did not see.
LEMMA CompleteLoadsOrUnseen ==
  ASSUME InfoOk, ~Loadable
  PROVE  Unseen
<1>1. PICK n : n = TokenLen
  OBVIOUS
<1>2. HasTokens /\ ModelVocab = {n} /\ n + Escapes <= MaxSymbols /\ ConfigOk
  BY <1>1, VocabsAgree DEF InfoOk
<1>3. (CHOOSE k \in ModelVocab : TRUE) = n
  BY <1>2
<1>4. ~Loads
  BY <1>1, <1>2 DEF Loadable
<1>5. \/ \E part \in WeightMatrices(n) : ~Readable(part, Supported)
      \/ \E part \in Vectors : ~Readable(part, Dense)
      \/ \E part \in Biases : Present(part[1]) /\ ~Readable(part, Dense)
  BY <1>2, <1>3, <1>4 DEF Loads
<1>6. /\ \A part \in WeightMatrices(n) : Fits(part, Supported)
      /\ \A part \in Vectors : Fits(part, Dense)
  BY <1>1 DEF InfoOk
<1>7. ASSUME NEW part \in Biases, Present(part[1]), ~Fits(part, Dense) PROVE Unseen
  BY <1>7 DEF Unseen
<1> QED
  BY <1>5, <1>6, <1>7, MisfitIsUnseen

LEMMA LoadInvAgrees == LoadInv => ReadingsAgree
<1> SUFFICES ASSUME LoadInv, reading = "done" PROVE ReadingsAgree
  BY DEF ReadingsAgree
<1>1. info = InfoOk /\ tokenize = (HasTokens /\ TokenizeVocab = {TokenLen}) /\ model = IF Loadable THEN LoadedShapes ELSE NoModel
  BY DEF LoadInv
<1>2. ASSUME model # NoModel PROVE info /\ tokenize /\ ModelVocab = {model.vocab} /\ InfoVocab = {model.vocab}
  <2>1. Loadable /\ model = LoadedShapes
    BY <1>1, <1>2
  <2>2. model.vocab = TokenLen
    BY <2>1 DEF LoadedShapes
  <2> QED
    BY <1>1, <2>1, <2>2, LoadableIsComplete DEF Loadable
<1>3. ASSUME info, model = NoModel PROVE Unseen
  BY <1>1, <1>3, ShapesAreSome, CompleteLoadsOrUnseen
<1> QED
  BY <1>2, <1>3 DEF ReadingsAgree

-----------------------------------------------------------------------------
\* The numbers of a configuration that passed.
LEMMA NumbersAre ==
  ASSUME gguf \in Ggufs
  PROVE  \A key : Has(key) /\ IsU32(key) => Metadata[key].v \in Nat
BY ParsedAssumption DEF Has, IsU32, Metadata

LEMMA ConfigIs ==
  ASSUME gguf \in Ggufs, ConfigOk
  PROVE  /\ D \in Nat /\ HeadCount \in Nat \ {0} /\ HeadCountKv \in Nat \ {0} /\ RopeDim \in Nat \ {0}
         /\ D % HeadCount = 0 /\ HeadCount % HeadCountKv = 0 /\ RopeDim % 2 = 0 /\ RopeDim <= D \div HeadCount
<1>1. ASSUME NEW key, NEW default, Optional(key), default \in Nat PROVE Number(key, default) \in Nat
  BY <1>1, NumbersAre DEF Optional, Number
<1>2. ASSUME NEW key, Required(key) PROVE Number(key, 0) \in Nat
  BY <1>2, NumbersAre DEF Required, Number
<1>3. D \in Nat /\ HeadCount \in Nat
  <2>1. Required(K("embedding_length")) /\ Required(K("head_count"))
    BY DEF ConfigOk
  <2> QED
    BY <2>1, <1>2 DEF D, HeadCount
<1>4. HeadCount # 0 /\ D % HeadCount = 0 /\ HeadCountKv # 0 /\ HeadCount % HeadCountKv = 0
  BY DEF ConfigOk, HeadsFit
<1>5. Optional(K("head_count_kv")) /\ Optional(K("rope.dimension_count"))
  BY DEF ConfigOk
<1>6. HeadCountKv \in Nat
  BY <1>1, <1>3, <1>5 DEF HeadCountKv
<1>7. HeadDim \in Nat
  BY <1>3, <1>4, DivMod DEF HeadDim
<1>8. RopeDim \in Nat
  BY <1>1, <1>5, <1>7 DEF RopeDim
<1>9. RopeDim # 0 /\ RopeDim % 2 = 0 /\ RopeDim <= HeadDim
  BY DEF ConfigOk
<1> QED
  BY <1>3, <1>4, <1>6, <1>8, <1>9 DEF HeadDim

\* The heads that share a key head, one key head after the other.
LEMMA EveryKeyHead ==
  ASSUME NEW heads \in Nat \ {0}, NEW kv \in Nat \ {0}, heads % kv = 0
  PROVE  /\ kv \in 1 .. heads
         /\ { h \div (heads \div kv) : h \in 0 .. heads - 1 } = 0 .. kv - 1
<1>1. PICK q \in Nat : q = heads \div kv /\ heads = kv * q
  BY DivMod
<1>2. q # 0
  BY <1>1
<1>3. q >= 1 /\ kv * 1 <= kv * q
  BY <1>2, TimesMonotone
<1>4. kv \in 1 .. heads
  BY <1>1, <1>3
<1>5. ASSUME NEW h \in 0 .. heads - 1 PROVE h \div q \in 0 .. kv - 1
  <2>1. h \in Nat /\ q * 0 <= h /\ h < q * 0 + q * kv
    BY <1>1
  <2>2. h \div q \in Nat /\ h \div q < 0 + kv
    BY <1>3, <2>1, QuotientBetween
  <2> QED
    BY <2>2
<1>6. ASSUME NEW v \in 0 .. kv - 1 PROVE \E h \in 0 .. heads - 1 : v = h \div q
  <2>1. v \in Nat /\ v + 1 \in Nat /\ v + 1 <= kv
    OBVIOUS
  <2>2. q * (v + 1) <= q * kv /\ q * v \in Nat
    BY <2>1, TimesMonotone
  <2>3. q * (v + 1) = q * v + q
    BY <2>1
  <2>4. q * v \in 0 .. heads - 1
    BY <1>1, <1>3, <2>2, <2>3
  <2>5. (q * v) \div q = v
    <3>1. PICK a \in Nat : a = q * v
      BY <2>2
    <3>2. a = q * v + 0 /\ 0 \in 0 .. q - 1 /\ v \in Int
      BY <1>3, <2>1, <3>1
    <3>3. a \div q = v
      BY <1>3, <3>2, DivModUnique
    <3> QED
      BY <3>1, <3>3
  <2> QED
    BY <2>4, <2>5
<1>7. { h \div q : h \in 0 .. heads - 1 } = 0 .. kv - 1
  <2>1. \A v : v \in { h \div q : h \in 0 .. heads - 1 } <=> v \in 0 .. kv - 1
    BY <1>5, <1>6
  <2> QED
    BY <2>1
<1> QED
  BY <1>1, <1>4, <1>7

LEMMA LoadInvUsable == LoadInv => ShapesAreUsable
<1> SUFFICES ASSUME LoadInv, model # NoModel PROVE ShapesAreUsable
  BY DEF ShapesAreUsable
<1>1. Loadable /\ model = LoadedShapes
  BY DEF LoadInv
<1>2. ConfigOk /\ gguf \in Ggufs
  BY <1>1 DEF Loadable, Loads, LoadInv
<1>3. PICK d \in Nat, heads \in Nat \ {0}, kv \in Nat \ {0}, rope \in Nat \ {0} :
        /\ d = D /\ heads = HeadCount /\ kv = HeadCountKv /\ rope = RopeDim
        /\ d % heads = 0 /\ heads % kv = 0 /\ rope % 2 = 0 /\ rope <= d \div heads
  BY <1>2, ConfigIs
<1>4. model.config[1] = d /\ model.config[3] = heads /\ model.config[4] = kv /\ model.config[5] = rope
  BY <1>1, <1>3 DEF LoadedShapes
<1>5. heads * (d \div heads) = d /\ d \div heads \in Nat
  BY <1>3, DivMod
<1>6. rope \in 2 .. d \div heads /\ 2 * (rope \div 2) = rope
  BY <1>3, <1>5
<1>7. kv \in 1 .. heads /\ { h \div (heads \div kv) : h \in 0 .. heads - 1 } = 0 .. kv - 1
  BY <1>3, EveryKeyHead
<1> QED
  BY <1>4, <1>5, <1>6, <1>7 DEF ShapesAreUsable

\* The three pieces of code that read a model's file agree on every file that
\* parse lets through: what load accepts is complete for model-info and
\* tokenize, with the same vocabulary, and what model-info calls complete
\* loads, or has something wrong with it that model-info does not look at.
THEOREM ReadingsAgreeTheorem == LoadSpec => []ReadingsAgree
<1>1. LoadInv => ReadingsAgree
  BY LoadInvAgrees
<1> QED
  BY LoadInvInit, LoadInvNext, <1>1, PTL DEF LoadSpec

\* Whatever the metadata of a file says, the shapes of the model that
\* from_gguf makes of it are such that the forward pass may divide and slice by
\* them: its heads fill the embedding, every head finds a key head and every
\* key head is used, and what is rotated are pairs within a head.
THEOREM ShapesAreUsableTheorem == LoadSpec => []ShapesAreUsable
<1>1. LoadInv => ShapesAreUsable
  BY LoadInvUsable
<1> QED
  BY LoadInvInit, LoadInvNext, <1>1, PTL DEF LoadSpec

-----------------------------------------------------------------------------
(***************************************************************************)
(* The heap of candidate pairs makes the merges of the rank scan, for      *)
(* every merge table and every input.  The invariant is the conjunction of *)
(* the checked ones: a pair that a merge creates is found through the      *)
(* links, so that the heap stays complete only as long as the links name   *)
(* the live neighbours.  The output then spells the input, since every     *)
(* live token spells the bytes up to the next live position.               *)
(***************************************************************************)
BpeInv == TypeOK /\ LinksAreNeighbours /\ CandidatesInHeap

\* A position has one neighbour on each side.
LEMMA NeighbourUnique ==
  ASSUME NEW S \in SUBSET Int, NEW i, NEW j, NEW k
  PROVE  /\ Adjacent(S, i, j) /\ Adjacent(S, i, k) => j = k
         /\ Adjacent(S, i, k) /\ Adjacent(S, j, k) => i = j
<1>1. ASSUME Adjacent(S, i, j), Adjacent(S, i, k) PROVE j = k
  <2>1. j \in Int /\ k \in Int /\ ~(j < k) /\ ~(k < j)
    BY <1>1 DEF Adjacent
  <2> QED
    BY <2>1
<1>2. ASSUME Adjacent(S, i, k), Adjacent(S, j, k) PROVE i = j
  <2>1. i \in Int /\ j \in Int /\ ~(i < j) /\ ~(j < i)
    BY <1>2 DEF Adjacent
  <2> QED
    BY <2>1
<1> QED
  BY <1>1, <1>2

LEMMA NeighbourOrder ==
  ASSUME NEW S \in SUBSET Int, NEW a, NEW b, Adjacent(S, a, b)
  PROVE  /\ a \in S /\ b \in S /\ a # b /\ ~(b <= a)
         /\ \A j \in S \ {b} : j <= b => j <= a
<1>1. a \in Int /\ b \in Int /\ a \in S /\ b \in S /\ a < b
  BY DEF Adjacent
<1>2. ASSUME NEW j \in S \ {b}, j <= b PROVE j <= a
  <2>1. j \in Int /\ ~(a < j /\ j < b)
    BY DEF Adjacent
  <2> QED
    BY <1>1, <1>2, <2>1
<1> QED
  BY <1>1, <1>2

LEMMA InitInv == Init => BpeInv
<1> SUFFICES ASSUME Init PROVE BpeInv
  OBVIOUS
<1> USE MergeAssumption
<1>1. PICK n \in 0 .. MaxLen :
        /\ ids \in [1 .. n -> ByteTokens]
        /\ input = [i \in 1 .. n |-> Pieces[ids[i]][1]]
        /\ prev = [i \in 1 .. n |-> i - 1]
        /\ next = [i \in 1 .. n |-> IF i = n THEN 0 ELSE i + 1]
        /\ alive = 1 .. n
        /\ heap = UNION { Pushed(merge_ranks, ids, i, i + 1) : i \in 1 .. n - 1 }
        /\ IF n < 2 THEN pc = "done" /\ out = ids /\ index = 0
                    ELSE pc = "merge" /\ out = <<>> /\ index = 1
  BY DEF Init
<1>2. TypeOK
  <2>1. merge_ranks \in MergeTables
    BY DEF Init
  <2>2. ids \in [1 .. n -> Ids] /\ input \in [1 .. n -> Byte]
    <3>1. ASSUME NEW i \in 1 .. n PROVE Pieces[ids[i]][1] \in Byte
      <4>1. ids[i] \in ByteTokens /\ Pieces[ids[i]] \in Seq(Byte) /\ Len(Pieces[ids[i]]) = 1
        BY <1>1
      <4>2. PICK piece : piece = Pieces[ids[i]]
        OBVIOUS
      <4>3. piece[1] \in Byte
        BY <4>1, <4>2
      <4> QED
        BY <4>2, <4>3
    <3> QED
      BY <1>1, <3>1
  <2>3. /\ prev \in [1 .. n -> 0 .. n] /\ next \in [1 .. n -> 0 .. n]
        /\ alive \subseteq 1 .. n /\ index \in 0 .. n
    BY <1>1
  <2>4. heap \subseteq [rank : Nat, index : 1 .. n, id : Ids]
    <3> SUFFICES ASSUME NEW e \in heap PROVE e \in [rank : Nat, index : 1 .. n, id : Ids]
      OBVIOUS
    <3>1. PICK i \in 1 .. n - 1 : e \in Pushed(merge_ranks, ids, i, i + 1)
      BY <1>1
    <3>2. <<ids[i], ids[i + 1]>> \in DOMAIN merge_ranks
          /\ e = Entry(merge_ranks, i, <<ids[i], ids[i + 1]>>)
      BY <3>1 DEF Pushed
    <3>3. merge_ranks[<<ids[i], ids[i + 1]>>] \in [rank : Nat, id : Ids]
      BY <2>1, <3>2
    <3> QED
      BY <3>2, <3>3 DEF Entry
  <2>5. out \in Seq(Ids) /\ pc \in {"merge", "walk", "done"}
    <3>1. CASE n < 2
      <4>1. out \in [1 .. n -> Ids] /\ n \in Nat
        BY <3>1, <1>1, <2>2
      <4> QED
        BY <4>1, <3>1, <1>1
    <3>2. CASE ~(n < 2)
      BY <3>2, <1>1
    <3> QED
      BY <3>1, <3>2
  <2> QED
    BY <2>1, <2>2, <2>3, <2>4, <2>5 DEF TypeOK
<1>3. LinksAreNeighbours
  BY <1>1 DEF LinksAreNeighbours, Adjacent
<1>4. CandidatesInHeap
  <2> SUFFICES ASSUME NEW i \in alive, NEW j \in alive, Adjacent(alive, i, j),
                      <<ids[i], ids[j]>> \in DOMAIN merge_ranks
               PROVE  Entry(merge_ranks, i, <<ids[i], ids[j]>>) \in heap
    BY DEF CandidatesInHeap
  <2>1. j = i + 1 /\ i \in 1 .. n - 1
    <3>1. i \in 1 .. n /\ j \in 1 .. n /\ i < j
      BY <1>1 DEF Adjacent
    <3>2. i + 1 \in alive
      BY <3>1, <1>1
    <3> QED
      BY <3>1, <3>2 DEF Adjacent
  <2>2. Entry(merge_ranks, i, <<ids[i], ids[j]>>) \in Pushed(merge_ranks, ids, i, i + 1)
    <3>1. i + 1 # 0
      BY <2>1
    <3> QED
      BY <2>1, <3>1 DEF Pushed
  <2> QED
    BY <1>1, <2>1, <2>2
<1> QED
  BY <1>2, <1>3, <1>4 DEF BpeInv

-----------------------------------------------------------------------------
(***************************************************************************)
(* One merge.                                                              *)
(***************************************************************************)
\* What a merge of e reads: the entry is the pair of two neighbours.
LEMMA MergeReads ==
  ASSUME BpeInv, NEW e \in heap, Current(e)
  PROVE  LET right == next[e.index]
             pair  == <<ids[e.index], ids[right]>>
         IN  /\ Adjacent(alive, e.index, right)
             /\ pair \in DOMAIN merge_ranks
             /\ e.rank = merge_ranks[pair].rank /\ e.id = merge_ranks[pair].id
             /\ e.id \in Ids
<1>1. Adjacent(alive, e.index, next[e.index])
  BY DEF BpeInv, LinksAreNeighbours, Current
<1>2. e = Entry(merge_ranks, e.index, <<ids[e.index], ids[next[e.index]]>>)
      /\ <<ids[e.index], ids[next[e.index]]>> \in DOMAIN merge_ranks
  BY DEF Current
<1>3. e.id \in Ids
  BY DEF BpeInv, TypeOK
<1> QED
  BY <1>1, <1>2, <1>3 DEF Entry

\* Which positions are neighbours once right is merged away.
LEMMA MergedNeighbours ==
  ASSUME NEW S \in SUBSET Int, NEW i, NEW right, Adjacent(S, i, right),
         NEW T, T = S \ {right}, NEW a, NEW b, Adjacent(T, a, b)
  PROVE  \/ Adjacent(S, a, b) /\ a # i
         \/ a = i /\ Adjacent(S, right, b)
<1>1. CASE Adjacent(S, a, b)
  BY <1>1 DEF Adjacent
<1>2. CASE ~Adjacent(S, a, b)
  <2>1. a < right /\ right < b
    BY <1>2 DEF Adjacent
  <2>2. a = i
    BY <2>1 DEF Adjacent
  <2> QED
    BY <2>1, <2>2 DEF Adjacent
<1> QED
  BY <1>1, <1>2

LEMMA Bridged ==
  ASSUME NEW S \in SUBSET Int, NEW i, NEW right, NEW after,
         Adjacent(S, i, right), Adjacent(S, right, after)
  PROVE  Adjacent(S \ {right}, i, after)
<1>1. i \in Int /\ right \in Int /\ after \in Int
  BY DEF Adjacent
<1>2. ASSUME NEW k \in S \ {right}, i < k, k < after PROVE FALSE
  <2>1. k \in Int /\ ~(k < right) /\ ~(right < k)
    BY <1>2 DEF Adjacent
  <2> QED
    BY <1>1, <2>1
<1> QED
  BY <1>1, <1>2 DEF Adjacent

LEMMA MergeType ==
  ASSUME BpeInv, NEW e \in heap, Merge(e)
  PROVE  TypeOK'
<1> USE MergeAssumption
<1> DEFINE right == next[e.index]
           after == next[right]
<1>1. PICK n \in 0 .. MaxLen :
        /\ ids \in [1 .. n -> Ids] /\ input \in [1 .. n -> Byte]
        /\ prev \in [1 .. n -> 0 .. n] /\ next \in [1 .. n -> 0 .. n]
        /\ alive \subseteq 1 .. n /\ index \in 0 .. n
        /\ heap \subseteq [rank : Nat, index : 1 .. n, id : Ids]
  BY DEF BpeInv, TypeOK
<1>2. e.index \in 1 .. n /\ right \in 1 .. n /\ after \in 0 .. n /\ e.id \in Ids
  <2>1. right \in alive /\ e.index \in alive
    BY DEF Merge, Current
  <2> QED
    BY <1>1, <2>1
<1>3. /\ ids' = [ids EXCEPT ![e.index] = e.id]
      /\ alive' = alive \ {right}
      /\ next' = [next EXCEPT ![e.index] = after]
      /\ prev' = Relinked(after, e.index)
      /\ heap' = (heap \ {e}) \cup NewPairs(e, ids', after)
      /\ UNCHANGED <<merge_ranks, input, index, out, pc>>
  BY DEF Merge
<1>4. ids' \in [1 .. n -> Ids] /\ next' \in [1 .. n -> 0 .. n] /\ alive' \subseteq 1 .. n
  <2>1. ids' \in [1 .. n -> Ids]
    BY ONLY <1>1, <1>2, <1>3
  <2>2. next' \in [1 .. n -> 0 .. n]
    BY ONLY <1>2, <1>3, <1>1
  <2>3. alive' \subseteq 1 .. n
    BY <1>1, <1>3
  <2> QED
    BY <2>1, <2>2, <2>3
<1>5. prev' \in [1 .. n -> 0 .. n]
  <2>1. Relinked(after, e.index) \in [1 .. n -> 0 .. n]
    <3>1. after # 0 => after \in 1 .. n
      BY <1>2
    <3>2. prev \in [1 .. n -> 0 .. n] /\ e.index \in 0 .. n
      BY <1>1, <1>2
    <3> QED
      BY ONLY <3>1, <3>2 DEF Relinked
  <2> QED
    BY <1>3, <2>1
<1>6. merge_ranks \in MergeTables
  BY DEF BpeInv, TypeOK
<1>7. ASSUME NEW left \in 1 .. n, NEW other \in 0 .. n
      PROVE  Pushed(merge_ranks, ids', left, other)
               \subseteq [rank : Nat, index : 1 .. n, id : Ids]
  <2> DEFINE pair == <<ids'[left], ids'[other]>>
  <2>1. CASE other # 0 /\ pair \in DOMAIN merge_ranks
    <3>1. merge_ranks[pair] \in [rank : Nat, id : Ids]
      BY <1>6, <2>1
    <3>2. Entry(merge_ranks, left, pair) \in [rank : Nat, index : 1 .. n, id : Ids]
      BY <3>1 DEF Entry
    <3> QED
      BY <2>1, <3>2 DEF Pushed
  <2> QED
    BY <2>1 DEF Pushed
<1>8. heap' \subseteq [rank : Nat, index : 1 .. n, id : Ids]
  <2>1. prev[e.index] # 0 => prev[e.index] \in 1 .. n
    BY <1>1, <1>2
  <2>2. NewPairs(e, ids', after) \subseteq [rank : Nat, index : 1 .. n, id : Ids]
    BY <1>2, <1>7, <2>1 DEF NewPairs
  <2> QED
    BY <1>1, <1>3, <2>2
<1> QED
  BY <1>1, <1>3, <1>4, <1>5, <1>8 DEF TypeOK, BpeInv

LEMMA MergeLinks ==
  ASSUME BpeInv, NEW e \in heap, Merge(e)
  PROVE  LinksAreNeighbours'
<1> DEFINE i     == e.index
           right == next[i]
           after == next[right]
<1>1. PICK n \in 0 .. MaxLen :
        /\ prev \in [1 .. n -> 0 .. n] /\ next \in [1 .. n -> 0 .. n]
        /\ alive \subseteq 1 .. n
  BY DEF BpeInv, TypeOK
<1>2. Adjacent(alive, i, right)
  BY MergeReads DEF Merge
<1>3. /\ alive' = alive \ {right}
      /\ next' = [next EXCEPT ![i] = after]
      /\ prev' = IF after = 0 THEN prev ELSE [prev EXCEPT ![after] = i]
  BY DEF Merge, Relinked
<1>4. /\ after = 0 => \A j \in alive : j <= right
      /\ after # 0 => Adjacent(alive, right, after)
  BY <1>2 DEF BpeInv, LinksAreNeighbours, Adjacent
<1>5. ASSUME NEW a, NEW b, Adjacent(alive, a, b), a # right, b # right
      PROVE  Adjacent(alive', a, b)
  BY <1>3, <1>5 DEF Adjacent
<1>6. after # 0 => Adjacent(alive', i, after)
  <2>1. alive \in SUBSET Int
    BY <1>1
  <2> QED
    BY <2>1, <1>2, <1>3, <1>4, Bridged
<1> SUFFICES ASSUME NEW x \in alive'
             PROVE  /\ IF next'[x] = 0 THEN \A j \in alive' : j <= x ELSE Adjacent(alive', x, next'[x])
                    /\ IF prev'[x] = 0 THEN \A j \in alive' : x <= j ELSE Adjacent(alive', prev'[x], x)
  BY DEF LinksAreNeighbours, Adjacent
<1>7. x \in alive /\ x # right /\ x \in 1 .. n /\ i \in 1 .. n /\ i # right
  BY <1>1, <1>2, <1>3 DEF Adjacent
<1>8. /\ IF next[x] = 0 THEN \A j \in alive : j <= x ELSE Adjacent(alive, x, next[x])
      /\ IF prev[x] = 0 THEN \A j \in alive : x <= j ELSE Adjacent(alive, prev[x], x)
  BY <1>7 DEF BpeInv, LinksAreNeighbours
<1>9. IF next'[x] = 0 THEN \A j \in alive' : j <= x ELSE Adjacent(alive', x, next'[x])
  <2>1. CASE x = i
    <3>1. next'[x] = after
      BY <2>1, <1>1, <1>3, <1>7
    <3>2. CASE after = 0
      <4>1. \A j \in alive' : j <= i
        <5>1. alive \in SUBSET Int /\ \A j \in alive : j <= right
          BY <3>2, <1>1, <1>4
        <5>2. \A j \in alive \ {right} : j <= right => j <= i
          BY <5>1, <1>2, NeighbourOrder
        <5> QED
          BY <5>1, <5>2, <1>3
      <4> QED
        BY <2>1, <3>1, <3>2, <4>1
    <3>3. CASE after # 0
      BY <2>1, <3>1, <3>3, <1>6
    <3> QED
      BY <3>2, <3>3
  <2>2. CASE x # i
    <3>1. next'[x] = next[x]
      BY <2>2, <1>1, <1>3, <1>7
    <3>2. CASE next[x] = 0
      BY <3>1, <3>2, <1>3, <1>8
    <3>3. CASE next[x] # 0
      <4>1. Adjacent(alive, x, next[x])
        BY <3>3, <1>8
      <4>2. next[x] # right
        <5>1. alive \in SUBSET Int
          BY <1>1
        <5> QED
          BY <5>1, <4>1, <2>2, <1>2, NeighbourUnique
      <4> QED
        BY <3>1, <3>3, <4>1, <4>2, <1>5, <1>7
    <3> QED
      BY <3>2, <3>3
  <2> QED
    BY <2>1, <2>2
<1>10. IF prev'[x] = 0 THEN \A j \in alive' : x <= j ELSE Adjacent(alive', prev'[x], x)
  <2>1. CASE after # 0 /\ x = after
    <3>1. prev'[x] = i /\ i # 0
      BY <2>1, <1>1, <1>3, <1>7
    <3> QED
      BY <2>1, <3>1, <1>6
  <2>2. CASE ~(after # 0 /\ x = after)
    <3>1. prev'[x] = prev[x]
      BY <2>2, <1>1, <1>3, <1>7
    <3>2. CASE prev[x] = 0
      BY <3>1, <3>2, <1>3, <1>8
    <3>3. CASE prev[x] # 0
      <4>1. Adjacent(alive, prev[x], x)
        BY <3>3, <1>8
      <4>2. prev[x] # right
        <5> SUFFICES ASSUME Adjacent(alive, right, x) PROVE FALSE
          BY <4>1
        <5>1. after # 0
          <6>1. alive \in SUBSET Int
            BY <1>1
          <6>2. ~(x <= right)
            BY <6>1, NeighbourOrder
          <6> QED
            BY <6>2, <1>4, <1>7
        <5> QED
          <6>1. alive \in SUBSET Int /\ Adjacent(alive, right, after)
            BY <5>1, <1>1, <1>4
          <6>2. x = after
            BY <6>1, NeighbourUnique
          <6> QED
            BY <6>2, <5>1, <2>2
      <4> QED
        BY <3>1, <3>3, <4>1, <4>2, <1>5, <1>7
    <3> QED
      BY <3>2, <3>3
  <2> QED
    BY <2>1, <2>2
<1> QED
  BY <1>9, <1>10

LEMMA MergeCandidates ==
  ASSUME BpeInv, NEW e \in heap, Merge(e)
  PROVE  CandidatesInHeap'
<1> DEFINE i     == e.index
           right == next[i]
           after == next[right]
<1>1. PICK n \in 0 .. MaxLen :
        /\ ids \in [1 .. n -> Ids] /\ input \in [1 .. n -> Byte]
        /\ prev \in [1 .. n -> 0 .. n] /\ next \in [1 .. n -> 0 .. n]
        /\ alive \subseteq 1 .. n
  BY DEF BpeInv, TypeOK
<1>2. Adjacent(alive, i, right)
  BY MergeReads DEF Merge
<1>3. /\ ids' = [ids EXCEPT ![i] = e.id]
      /\ alive' = alive \ {right}
      /\ heap' = (heap \ {e}) \cup NewPairs(e, ids', after)
      /\ merge_ranks' = merge_ranks
  BY DEF Merge
<1> SUFFICES ASSUME NEW a \in alive', NEW b \in alive', Adjacent(alive', a, b),
                    <<ids'[a], ids'[b]>> \in DOMAIN merge_ranks
             PROVE  Entry(merge_ranks, a, <<ids'[a], ids'[b]>>) \in heap'
  BY <1>3 DEF CandidatesInHeap
<1>4. a \in 1 .. n /\ b \in 1 .. n /\ i \in 1 .. n
  BY <1>1, <1>2, <1>3 DEF Adjacent
<1>5. (Adjacent(alive, a, b) /\ a # i) \/ (a = i /\ Adjacent(alive, right, b))
  <2>1. alive \in SUBSET Int
    BY <1>1
  <2>2. Adjacent(alive', a, b) /\ alive' = alive \ {right}
    BY <1>3
  <2> QED
    BY <2>1, <2>2, <1>2, MergedNeighbours
<1>6. CASE a = i /\ Adjacent(alive, right, b)
  <2>1. b = after /\ after # 0
    <3>1. /\ after = 0 => \A j \in alive : j <= right
          /\ after # 0 => Adjacent(alive, right, after)
      BY <1>2 DEF BpeInv, LinksAreNeighbours, Adjacent
    <3>2. after # 0
      <4>1. alive \in SUBSET Int
        BY <1>1
      <4>2. ~(b <= right) /\ b \in alive
        BY <4>1, <1>6, NeighbourOrder
      <4> QED
        BY <4>2, <3>1
    <3> QED
      <4>1. /\ alive \in SUBSET Int
            /\ Adjacent(alive, right, b) /\ Adjacent(alive, right, after)
        BY <1>1, <1>6, <3>1, <3>2
      <4>2. b = after
        BY <4>1, NeighbourUnique
      <4> QED
        BY <4>2, <3>2
  <2>2. Entry(merge_ranks, a, <<ids'[a], ids'[b]>>) \in Pushed(merge_ranks, ids', i, after)
    BY <2>1, <1>6 DEF Pushed
  <2> QED
    BY <2>2, <1>3 DEF NewPairs
<1>7. CASE Adjacent(alive, a, b) /\ a # i /\ b = i
  <2>1. a = prev[i] /\ prev[i] # 0
    <3>1. /\ prev[i] = 0 => \A j \in alive : i <= j
          /\ prev[i] # 0 => Adjacent(alive, prev[i], i)
      BY <1>2 DEF BpeInv, LinksAreNeighbours, Adjacent
    <3>2. prev[i] # 0
      <4>1. alive \in SUBSET Int
        BY <1>1
      <4>2. ~(i <= a) /\ a \in alive
        BY <4>1, <1>7, NeighbourOrder
      <4> QED
        BY <4>2, <3>1
    <3> QED
      <4>1. alive \in SUBSET Int /\ Adjacent(alive, a, i) /\ Adjacent(alive, prev[i], i)
        BY <1>1, <1>7, <3>1, <3>2
      <4>2. a = prev[i]
        BY <4>1, NeighbourUnique
      <4> QED
        BY <4>2, <3>2
  <2>2. Entry(merge_ranks, a, <<ids'[a], ids'[b]>>) \in Pushed(merge_ranks, ids', prev[i], i)
    BY <2>1, <1>4, <1>7 DEF Pushed
  <2> QED
    BY <2>1, <2>2, <1>3 DEF NewPairs
<1>8. CASE Adjacent(alive, a, b) /\ a # i /\ b # i
  <2>1. ids'[a] = ids[a] /\ ids'[b] = ids[b]
    BY <1>1, <1>3, <1>4, <1>8
  <2>2. Entry(merge_ranks, a, <<ids[a], ids[b]>>) \in heap
    BY <2>1, <1>8 DEF BpeInv, CandidatesInHeap, Adjacent
  <2>3. Entry(merge_ranks, a, <<ids[a], ids[b]>>).index = a
    BY DEF Entry
  <2> QED
    BY <2>1, <2>2, <2>3, <1>3, <1>8
<1> QED
  BY <1>5, <1>6, <1>7, <1>8

\* A stale entry is no pair of neighbours, so dropping it loses none.
LEMMA SkipInv ==
  ASSUME BpeInv, NEW e \in heap, Skip(e)
  PROVE  BpeInv'
<1>1. heap' = heap \ {e} /\ UNCHANGED <<merge_ranks, input, ids, prev, next, alive, index, out, pc>>
  BY DEF Skip, list
<1>2. TypeOK'
  BY <1>1 DEF BpeInv, TypeOK
<1>3. LinksAreNeighbours'
  BY <1>1 DEF BpeInv, LinksAreNeighbours, Adjacent
<1>4. CandidatesInHeap'
  <2> SUFFICES ASSUME NEW a \in alive, NEW b \in alive, Adjacent(alive, a, b),
                      <<ids[a], ids[b]>> \in DOMAIN merge_ranks
               PROVE  Entry(merge_ranks, a, <<ids[a], ids[b]>>) \in heap \ {e}
    BY <1>1 DEF CandidatesInHeap, Adjacent
  <2>1. Entry(merge_ranks, a, <<ids[a], ids[b]>>) \in heap
    BY DEF BpeInv, CandidatesInHeap
  <2>2. ASSUME e = Entry(merge_ranks, a, <<ids[a], ids[b]>>) PROVE FALSE
    <3>1. e.index = a
      BY <2>2 DEF Entry
    <3>2. PICK n \in 0 .. MaxLen : alive \subseteq 1 .. n
      BY DEF BpeInv, TypeOK
    <3>3. next[a] # 0 /\ Adjacent(alive, a, next[a])
      BY <3>2 DEF BpeInv, LinksAreNeighbours, Adjacent
    <3>4. next[a] = b /\ b # 0
      BY <3>2, <3>3, NeighbourUnique
    <3>5. Current(e)
      BY <2>2, <3>1, <3>4 DEF Current
    <3> QED
      BY <3>5 DEF Skip
  <2> QED
    BY <2>1, <2>2
<1> QED
  BY <1>2, <1>3, <1>4 DEF BpeInv

LEMMA StepInv == BpeInv /\ [Next]_vars => BpeInv'
<1> SUFFICES ASSUME BpeInv, [Next]_vars PROVE BpeInv'
  OBVIOUS
<1>1. ASSUME NEW e \in heap, Skip(e) PROVE BpeInv'
  BY <1>1, SkipInv
<1>2. ASSUME NEW e \in heap, Merge(e) PROVE BpeInv'
  BY <1>2, MergeType, MergeLinks, MergeCandidates DEF BpeInv
<1>3. ASSUME UNCHANGED <<merge_ranks, ids, prev, next, alive, heap>>, TypeOK' PROVE BpeInv'
  BY <1>3 DEF BpeInv, LinksAreNeighbours, CandidatesInHeap, Adjacent
<1>4. CASE MergesDone
  BY <1>4, <1>3 DEF MergesDone, list, BpeInv, TypeOK
<1>5. CASE Walk
  <2>1. UNCHANGED <<merge_ranks, input, ids, prev, next, alive, heap, pc>>
    BY <1>5 DEF Walk, list
  <2>2. PICK n \in 0 .. MaxLen :
          /\ ids \in [1 .. n -> Ids] /\ input \in [1 .. n -> Byte]
          /\ prev \in [1 .. n -> 0 .. n] /\ next \in [1 .. n -> 0 .. n]
          /\ alive \subseteq 1 .. n /\ index \in 0 .. n
          /\ heap \subseteq [rank : Nat, index : 1 .. n, id : Ids]
    BY DEF BpeInv, TypeOK
  <2>3. index' \in 0 .. n
    BY <1>5, <2>2 DEF Walk
  <2>4. out' \in Seq(Ids)
    <3>1. ids[index] \in Ids
      BY <1>5, <2>2 DEF Walk
    <3>2. out \in Seq(Ids)
      BY DEF BpeInv, TypeOK
    <3> QED
      BY <1>5, <3>1, <3>2 DEF Walk
  <2>5. TypeOK'
    BY <2>1, <2>2, <2>3, <2>4 DEF BpeInv, TypeOK
  <2> QED
    BY <2>1, <2>5, <1>3
<1>6. CASE WalkDone
  BY <1>6, <1>3 DEF WalkDone, list, BpeInv, TypeOK
<1>7. CASE UNCHANGED vars
  BY <1>7, <1>3 DEF vars, list, BpeInv, TypeOK
<1> QED
  BY <1>1, <1>2, <1>4, <1>5, <1>6, <1>7 DEF Next

LEMMA Invariance == Spec => []BpeInv
<1>1. Init => BpeInv
  BY InitInv
<1>2. BpeInv /\ [Next]_vars => BpeInv'
  BY StepInv
<1> QED
  BY <1>1, <1>2, PTL DEF Spec

-----------------------------------------------------------------------------
(***************************************************************************)
(* The state of the loop has the types of the code, and an entry of the    *)
(* heap names a position and a token.                                      *)
(***************************************************************************)
THEOREM TypeCorrect == Spec => []TypeOK
BY Invariance, PTL DEF BpeInv

(***************************************************************************)
(* Merging positions away keeps the links between the live ones.           *)
(***************************************************************************)
THEOREM LinksSound == Spec => []LinksAreNeighbours
BY Invariance, PTL DEF BpeInv

(***************************************************************************)
(* The heap holds every pair of neighbours that has a merge.               *)
(***************************************************************************)
THEOREM HeapComplete == Spec => []CandidatesInHeap
BY Invariance, PTL DEF BpeInv

-----------------------------------------------------------------------------
(***************************************************************************)
(* The refinement.                                                         *)
(***************************************************************************)
Left == [p \in alive |-> ids[p]]

LEMMA InitScans == Init => Scan!Init
<1> SUFFICES ASSUME Init PROVE Scan!Init
  OBVIOUS
<1>1. PICK n \in 0 .. MaxLen : ids \in [1 .. n -> ByteTokens] /\ alive = 1 .. n
  BY DEF Init
<1>2. Left \in [1 .. n -> ByteTokens]
  BY <1>1 DEF Left
<1> QED
  BY <1>2 DEF Scan!Init, Left, Init

\* Adjacent that the rank scan may merge have an entry in the heap.
LEMMA MergeableInHeap ==
  ASSUME BpeInv, NEW k \in alive, NEW l \in alive, Scan!Mergeable(k, l)
  PROVE  \E f \in heap : f.index = k /\ f.rank = Scan!Rank(k, l)
<1>1. Adjacent(alive, k, l) /\ <<ids[k], ids[l]>> \in DOMAIN merge_ranks
  BY DEF Scan!Mergeable, Adjacent
<1>2. Entry(merge_ranks, k, <<ids[k], ids[l]>>) \in heap
  BY <1>1 DEF BpeInv, CandidatesInHeap
<1> QED
  BY <1>2 DEF Entry, Scan!Rank

LEMMA MergeScans ==
  ASSUME BpeInv, NEW e \in heap, Merge(e)
  PROVE  Scan!Next
<1> DEFINE i == e.index
<1>0. PICK right : right = next[i]
  OBVIOUS
<1>1. PICK n \in 0 .. MaxLen : ids \in [1 .. n -> Ids] /\ alive \subseteq 1 .. n
  BY DEF BpeInv, TypeOK
<1>2. /\ Adjacent(alive, i, right)
      /\ <<ids[i], ids[right]>> \in DOMAIN merge_ranks
      /\ e.rank = merge_ranks[<<ids[i], ids[right]>>].rank
      /\ e.id = merge_ranks[<<ids[i], ids[right]>>].id
  BY <1>0, MergeReads DEF Merge
<1>3. i \in alive /\ right \in alive
  BY <1>2 DEF Adjacent
<1>4. Scan!Mergeable(i, right) /\ Scan!Rank(i, right) = e.rank
  BY <1>2, <1>3 DEF Scan!Mergeable, Scan!Rank, Adjacent
<1>5. ASSUME NEW k \in alive, NEW l \in alive, Scan!Mergeable(k, l)
      PROVE  \/ Scan!Rank(i, right) < Scan!Rank(k, l)
             \/ Scan!Rank(i, right) = Scan!Rank(k, l) /\ i <= k
  <2>1. PICK f \in heap : f.index = k /\ f.rank = Scan!Rank(k, l)
    BY <1>5, MergeableInHeap
  <2>2. e.rank < f.rank \/ (e.rank = f.rank /\ e.index <= f.index)
    BY <2>1 DEF Merge, Least
  <2> QED
    BY <1>4, <2>1, <2>2
<1>6. Left' = [k \in alive \ {right} |->
                  IF k = i THEN merge_ranks[<<ids[i], ids[right]>>].id ELSE ids[k]]
  <2>1. ids' = [ids EXCEPT ![i] = e.id] /\ alive' = alive \ {right}
    BY <1>0 DEF Merge
  <2> QED
    BY <2>1, <1>1, <1>2 DEF Left
<1>7. merge_ranks' = merge_ranks
  BY DEF Merge
<1>8. Scan!Merge(i, right)
  BY <1>3, <1>4, <1>5, <1>6, <1>7 DEF Scan!Merge, Left
<1> QED
  BY <1>3, <1>8 DEF Scan!Next

LEMMA StepScans == BpeInv /\ [Next]_vars => [Scan!Next]_(Scan!rvars)
<1> SUFFICES ASSUME BpeInv, [Next]_vars PROVE [Scan!Next]_(Scan!rvars)
  OBVIOUS
<1>1. ASSUME NEW e \in heap, Merge(e) PROVE Scan!Next
  BY <1>1, MergeScans
<1>2. ASSUME UNCHANGED <<merge_ranks, ids, alive>> PROVE UNCHANGED Scan!rvars
  BY <1>2 DEF Scan!rvars
<1> QED
  BY <1>1, <1>2 DEF Next, Skip, MergesDone, Walk, WalkDone, vars, list

(***************************************************************************)
(* tokenize_bytes makes the merges of the direct rank scan, in its order.  *)
(***************************************************************************)
THEOREM Refines == Spec => MergesByRankScan
<1>1. Init => Scan!Init
  BY InitScans
<1>2. BpeInv /\ [Next]_vars => [Scan!Next]_(Scan!rvars)
  BY StepScans
<1> QED
  BY <1>1, <1>2, Invariance, PTL DEF Spec, MergesByRankScan, Scan!Spec

-----------------------------------------------------------------------------
(***************************************************************************)
(* The output.  The token at a live position is spelled as the bytes from  *)
(* there to its right neighbour, which is what a merge keeps true; so the  *)
(* walk from the first position to the end writes all of the input.        *)
(***************************************************************************)
LEMMA BytesAdd ==
  ASSUME NEW tokens \in Seq(Ids)
  PROVE  /\ \A k \in 1 .. Len(tokens) + 1 : BytesBefore(tokens)[k] \in Nat
         /\ BytesBefore(tokens)[1] = 0
         /\ \A k \in 1 .. Len(tokens) :
              BytesBefore(tokens)[k + 1] = BytesBefore(tokens)[k] + Len(Pieces[tokens[k]])
<1> DEFINE length == [k \in DOMAIN tokens |-> Len(Pieces[tokens[k]])]
<1>1. BytesBefore(tokens) = RunningTotal(length)
  BY DEF BytesBefore, RunningTotal
<1>2. PICK n \in Nat : n = Len(tokens) /\ DOMAIN tokens = 1 .. n
  OBVIOUS
<1>3. \A k \in 1 .. n : Len(Pieces[tokens[k]]) \in Nat
  BY <1>2, MergeAssumption
<1>4. length \in Seq(Nat) /\ Len(length) = n /\ \A k \in 1 .. n : length[k] = Len(Pieces[tokens[k]])
  BY <1>2, <1>3
<1> HIDE DEF length
<1> QED
  BY <1>1, <1>2, <1>4, TotalsGrow

LEMMA BytesAppended ==
  ASSUME NEW tokens \in Seq(Ids), NEW token \in Ids
  PROVE  /\ \A k \in 1 .. Len(tokens) + 1 :
              BytesBefore(Append(tokens, token))[k] = BytesBefore(tokens)[k]
         /\ BytesBefore(Append(tokens, token))[Len(tokens) + 2] =
              BytesBefore(tokens)[Len(tokens) + 1] + Len(Pieces[token])
<1>1. PICK n \in Nat : n = Len(tokens)
  OBVIOUS
<1>2. PICK longer : longer = Append(tokens, token)
  OBVIOUS
<1>3. longer \in Seq(Ids) /\ Len(longer) = n + 1 /\ longer[n + 1] = token /\ \A k \in 1 .. n : longer[k] = tokens[k]
  BY <1>1, <1>2
<1>4. PICK a : a = BytesBefore(longer)
  OBVIOUS
<1>5. PICK b : b = BytesBefore(tokens)
  OBVIOUS
<1>6. a[1] = 0 /\ \A k \in 1 .. n + 1 : a[k + 1] = a[k] + Len(Pieces[longer[k]])
  BY <1>3, <1>4, BytesAdd
<1>7. b[1] = 0 /\ \A k \in 1 .. n : b[k + 1] = b[k] + Len(Pieces[tokens[k]])
  BY <1>1, <1>5, BytesAdd
<1> DEFINE f == [j \in 0 .. n |-> a[j + 1]]
           g == [j \in 0 .. n |-> b[j + 1]]
<1>8. StepAlike(f, g, n)
  <2>1. f[0] = g[0]
    BY <1>6, <1>7
  <2>2. ASSUME NEW j \in 1 .. n, f[j - 1] = g[j - 1] PROVE f[j] = g[j]
    <3>1. f[j - 1] = a[j] /\ g[j - 1] = b[j] /\ f[j] = a[j + 1] /\ g[j] = b[j + 1]
      OBVIOUS
    <3>2. a[j + 1] = a[j] + Len(Pieces[longer[j]]) /\ longer[j] = tokens[j]
      BY <1>3, <1>6
    <3>3. b[j + 1] = b[j] + Len(Pieces[tokens[j]])
      BY <1>7
    <3> HIDE DEF f, g
    <3> QED
      BY <2>2, <3>1, <3>2, <3>3
  <2> HIDE DEF f, g
  <2> QED
    BY <2>1, <2>2 DEF StepAlike
<1> HIDE DEF f, g
<1>9. \A j \in 0 .. n : f[j] = g[j]
  BY <1>8, Determined
<1>10. ASSUME NEW k \in 1 .. n + 1 PROVE a[k] = b[k]
  <2>1. k - 1 \in 0 .. n /\ f[k - 1] = a[k] /\ g[k - 1] = b[k]
    BY DEF f, g
  <2> QED
    BY <1>9, <2>1
<1>11. a[n + 2] = b[n + 1] + Len(Pieces[token])
  <2>1. n + 1 \in 1 .. n + 1 /\ (n + 1) + 1 = n + 2
    OBVIOUS
  <2> QED
    BY <1>3, <1>6, <1>10, <2>1
<1> QED
  BY <1>1, <1>2, <1>4, <1>5, <1>10, <1>11

\* Where the token at i ends.
EndOf(i) == IF next[i] = 0 THEN Len(input) ELSE next[i] - 1

Spelled == \A i \in alive : Pieces[ids[i]] = SubSeq(input, i, EndOf(i))

\* The first token is never the right one of a pair.
Merging == pc = "merge" => out = <<>> /\ index = 1 /\ 1 \in alive

SpelledOut ==
  /\ \A k \in 1 .. Len(out) :
       Pieces[out[k]] = SubSeq(input, BytesBefore(out)[k] + 1, BytesBefore(out)[k + 1])
  /\ \A k \in 1 .. Len(out) - 1 : <<out[k], out[k + 1]>> \notin DOMAIN merge_ranks

\* The walk stands behind what it has written.
Walking ==
  pc = "walk" /\ index # 0 =>
    /\ index \in alive /\ BytesBefore(out)[Len(out) + 1] = index - 1
    /\ out # <<>> => \E p \in alive : Adjacent(alive, p, index) /\ out[Len(out)] = ids[p]

Walked ==
  (pc = "walk" /\ index = 0) \/ pc = "done" => BytesBefore(out)[Len(out) + 1] = Len(input)

OutputInv ==
  /\ Spelled /\ Merging
  /\ pc = "walk" => heap = {}
  /\ SpelledOut /\ Walking /\ Walked

LEMMA Typed ==
  ASSUME BpeInv
  PROVE  \E n \in Nat :
           /\ n = Len(input) /\ input \in Seq(Byte)
           /\ ids \in [1 .. n -> Ids] /\ next \in [1 .. n -> 0 .. n]
           /\ alive \subseteq 1 .. n /\ index \in 0 .. n /\ out \in Seq(Ids)
<1>1. PICK n \in 0 .. MaxLen :
        /\ ids \in [1 .. n -> Ids] /\ input \in [1 .. n -> Byte]
        /\ next \in [1 .. n -> 0 .. n]
        /\ alive \subseteq 1 .. n /\ index \in 0 .. n
  BY DEF BpeInv, TypeOK
<1>2. n \in Nat /\ input \in Seq(Byte) /\ Len(input) = n
  BY <1>1, MergeAssumption
<1> QED
  BY <1>1, <1>2 DEF BpeInv, TypeOK

\* A live position and its right neighbour, or the end.
LEMMA EndFacts ==
  ASSUME BpeInv, NEW i \in alive
  PROVE  /\ i \in 1 .. Len(input) /\ EndOf(i) \in i .. Len(input)
         /\ next[i] # 0 => Adjacent(alive, i, next[i]) /\ next[i] = EndOf(i) + 1
<1>1. PICK n \in Nat : n = Len(input) /\ next \in [1 .. n -> 0 .. n] /\ alive \subseteq 1 .. n
  BY Typed
<1>2. IF next[i] = 0 THEN \A j \in alive : j <= i ELSE Adjacent(alive, i, next[i])
  BY DEF BpeInv, LinksAreNeighbours
<1>3. i \in 1 .. n /\ next[i] \in 0 .. n
  BY <1>1
<1>4. CASE next[i] = 0
  BY <1>1, <1>3, <1>4 DEF EndOf
<1>5. CASE next[i] # 0
  <2>1. i < next[i]
    BY <1>2, <1>5 DEF Adjacent
  <2> QED
    BY <1>1, <1>2, <1>3, <1>5, <2>1 DEF EndOf
<1> QED
  BY <1>4, <1>5

\* A piece of the input, and two pieces that touch.
LEMMA Slice ==
  ASSUME NEW s \in Seq(Byte), NEW i \in 1 .. Len(s), NEW j \in i .. Len(s)
  PROVE  /\ SubSeq(s, i, j) \in Seq(Byte) /\ Len(SubSeq(s, i, j)) = j - i + 1
         /\ \A m \in 1 .. j - i + 1 : SubSeq(s, i, j)[m] = s[i + m - 1]
<1>1. \A m \in i .. j : s[m] \in Byte
  OBVIOUS
<1>2. i \in Int /\ j \in Int /\ i <= j
  OBVIOUS
<1> QED
  BY <1>1, <1>2, SubSeqProperties

LEMMA SlicesJoined ==
  ASSUME NEW s \in Seq(Byte), NEW i \in 1 .. Len(s), NEW j \in i .. Len(s),
         NEW k \in j + 1 .. Len(s)
  PROVE  SubSeq(s, i, j) \o SubSeq(s, j + 1, k) = SubSeq(s, i, k)
<1> DEFINE a == SubSeq(s, i, j)
           b == SubSeq(s, j + 1, k)
           c == SubSeq(s, i, k)
<1>1. a \in Seq(Byte) /\ Len(a) = j - i + 1 /\ \A m \in 1 .. j - i + 1 : a[m] = s[i + m - 1]
  BY Slice
<1>2. b \in Seq(Byte) /\ Len(b) = k - j /\ \A m \in 1 .. k - j : b[m] = s[j + m]
  <2>1. j + 1 \in 1 .. Len(s) /\ k \in j + 1 .. Len(s)
    OBVIOUS
  <2>2. k - (j + 1) + 1 = k - j /\ \A m \in 1 .. k - j : (j + 1) + m - 1 = j + m
    OBVIOUS
  <2> QED
    BY <2>1, <2>2, Slice
<1>3. c \in Seq(Byte) /\ Len(c) = k - i + 1 /\ \A m \in 1 .. k - i + 1 : c[m] = s[i + m - 1]
  <2>1. k \in i .. Len(s)
    OBVIOUS
  <2> QED
    BY <2>1, Slice
<1> HIDE DEF a, b, c
<1>4. /\ a \o b \in Seq(Byte) /\ Len(a \o b) = Len(a) + Len(b)
      /\ \A m \in 1 .. Len(a) + Len(b) :
           (a \o b)[m] = IF m <= Len(a) THEN a[m] ELSE b[m - Len(a)]
  BY <1>1, <1>2, ConcatProperties
<1>5. Len(a) + Len(b) = k - i + 1
  BY <1>1, <1>2
<1>6. ASSUME NEW m \in 1 .. k - i + 1 PROVE (a \o b)[m] = c[m]
  <2>1. CASE m <= j - i + 1
    BY <1>1, <1>3, <1>4, <1>5, <2>1
  <2>2. CASE m > j - i + 1
    <3>1. (a \o b)[m] = b[m - (j - i + 1)]
      <4>1. Len(a) = j - i + 1 /\ m \in 1 .. Len(a) + Len(b) /\ ~(m <= Len(a))
        BY <1>1, <1>5, <2>2
      <4> QED
        BY ONLY <1>4, <4>1
    <3>2. m - (j - i + 1) \in 1 .. k - j /\ j + (m - (j - i + 1)) = i + m - 1
      <4>1. i \in Int /\ j \in Int /\ k \in Int
        OBVIOUS
      <4> QED
        BY ONLY <2>2, <4>1, m \in 1 .. k - i + 1
    <3>3. b[m - (j - i + 1)] = s[i + m - 1]
      BY <1>2, <3>2
    <3> QED
      BY <1>3, <3>1, <3>3
  <2>3. m <= j - i + 1 \/ m > j - i + 1
    OBVIOUS
  <2> QED
    BY <2>1, <2>2, <2>3
<1>7. a \o b = c
  BY <1>3, <1>4, <1>5, <1>6, SeqEqual
<1> QED
  BY <1>7 DEF a, b, c

\* At first every position holds the token of its byte.
LEMMA InitOutput == Init => OutputInv
<1> SUFFICES ASSUME Init PROVE OutputInv
  OBVIOUS
<1>0. BpeInv
  BY InitInv
<1>1. PICK n \in 0 .. MaxLen :
        /\ ids \in [1 .. n -> ByteTokens]
        /\ input = [i \in 1 .. n |-> Pieces[ids[i]][1]]
        /\ next = [i \in 1 .. n |-> IF i = n THEN 0 ELSE i + 1]
        /\ alive = 1 .. n
        /\ IF n < 2 THEN pc = "done" /\ out = ids /\ index = 0
                    ELSE pc = "merge" /\ out = <<>> /\ index = 1
  BY DEF Init
<1>2. n \in Nat /\ n = Len(input) /\ input \in Seq(Byte)
  BY <1>0, <1>1, Typed, MergeAssumption
<1>3. ASSUME NEW i \in 1 .. n
      PROVE  EndOf(i) = i /\ Len(Pieces[ids[i]]) = 1 /\ Pieces[ids[i]] = SubSeq(input, i, i)
  <2>1. EndOf(i) = i
    <3>1. next[i] = IF i = n THEN 0 ELSE i + 1
      BY <1>1
    <3>2. CASE i = n
      BY <1>2, <3>1, <3>2 DEF EndOf
    <3>3. CASE i # n
      BY <1>2, <3>1, <3>3 DEF EndOf
    <3> QED
      BY <3>2, <3>3
  <2>2. PICK piece : piece = Pieces[ids[i]]
    OBVIOUS
  <2>3. piece \in Seq(Byte) /\ Len(piece) = 1
    BY <1>1, <2>2, MergeAssumption
  <2>4. PICK part : part = SubSeq(input, i, i)
    OBVIOUS
  <2>5. part \in Seq(Byte) /\ Len(part) = 1 /\ part[1] = input[i]
    <3>1. i \in 1 .. Len(input) /\ i \in i .. Len(input) /\ i - i + 1 = 1 /\ i + 1 - 1 = i
      BY <1>2
    <3> QED
      BY <1>2, <2>4, <3>1, Slice
  <2>6. piece[1] = input[i]
    BY <1>1, <2>2
  <2>7. piece = part
    BY <2>3, <2>5, <2>6, SeqEqual
  <2> QED
    BY <2>1, <2>2, <2>3, <2>4, <2>7
<1>4. Spelled
  BY <1>1, <1>3 DEF Spelled
<1>5. out \in Seq(Ids)
  BY <1>0, Typed
<1>6. BytesBefore(out)[1] = 0
  BY <1>5, BytesAdd
<1>7. CASE n < 2
  <2>1. pc = "done" /\ out = ids /\ Len(out) = n /\ index = 0
    <3>1. pc = "done" /\ out = ids /\ index = 0
      BY <1>1, <1>7
    <3>2. out \in [1 .. n -> ByteTokens]
      BY <1>1, <3>1
    <3> QED
      BY <1>2, <3>1, <3>2
  <2>2. CASE n = 0
    BY <1>2, <1>4, <1>6, <2>1, <2>2 DEF OutputInv, Merging, SpelledOut, Walking, Walked
  <2>3. CASE n = 1
    <3>1. BytesBefore(out)[1 + 1] = BytesBefore(out)[1] + Len(Pieces[out[1]])
      <4>1. \A k \in 1 .. Len(out) :
              BytesBefore(out)[k + 1] = BytesBefore(out)[k] + Len(Pieces[out[k]])
        BY <1>5, BytesAdd
      <4>2. 1 \in 1 .. Len(out)
        BY <2>1, <2>3
      <4> QED
        BY <4>1, <4>2
    <3>2. Len(Pieces[out[1]]) = 1 /\ Pieces[out[1]] = SubSeq(input, 1, 1)
      BY <1>3, <2>1, <2>3
    <3>3. BytesBefore(out)[2] = 1
      BY <1>6, <3>1, <3>2
    <3>4. Len(out) = 1 /\ BytesBefore(out)[Len(out) + 1] = Len(input)
      BY <1>2, <2>1, <2>3, <3>3
    <3>5. SpelledOut
      <4>1. ASSUME NEW k \in 1 .. Len(out)
            PROVE  Pieces[out[k]] = SubSeq(input, BytesBefore(out)[k] + 1, BytesBefore(out)[k + 1])
        <5>1. k = 1 /\ BytesBefore(out)[k] + 1 = 1 /\ BytesBefore(out)[k + 1] = 1
          BY <1>6, <3>3, <3>4
        <5> QED
          BY <3>2, <5>1
      <4> QED
        BY <3>4, <4>1 DEF SpelledOut
    <3> QED
      BY <1>4, <2>1, <3>4, <3>5 DEF OutputInv, Merging, Walking, Walked
  <2> QED
    BY <1>2, <1>7, <2>2, <2>3
<1>8. CASE n >= 2
  <2>1. pc = "merge" /\ out = <<>> /\ index = 1 /\ 1 \in alive
    <3>1. ~(n < 2) /\ 1 \in 1 .. n
      BY <1>2, <1>8
    <3> QED
      BY <1>1, <3>1
  <2> QED
    BY <1>4, <2>1 DEF OutputInv, Merging, SpelledOut, Walking, Walked
<1> QED
  BY <1>2, <1>7, <1>8

\* A merge joins two tokens that touch.
LEMMA MergeSpelled ==
  ASSUME BpeInv, Spelled, NEW e \in heap, Merge(e)
  PROVE  Spelled'
<1> DEFINE i == e.index
<1>0. PICK right : right = next[i]
  OBVIOUS
<1>1. PICK n \in Nat :
        /\ n = Len(input) /\ input \in Seq(Byte)
        /\ ids \in [1 .. n -> Ids] /\ next \in [1 .. n -> 0 .. n]
        /\ alive \subseteq 1 .. n
  BY Typed
<1>2. /\ Adjacent(alive, i, right)
      /\ <<ids[i], ids[right]>> \in DOMAIN merge_ranks
      /\ e.id = merge_ranks[<<ids[i], ids[right]>>].id
  BY <1>0, MergeReads DEF Merge
<1>3. i \in alive /\ right \in alive /\ i < right /\ i # right /\ right # 0
  <2>1. i \in alive /\ right \in alive /\ i < right
    BY <1>2 DEF Adjacent
  <2>2. n \in Nat /\ i \in 1 .. n /\ right \in 1 .. n
    BY <1>1, <2>1
  <2> QED
    BY <2>1, <2>2
<1>4. /\ ids' = [ids EXCEPT ![i] = e.id]
      /\ alive' = alive \ {right}
      /\ next' = [next EXCEPT ![i] = next[right]]
      /\ input' = input
  BY <1>0 DEF Merge
<1>5. merge_ranks \in MergeTables
  BY DEF BpeInv, TypeOK
<1>6. Pieces[e.id] = Pieces[ids[i]] \o Pieces[ids[right]]
  <2>1. PICK pair \in DOMAIN merge_ranks : pair = <<ids[i], ids[right]>>
    BY <1>2
  <2>2. Pieces[merge_ranks[pair].id] = Pieces[pair[1]] \o Pieces[pair[2]]
    BY <1>5, MergeAssumption
  <2> QED
    BY <1>2, <2>1, <2>2
<1>7. EndOf(i) \in i .. n /\ right = EndOf(i) + 1 /\ EndOf(right) \in right .. n
  BY <1>0, <1>1, <1>3, EndFacts
<1>8. EndOf(i)' = EndOf(right)
  BY <1>1, <1>3, <1>4 DEF EndOf
<1>9. ids'[i] = e.id
  BY <1>1, <1>3, <1>4
<1>10. Pieces[ids'[i]] = SubSeq(input, i, EndOf(right))
  <2>1. Pieces[ids[i]] = SubSeq(input, i, EndOf(i)) /\ Pieces[ids[right]] = SubSeq(input, right, EndOf(right))
    BY <1>3 DEF Spelled
  <2>2. i \in 1 .. Len(input) /\ EndOf(i) \in i .. Len(input) /\ EndOf(right) \in EndOf(i) + 1 .. Len(input)
    BY <1>1, <1>3, <1>7
  <2> QED
    BY <1>1, <1>6, <1>7, <1>9, <2>1, <2>2, SlicesJoined
<1>11. ASSUME NEW j \in alive \ {right}, j # i
       PROVE  Pieces[ids'[j]] = SubSeq(input', j, EndOf(j)')
  <2>1. ids'[j] = ids[j] /\ next'[j] = next[j]
    BY <1>1, <1>4, <1>11
  <2>2. EndOf(j)' = EndOf(j)
    BY <1>4, <2>1 DEF EndOf
  <2> QED
    BY <1>4, <2>1, <2>2 DEF Spelled
<1> QED
  BY <1>4, <1>8, <1>10, <1>11 DEF Spelled

\* A turn of the walk writes the next bytes.
LEMMA WalkOutput ==
  ASSUME BpeInv, OutputInv, Walk
  PROVE  OutputInv'
<1>1. PICK n \in Nat :
        /\ n = Len(input) /\ input \in Seq(Byte)
        /\ ids \in [1 .. n -> Ids] /\ next \in [1 .. n -> 0 .. n]
        /\ alive \subseteq 1 .. n /\ out \in Seq(Ids)
  BY Typed
<1>2. /\ pc = "walk" /\ pc' = "walk" /\ index # 0 /\ index' = next[index]
      /\ UNCHANGED <<merge_ranks, input, ids, prev, next, alive, heap>>
  BY DEF Walk, list
<1>3. index \in alive /\ BytesBefore(out)[Len(out) + 1] = index - 1 /\ heap = {}
  BY <1>2 DEF OutputInv, Walking
<1>4. PICK m \in Nat : m = Len(out)
  BY <1>1
<1>5. PICK token \in Ids : token = ids[index]
  BY <1>1, <1>3
<1>6. PICK longer : longer = Append(out, token)
  OBVIOUS
<1>7. out' = longer
  BY <1>3, <1>5, <1>6 DEF Walk
<1>8. longer \in Seq(Ids) /\ Len(longer) = m + 1 /\ longer[m + 1] = token
      /\ \A k \in 1 .. m : longer[k] = out[k]
  BY <1>1, <1>4, <1>6
<1>9. /\ index \in 1 .. n /\ EndOf(index) \in index .. n
      /\ next[index] # 0 => Adjacent(alive, index, next[index]) /\ next[index] = EndOf(index) + 1
      /\ Pieces[token] = SubSeq(input, index, EndOf(index))
  BY <1>1, <1>3, <1>5, EndFacts DEF OutputInv, Spelled
<1>10. Len(Pieces[token]) = EndOf(index) - index + 1
  BY <1>1, <1>9, Slice
<1>11. PICK after : after = BytesBefore(longer)
  OBVIOUS
<1>12. /\ \A k \in 1 .. m + 1 : after[k] = BytesBefore(out)[k]
       /\ after[m + 2] = EndOf(index)
  <2>1. after[m + 2] = BytesBefore(out)[m + 1] + Len(Pieces[token])
    BY <1>1, <1>4, <1>6, <1>11, BytesAppended
  <2>2. index - 1 + (EndOf(index) - index + 1) = EndOf(index)
    BY <1>9
  <2> QED
    BY <1>1, <1>3, <1>4, <1>6, <1>10, <1>11, <2>1, <2>2, BytesAppended
<1>13. ASSUME NEW k \in 1 .. m + 1
       PROVE  Pieces[longer[k]] = SubSeq(input, after[k] + 1, after[k + 1])
  <2>1. CASE k \in 1 .. m
    <3>1. Pieces[out[k]] = SubSeq(input, BytesBefore(out)[k] + 1, BytesBefore(out)[k + 1])
      BY <1>4, <2>1 DEF OutputInv, SpelledOut
    <3>2. k \in 1 .. m + 1 /\ k + 1 \in 1 .. m + 1
      BY <2>1
    <3> QED
      BY <1>8, <1>12, <2>1, <3>1, <3>2
  <2>2. CASE k = m + 1
    <3>1. after[k] + 1 = index /\ after[k + 1] = EndOf(index)
      BY <1>3, <1>4, <1>9, <1>12, <2>2
    <3> QED
      BY <1>8, <1>9, <2>2, <3>1
  <2> QED
    BY <2>1, <2>2
<1>14. ASSUME NEW k \in 1 .. m PROVE <<longer[k], longer[k + 1]>> \notin DOMAIN merge_ranks
  <2>1. CASE k < m
    <3>1. k \in 1 .. Len(out) - 1 /\ k + 1 \in 1 .. m
      BY <1>4, <2>1
    <3> QED
      BY <1>8, <3>1 DEF OutputInv, SpelledOut
  <2>2. CASE k = m
    <3>1. out # <<>>
      BY <1>4, <2>2
    <3>2. PICK p \in alive : Adjacent(alive, p, index) /\ out[m] = ids[p]
      BY <1>2, <1>4, <3>1 DEF OutputInv, Walking
    <3>3. <<ids[p], ids[index]>> \notin DOMAIN merge_ranks
      BY <1>3, <3>2 DEF BpeInv, CandidatesInHeap
    <3> QED
      BY <1>5, <1>8, <2>2, <3>2, <3>3
  <2> QED
    BY <2>1, <2>2
<1>15. SpelledOut'
  BY <1>2, <1>7, <1>8, <1>11, <1>13, <1>14 DEF SpelledOut
<1>16. Spelled'
  BY <1>2 DEF OutputInv, Spelled, EndOf
<1>17. Walking'
  <2> SUFFICES ASSUME index' # 0 PROVE Walking'
    BY DEF Walking
  <2>1. Adjacent(alive, index, index') /\ index' - 1 = EndOf(index) /\ index' \in alive
    BY <1>2, <1>9 DEF Adjacent
  <2>2. BytesBefore(out')[Len(out') + 1] = index' - 1
    BY <1>7, <1>8, <1>11, <1>12, <2>1
  <2>3. Adjacent(alive', index, index') /\ out'[Len(out')] = ids'[index]
    BY <1>2, <1>5, <1>7, <1>8, <2>1 DEF Adjacent
  <2> QED
    BY <1>2, <1>3, <2>1, <2>2, <2>3 DEF Walking
<1>18. Walked'
  <2> SUFFICES ASSUME index' = 0 PROVE BytesBefore(out')[Len(out') + 1] = Len(input')
    BY <1>2 DEF Walked
  <2>1. EndOf(index) = Len(input)
    BY <1>2 DEF EndOf
  <2> QED
    BY <1>2, <1>7, <1>8, <1>11, <1>12, <2>1
<1> QED
  BY <1>2, <1>3, <1>15, <1>16, <1>17, <1>18 DEF OutputInv, Merging

LEMMA OutputStep == BpeInv /\ OutputInv /\ [Next]_vars => OutputInv'
<1> SUFFICES ASSUME BpeInv, OutputInv, [Next]_vars PROVE OutputInv'
  OBVIOUS
<1>1. ASSUME NEW e \in heap, Skip(e) PROVE OutputInv'
  <2>1. pc = "merge" /\ UNCHANGED <<merge_ranks, input, ids, prev, next, alive, index, out, pc>>
    BY <1>1 DEF Skip, list
  <2> QED
    BY <2>1 DEF OutputInv, Spelled, EndOf, Merging, SpelledOut, Walking, Walked
<1>2. ASSUME NEW e \in heap, Merge(e) PROVE OutputInv'
  <2>1. Spelled'
    BY <1>2, MergeSpelled DEF OutputInv
  <2>2. pc = "merge" /\ UNCHANGED <<merge_ranks, input, index, out, pc>> /\ alive' = alive \ {next[e.index]}
    BY <1>2 DEF Merge
  <2>3. next[e.index] # 1
    <3>1. Adjacent(alive, e.index, next[e.index])
      BY <1>2, MergeReads DEF Merge
    <3>2. e.index \in 1 .. Len(input)
      BY <3>1, EndFacts DEF Adjacent
    <3> QED
      BY <3>1, <3>2 DEF Adjacent
  <2> QED
    BY <2>1, <2>2, <2>3 DEF OutputInv, Merging, SpelledOut, Walking, Walked
<1>3. CASE MergesDone
  <2>1. pc = "merge" /\ heap = {} /\ pc' = "walk"
        /\ UNCHANGED <<merge_ranks, input, ids, prev, next, alive, heap, index, out>>
    BY <1>3 DEF MergesDone, list
  <2>2. out = <<>> /\ index = 1 /\ 1 \in alive
    BY <2>1 DEF OutputInv, Merging
  <2>3. BytesBefore(out)[1] = 0 /\ Len(out) = 0
    BY <2>2, Typed, BytesAdd
  <2>4. Spelled' /\ SpelledOut'
    BY <2>1 DEF OutputInv, Spelled, EndOf, SpelledOut
  <2> QED
    BY <2>1, <2>2, <2>3, <2>4 DEF OutputInv, Merging, Walking, Walked
<1>4. CASE Walk
  BY <1>4, WalkOutput
<1>5. CASE WalkDone
  <2>1. pc = "walk" /\ index = 0 /\ pc' = "done"
        /\ UNCHANGED <<merge_ranks, input, ids, prev, next, alive, heap, index, out>>
    BY <1>5 DEF WalkDone, list
  <2> QED
    BY <2>1 DEF OutputInv, Spelled, EndOf, Merging, SpelledOut, Walking, Walked
<1>6. CASE UNCHANGED vars
  BY <1>6 DEF vars, list, OutputInv, Spelled, EndOf, Merging, SpelledOut, Walking, Walked, Adjacent
<1> QED
  BY <1>1, <1>2, <1>3, <1>4, <1>5, <1>6 DEF Next

(***************************************************************************)
(* What tokenize_bytes returns is the input, cut where no merge is left.   *)
(***************************************************************************)
THEOREM TokensSpellInput == Spec => []OutputIsMerged
<1>1. OutputInv => OutputIsMerged
  BY DEF OutputInv, SpelledOut, Walked, OutputIsMerged
<1> QED
  BY <1>1, InitOutput, OutputStep, Invariance, PTL DEF Spec
=============================================================================
