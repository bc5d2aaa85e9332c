------------------------------ MODULE QuantDot -------------------------------
(***************************************************************************)
(* The product of a quantised matrix and a vector: the vector is quantised *)
(* to blocks of 32 (Q8A) or 256 (Q8K), and each row is the sum of the dot  *)
(* products of its blocks.  The product of a block is computed by one of   *)
(* five kernels, chosen when det-quant is compiled: a scalar loop, or the  *)
(* vector instructions of the target.  Other targets must not give other   *)
(* bits.                                                                   *)
(*                                                                         *)
(* The numbers are such that f32 arithmetic is exact on them, its rounding *)
(* is left out: elements of x and scales are integers, products with a     *)
(* quantised activation count 1/127.  What is beyond MaxFinite is not      *)
(* finite.  Vectors are functions from 0; a lane keeps its width.          *)
(***************************************************************************)
EXTENDS Integers, FiniteSets

CONSTANTS
  Products,   \* records [format, rows], a row being a function from positions to the bytes of a block
  Inputs,     \* vectors, as functions on the naturals of which the columns are taken
  Targets,    \* of "scalar", "sse2", "avx2", "neon", "simd128"
  MaxFinite   \* the largest finite number

VARIABLES matrix, x, target, blocks, acts, out, status

dotVars == <<matrix, x, target, blocks, acts, out, status>>

B == INSTANCE QuantBlock WITH
       Formats <- {}, Fills <- {}, format <- "", fill <- 0, probed <- 0, changed <- {}

BLOCK == B!BLOCK
SUPER == B!SUPER

Finite(v) == v \in -MaxFinite..MaxFinite
Times(a, b) == IF Finite(a) /\ Finite(b) THEN a * b ELSE MaxFinite + 1
Abs(v) == IF v < 0 THEN -v ELSE v
Signed(v, bits) == LET w == v % 2 ^ bits IN IF w < 2 ^ (bits - 1) THEN w ELSE w - 2 ^ bits

(* The sum of t[0] to t[n - 1]; by halves, which keeps TLC's recursion shallow. *)
Sum(n, t) ==
  LET sum[len \in 0..n] ==
        [from \in 0..(n - len) |->
           IF len = 0 THEN 0
           ELSE IF len = 1 THEN t[from]
           ELSE sum[len \div 2][from] + sum[len - len \div 2][from + len \div 2]]
  IN sum[n][0]

(* The same in f32, in this order, refused as soon as a term or the sum is not finite. *)
Sums == [ok : BOOLEAN, value : Int]
Plus(s, v) == [ok |-> s.ok /\ Finite(v) /\ Finite(s.value + v), value |-> s.value + v]
FiniteSum(n, t) ==
  LET sum[len \in 0..n] ==
        [from \in 0..(n - len) |-> [s \in Sums |->
           IF len = 0 THEN s
           ELSE IF len = 1 THEN Plus(s, t[from])
           ELSE sum[len - len \div 2][from + len \div 2][sum[len \div 2][from][s]]]]
  IN sum[n][0][[ok |-> TRUE, value |-> 0]]

Format == matrix.format
RowBlocks == Cardinality(DOMAIN matrix.rows[0])
Cols == RowBlocks * B!Weights(Format)

-----------------------------------------------------------------------------
(***************************************************************************)
(* f16_to_f32 where its value is an integer: 15 is the exponent of 1, and  *)
(* an exponent of 31 is that of an infinity or NaN.                        *)
(***************************************************************************)
F16Value(bits) ==
  LET e == (bits \div 1024) % 32
      v == (1024 + (bits % 1024)) * 2 ^ (e - 15)
  IN CASE e = 31             -> MaxFinite + 1
       [] bits % 32768 = 0   -> 0
       [] e \in 15..30 /\ v % 1024 = 0 -> (IF bits < 32768 THEN v ELSE -v) \div 1024

(* read_q8_matrix and its siblings: the fields of a block, with the value of its scales. *)
Block(bytes) ==
  CASE Format = "Q8_0" -> [B!Q8_0Block(bytes) EXCEPT !.d = F16Value(@)]
    [] Format = "Q4_0" -> [B!Q4_0Block(bytes) EXCEPT !.d = F16Value(@)]
    [] Format = "Q4_K" -> [B!Q4KBlock(bytes) EXCEPT !.d = F16Value(@), !.dmin = F16Value(@)]
    [] Format = "Q6_K" -> [B!Q6KBlock(bytes) EXCEPT !.d = F16Value(@)]

(***************************************************************************)
(* What validate_shape lets through: at least one row, and at least one    *)
(* block of bytes in each, as many in all.  Scales are integers, the       *)
(* abstraction above.                                                      *)
(***************************************************************************)
ScalesAt(f) == CASE f = "Q6_K" -> {208} [] f = "Q4_K" -> {0, 2} [] OTHER -> {0}

IsProduct(m) ==
  /\ m.format \in {"Q8_0", "Q4_0", "Q4_K", "Q6_K"}
  /\ Cardinality(DOMAIN m.rows) \in Nat \ {0} /\ Cardinality(DOMAIN m.rows[0]) \in Nat \ {0}
  /\ DOMAIN m.rows = 0..(Cardinality(DOMAIN m.rows) - 1)
  /\ \A r \in DOMAIN m.rows :
       /\ DOMAIN m.rows[r] = 0..(Cardinality(DOMAIN m.rows[0]) - 1)
       /\ \A k \in DOMAIN m.rows[r] :
            /\ \A i \in 0..(B!BlockBytes[m.format] - 1) : m.rows[r][k][i] \in 0..255
            /\ \A at \in ScalesAt(m.format) : F16Value(B!F16(m.rows[r][k], at)) \in Int

ASSUME DotAssumption ==
  /\ MaxFinite \in Nat
  /\ Targets \subseteq {"scalar", "sse2", "avx2", "neon", "simd128"}
  /\ \A m \in Products :
       /\ IsProduct(m)
       /\ \A v \in Inputs : \A c \in 0..(Cardinality(DOMAIN m.rows[0]) * B!Weights(m.format) - 1) : v[c] \in Int

FiniteScales(w) == Finite(w.d) /\ (Format = "Q4_K" => Finite(w.dmin))

DotInit ==
  /\ matrix \in Products
  /\ x \in Inputs
  /\ target \in Targets
  /\ blocks = <<>> /\ acts = <<>> /\ out = <<>>
  /\ status = "load"

LoadMatrix ==
  /\ status = "load"
  /\ LET read == [r \in DOMAIN matrix.rows |-> [k \in DOMAIN matrix.rows[r] |-> Block(matrix.rows[r][k])]]
     IN IF \A r \in DOMAIN read : \A k \in DOMAIN read[r] : FiniteScales(read[r][k])
        THEN blocks' = read /\ status' = "quantize"
        ELSE status' = "non-finite" /\ UNCHANGED blocks
  /\ UNCHANGED <<matrix, x, target, acts, out>>

-----------------------------------------------------------------------------
(* Quantisation of the vector. *)

(* The first of the elements of largest magnitude: max, of which amax is the magnitude. *)
Largest(v, n) ==
  v[CHOOSE i \in 0..(n - 1) : \A j \in 0..(n - 1) : Abs(v[j]) < Abs(v[i]) \/ (Abs(v[j]) = Abs(v[i]) /\ i <= j)]

(* n / d to the nearest integer, d > 0: halves away from zero, and halves to the even one. *)
HalfAway(n, d) == IF n < 0 THEN -((d - 2 * n) \div (2 * d)) ELSE (2 * n + d) \div (2 * d)
HalfEven(n, d) ==
  LET f == n \div d
      r == 2 * (n - f * d)
  IN IF r < d \/ (r = d /\ f % 2 = 0) THEN f ELSE f + 1

Clamp(v) == IF v < -127 THEN -127 ELSE IF v > 127 THEN 127 ELSE v

(* try_quantize_q8a_block: d is amax / 127. *)
Q8A(v) ==
  LET amax == Abs(Largest(v, BLOCK))
  IN [d |-> amax, q |-> [i \in 0..(BLOCK - 1) |-> IF amax = 0 THEN 0 ELSE Clamp(HalfAway(127 * v[i], amax))]]

(* try_quantize_q8k_block: iscale is -127 / max, and d its inverse. *)
Q8K(v) ==
  LET max == Largest(v, SUPER)
      Rounded(i) == HalfEven(IF max < 0 THEN 127 * v[i] ELSE -127 * v[i], Abs(max))
  IN [d |-> -max,
      q |-> [i \in 0..(SUPER - 1) |->
               IF max = 0 THEN 0 ELSE Signed(IF Rounded(i) > 127 THEN 127 ELSE Rounded(i), 8)]]

(* The activations of a block: of Q8K for Q6_K, of Q8A for the others. *)
ActLen == IF Format = "Q6_K" THEN SUPER ELSE BLOCK
Chunk(k) == [i \in 0..(ActLen - 1) |-> x[k * ActLen + i]]

Quantize ==
  /\ status = "quantize"
  /\ IF \E i \in 0..(Cols - 1) : ~Finite(x[i])
     THEN status' = "non-finite" /\ UNCHANGED acts
     ELSE /\ acts' = [k \in 0..(Cols \div ActLen - 1) |-> IF Format = "Q6_K" THEN Q8K(Chunk(k)) ELSE Q8A(Chunk(k))]
          /\ status' = "rows"
  /\ UNCHANGED <<matrix, x, target, blocks, out>>

-----------------------------------------------------------------------------
(* Kernels: the integer product of 32 weights and 32 activations. *)

Pairs(v, y, n, wide(_)) == [j \in 0..(n - 1) |-> wide(v[2 * j] * y[2 * j]) + wide(v[2 * j + 1] * y[2 * j + 1])]
Same(p) == p
I16(p) == Signed(p, 16)
Slice(v, from, n) == [j \in 0..(n - 1) |-> v[from + j]]

(* A mutated form: bytes are interleaved with zeros. *)
WidenedByZeros(v) == [j \in DOMAIN v |-> Signed(v[j] % 256, 16)]

(* SSE2: bytes are widened by interleaving them with their signs, then _mm_madd_epi16. *)
Widened(v) == [j \in DOMAIN v |-> Signed((v[j] % 256) + 256 * (IF v[j] < 0 THEN 255 ELSE 0), 16)]

Sse2x16(v, y, from) ==
  LET lo == Pairs(Widened(Slice(v, from, 8)), Widened(Slice(y, from, 8)), 4, Same)
      hi == Pairs(Widened(Slice(v, from + 8, 8)), Widened(Slice(y, from + 8, 8)), 4, Same)
  IN [j \in 0..3 |-> lo[j] + hi[j]]

Sse2(v, y) ==
  LET lo == Sse2x16(v, y, 0)
      hi == Sse2x16(v, y, 16)
  IN Sum(4, [j \in 0..3 |-> lo[j] + hi[j]])

(* ... and its halves of bytes: 16-bit lanes are shifted, and what came over from the next byte masked. *)
Sse2Nibble(qs, i) ==
  IF i < 16 THEN (qs[i] % 16) - 8
  ELSE LET j    == i - 16
           lane == (qs[j - (j % 2)] + 256 * qs[j - (j % 2) + 1]) \div 16
       IN ((IF j % 2 = 0 THEN lane ELSE lane \div 256) % 16) - 8

(* AVX2: sixteen 16-bit lanes at a time. *)
Avx2(v, y) ==
  LET lo == Pairs(Slice(v, 0, 16), Slice(y, 0, 16), 8, Same)
      hi == Pairs(Slice(v, 16, 16), Slice(y, 16, 16), 8, Same)
  IN Sum(8, [j \in 0..7 |-> lo[j] + hi[j]])

(* NEON: eight products of 16 bits (vmull_s8), added in pairs to four lanes (vpaddlq_s16). *)
Neon(v, y) ==
  LET Added(k) == Pairs(Slice(v, 8 * k, 8), Slice(y, 8 * k, 8), 4, I16)
  IN Sum(4, [lane \in 0..3 |-> Added(0)[lane] + Added(1)[lane] + Added(2)[lane] + Added(3)[lane]])

(* simd128: the products of the low and of the high eight bytes, added in pairs. *)
Simd128(v, y) ==
  LET Half(from) == Pairs(Slice(v, from, 8), Slice(y, from, 8), 4, I16)
  IN Sum(4, [lane \in 0..3 |-> (Half(0)[lane] + Half(8)[lane]) + (Half(16)[lane] + Half(24)[lane])])

Scalar(v, y) == Sum(BLOCK, [i \in 0..(BLOCK - 1) |-> v[i] * y[i]])

Kernel(v, y) ==
  CASE target = "scalar"  -> Scalar(v, y)
    [] target = "sse2"    -> Sse2(v, y)
    [] target = "avx2"    -> Avx2(v, y)
    [] target = "neon"    -> Neon(v, y)
    [] target = "simd128" -> Simd128(v, y)

Quants(w) ==
  IF Format = "Q8_0" THEN w.q
  ELSE [i \in 0..(BLOCK - 1) |-> IF target = "sse2" THEN Sse2Nibble(w.qs, i) ELSE B!Q4_0Quant(w, i)]

-----------------------------------------------------------------------------
(* Rows. *)

(* dot_q8_0_q8a and dot_q4_0_q8a: block by block. *)
DotBlocks(row) ==
  FiniteSum(RowBlocks,
    [k \in 0..(RowBlocks - 1) |-> Times(Times(row[k].d, acts[k].d), Kernel(Quants(row[k]), acts[k].q))])

Q4KValue(w, i) == w.d * B!Q4KScale(w.scales, i \div 32) * B!Q4KQuant(w, i) - w.dmin * B!Q4KMin(w.scales, i \div 32)
Q6KValue(w, i) == w.d * w.scales[B!Q6KScaleIndex(i)] * B!Q6KQuant(w, i)

(* dot_q4_k_q8a: weight by weight; a block of weights meets eight of activations. *)
DotQ4K(row) ==
  FiniteSum(Cols, [c \in 0..(Cols - 1) |->
    LET i == c % SUPER
        a == acts[(c \div SUPER) * (SUPER \div BLOCK) + i \div BLOCK]
    IN Times(Q4KValue(row[c \div SUPER], i), Times(a.d, a.q[i % BLOCK]))])

(* dot_q6_k_q8k: eight lanes, each of every eighth weight; a scale serves two runs of eight. *)
Aux(w, a, lane) ==
  Sum(32, [run \in 0..31 |-> w.scales[run \div 2] * a.q[8 * run + lane] * B!Q6KQuant(w, 8 * run + lane)])
Lane(row, lane) ==
  FiniteSum(RowBlocks,
    [k \in 0..(RowBlocks - 1) |-> Times(Times(row[k].d, acts[k].d), Aux(row[k], acts[k], lane))])
DotQ6K(row) ==
  LET lanes == [l \in 0..7 |-> Lane(row, l)]
      total == FiniteSum(8, [l \in 0..7 |-> lanes[l].value])
  IN [ok |-> total.ok /\ \A l \in 0..7 : lanes[l].ok, value |-> total.value]

Row ==
  /\ status = "rows"
  /\ LET r   == Cardinality(DOMAIN out)
         dot == CASE Format = "Q4_K" -> DotQ4K(blocks[r])
                  [] Format = "Q6_K" -> DotQ6K(blocks[r])
                  [] OTHER           -> DotBlocks(blocks[r])
     IN /\ IF dot.ok THEN out' = [j \in 0..r |-> IF j < r THEN out[j] ELSE dot.value]
                     ELSE UNCHANGED out
        /\ status' = IF ~dot.ok THEN "non-finite"
                     ELSE IF r + 1 = Cardinality(DOMAIN matrix.rows) THEN "done" ELSE "rows"
  /\ UNCHANGED <<matrix, x, target, blocks, acts>>

DotNext == LoadMatrix \/ Quantize \/ Row
DotSpec == DotInit /\ [][DotNext]_dotVars

-----------------------------------------------------------------------------
(* The matrix and the vector as they were before they were cut into blocks. *)
Weight(r, c) ==
  LET w == blocks[r][c \div B!Weights(Format)]
      i == c % B!Weights(Format)
  IN CASE Format = "Q8_0" -> w.d * w.q[i]
       [] Format = "Q4_0" -> w.d * B!Q4_0Quant(w, i)
       [] Format = "Q4_K" -> Q4KValue(w, i)
       [] Format = "Q6_K" -> Q6KValue(w, i)

Activation(c) == acts[c \div ActLen].d * acts[c \div ActLen].q[c % ActLen]

(***************************************************************************)
(* On every target an element of the product is the plain sum over the     *)
(* columns of weight times quantised activation, and no activation is      *)
(* further than half a step from the element of x it stands for.  A kernel *)
(* that widened a byte without its sign, let two products wrap in 16 bits  *)
(* or paired a scale with other weights would still be deterministic on    *)
(* its target, and give logits that no other target gives.                 *)
(***************************************************************************)
RowsAreProducts ==
  status \in {"rows", "done"} =>
    /\ \A r \in DOMAIN out : out[r] = Sum(Cols, [c \in 0..(Cols - 1) |-> Weight(r, c) * Activation(c)])
    /\ \A c \in 0..(Cols - 1) : 2 * Abs(Activation(c) - 127 * x[c]) <= Abs(acts[c \div ActLen].d)
=============================================================================
