----------------------------- MODULE QuantBlock ------------------------------
(***************************************************************************)
(* The block formats of det-quant.  A block is read from its bytes in the  *)
(* model file into its fields, and each of its weights from a few bits of  *)
(* them: low bits here, high bits there, a scale and a minimum packed into *)
(* three bytes with others.  The specification flips the bits of a block,  *)
(* byte after byte, and notes what each of them changes.                   *)
(*                                                                         *)
(* Bytes are numbers from 0 to 255; positions count from 0, as in the      *)
(* code.  An f16 is its 16 bits.                                           *)
(***************************************************************************)
EXTENDS Integers, FiniteSets

CONSTANTS
  Formats,   \* of "Q8_0", "Q4_0", "Q4_K", "Q6_K"
  Fills      \* what a block holds before a bit is flipped: functions from positions to bytes

BLOCK == 32
SUPER == 256   \* Q4K_BLOCK and Q6K_BLOCK

VARIABLES format, fill, probed, changed

vars == <<format, fill, probed, changed>>

Low(b)  == b % 16
High(b) == b \div 16
Int8(b) == IF b < 128 THEN b ELSE b - 256
Field(bytes, from, len) == [i \in 0..(len - 1) |-> bytes[from + i]]
F16(bytes, at) == bytes[at] + 256 * bytes[at + 1]

-----------------------------------------------------------------------------
(***************************************************************************)
(* The blocks of a row as read_q8_matrix and its siblings cut them: the    *)
(* bytes of one block, and its fields.                                     *)
(***************************************************************************)
BlockBytes == [Q8_0 |-> 34, Q4_0 |-> 18, Q4_K |-> 144, Q6_K |-> 210]
Weights(f) == IF f \in {"Q8_0", "Q4_0"} THEN BLOCK ELSE SUPER

Q8_0Block(bytes) == [d |-> F16(bytes, 0), q |-> [i \in 0..(BLOCK - 1) |-> Int8(bytes[2 + i])]]
Q4_0Block(bytes) == [d |-> F16(bytes, 0), qs |-> Field(bytes, 2, 16)]
Q4KBlock(bytes)  == [d |-> F16(bytes, 0), dmin |-> F16(bytes, 2),
                     scales |-> Field(bytes, 4, 12), qs |-> Field(bytes, 16, 128)]
Q6KBlock(bytes)  == [ql |-> Field(bytes, 0, 128), qh |-> Field(bytes, 128, 64),
                     scales |-> [k \in 0..15 |-> Int8(bytes[192 + k])], d |-> F16(bytes, 208)]

-----------------------------------------------------------------------------
(* What the kernels read from the fields. *)

(* The weights of Q4_0: the low halves of all bytes, then the high halves. *)
Q4_0Quant(w, i) == (IF i < BLOCK \div 2 THEN Low(w.qs[i]) ELSE High(w.qs[i - BLOCK \div 2])) - 8

(* q4_k_value: two sub-blocks of 32 weights share 32 bytes. *)
Q4KQuant(w, i) ==
  LET sub  == i \div 32
      byte == w.qs[(sub \div 2) * 32 + (i % 32)]
  IN IF sub % 2 = 0 THEN Low(byte) ELSE High(byte)

(* q4_k_scale_min: eight scales and eight minima of 6 bits in 12 bytes. *)
Q4KScale(s, k) == IF k < 4 THEN s[k] % 64 ELSE Low(s[k + 4]) + (s[k - 4] \div 64) * 16

(* A mutated form: the high bits of a minimum are taken where those of the scale are. *)
Q4KMinOfScale(s, k) == IF k < 4 THEN s[k + 4] % 64 ELSE High(s[k + 4]) + (s[k - 4] \div 64) * 16

Q4KMin(s, k)   == IF k < 4 THEN s[k + 4] % 64 ELSE High(s[k + 4]) + (s[k] \div 64) * 16

(* q6_k_quant: four bits of ql and two of qh; 32 positions in a half share the bytes of four parts. *)
Q6KQuant(w, i) ==
  LET half == i \div 128
      part == (i % 128) \div 32
      l    == i % 32
      byte == w.ql[half * 64 + l + 32 * (part % 2)]
      high == (w.qh[half * 32 + l] \div 4 ^ part) % 4
  IN (IF part < 2 THEN Low(byte) ELSE High(byte)) + 16 * high - 32

(* q6_k_scale_index *)
Q6KScaleIndex(i) == (i \div 128) * 8 + (i % 32) \div 16 + 2 * ((i % 128) \div 32)

-----------------------------------------------------------------------------
(* All that is read from a block, by name: the quants, and what they are multiplied with. *)
Positions(f) == 0..(Weights(f) - 1)

Names(f) ==
  ({"q"} \X Positions(f)) \cup {<<"d", 0>>} \cup
  (CASE f = "Q4_K" -> ({"scale", "min"} \X (0..7)) \cup {<<"dmin", 0>>}
     [] f = "Q6_K" -> {"scale"} \X (0..15)
     [] OTHER      -> {})

Reading(f, bytes) ==
  CASE f = "Q8_0" -> LET w == Q8_0Block(bytes)
                     IN [n \in Names(f) |-> IF n[1] = "q" THEN w.q[n[2]] ELSE w.d]
    [] f = "Q4_0" -> LET w == Q4_0Block(bytes)
                     IN [n \in Names(f) |-> IF n[1] = "q" THEN Q4_0Quant(w, n[2]) ELSE w.d]
    [] f = "Q4_K" -> LET w == Q4KBlock(bytes)
                     IN [n \in Names(f) |->
                          CASE n[1] = "q"     -> Q4KQuant(w, n[2])
                            [] n[1] = "scale" -> Q4KScale(w.scales, n[2])
                            [] n[1] = "min"   -> Q4KMin(w.scales, n[2])
                            [] n[1] = "d"     -> w.d
                            [] n[1] = "dmin"  -> w.dmin]
    [] f = "Q6_K" -> LET w == Q6KBlock(bytes)
                     IN [n \in Names(f) |->
                          CASE n[1] = "q"     -> Q6KQuant(w, n[2])
                            [] n[1] = "scale" -> w.scales[n[2]]
                            [] n[1] = "d"     -> w.d]

Bits(f, name) ==
  CASE name \in {"d", "dmin"}          -> 16
    [] name = "q" /\ f = "Q8_0"        -> 8
    [] name = "scale" /\ f = "Q6_K"    -> 8
    [] name = "q" /\ f = "Q6_K"        -> 6
    [] name \in {"scale", "min"} /\ f = "Q4_K" -> 6
    [] OTHER                           -> 4

-----------------------------------------------------------------------------
Init ==
  /\ format \in Formats
  /\ fill \in Fills
  /\ probed = 0
  /\ changed = {}

Flip(byte, bit) == IF (byte \div 2 ^ bit) % 2 = 0 THEN byte + 2 ^ bit ELSE byte - 2 ^ bit

Distance(v, w) == IF v < w THEN w - v ELSE v - w

(* Each bit of the next byte is flipped: what is read another way, and by how much. *)
Probe ==
  /\ probed < BlockBytes[format]
  /\ LET bytes  == [i \in 0..(BlockBytes[format] - 1) |-> fill[i]]
         before == Reading(format, bytes)
         Changes(after) == {<<n, Distance(before[n], after[n])>> :
                              n \in {m \in Names(format) : before[m] # after[m]}}
     IN changed' = changed \cup
          UNION {Changes(Reading(format, [bytes EXCEPT ![probed] = Flip(@, bit)])) : bit \in 0..7}
  /\ probed' = probed + 1
  /\ UNCHANGED <<format, fill>>

Next == Probe
Spec == Init /\ [][Next]_vars

-----------------------------------------------------------------------------
Places(f) == UNION {{<<n, 2 ^ b>> : b \in 0..(Bits(f, n[1]) - 1)} : n \in Names(f)}

(***************************************************************************)
(* Every bit of a block is one bit of one value: each flip changes one     *)
(* value by a power of two no other flip changed it by, and in the end all *)
(* bits of all weights, scales and minima were reached.  Two weights that  *)
(* share a bit, or a bit that nothing reads, would give a model whose      *)
(* results are deterministic and wrong.                                    *)
(***************************************************************************)
EveryBitIsRead ==
  /\ changed \subseteq Places(format)
  /\ Cardinality(changed) = 8 * probed
  /\ probed = BlockBytes[format] => changed = Places(format)
=============================================================================
