--------------------------- MODULE MCTokenStream ----------------------------
(***************************************************************************)
(* A token stream over given tables, and on its own what gives the tables, *)
(* the scratch of the frequency tables under any sequence of calls, and    *)
(* what decodes it, a decoder on any payload and under any calls.  One of  *)
(* the three takes steps, the others stay as they began.                   *)
(***************************************************************************)
EXTENDS TokenStream, CdfScratch, RangeDecoder

VARIABLE part

\* An even table, a skewed one with the largest total allowed, and one whose
\* total does not divide the range.
MCTables == { TableOf(<<1, 1>>), TableOf(<<5, 1, 1>>), TableOf(<<1, 2>>) }

\* With a tail of two: tables up to the limit of four symbols and past it,
\* totals up to the limit of eight and past it, with and without the tail.
MCLogits ==
  { <<>>, <<0, 2>>, <<1, 3>>, <<3, 3>>, <<NonFinite, 0>>,
    <<1, 0, 1>>, <<0, 0, 0, 0, 0>> }

\* Every payload of up to PayloadLength digits, valid or not.
PayloadLength == 7
MCPayloads == UNION { [1 .. n -> Digit] : n \in 0 .. PayloadLength }

PartsInit ==
  /\ Init /\ ScratchInit
  /\ \/ part \in {"stream", "scratch"} /\ Open(<<>>)
     \/ part = "decoder" /\ DecoderInit

PartsNext ==
  /\ UNCHANGED part
  /\ \/ part = "stream" /\ Next /\ UNCHANGED <<scratchVars, decoderVars>>
     \/ part = "scratch" /\ ScratchNext /\ UNCHANGED <<vars, decoderVars>>
     \/ part = "decoder" /\ DecoderNext /\ UNCHANGED <<vars, scratchVars>>

PartsSpec == PartsInit /\ [][PartsNext]_<<vars, scratchVars, decoderVars, part>>
=============================================================================
