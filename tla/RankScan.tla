------------------------------ MODULE RankScan ------------------------------
(***************************************************************************)
(* The byte-BPE rule that docs/validation.md calls the direct rank scan:   *)
(* among the neighbours that have a merge, the pair of the lowest rank is  *)
(* merged, the leftmost of them if there are several.                      *)
(*                                                                         *)
(* The tokens stand at positions; merging a pair leaves its token at the   *)
(* left position and nothing at the right one.                             *)
(***************************************************************************)
EXTENDS Integers

CONSTANTS
  ByteTokens,    \* the tokens of one byte, that the input is made of
  MaxLen,        \* bound: bytes of an input
  MergeTables    \* merge tables: pairs of tokens to [rank, id]

VARIABLES
  merge_ranks,   \* the merge table
  piece          \* the token at each position that has one

rvars == <<merge_ranks, piece>>

Init ==
  /\ merge_ranks \in MergeTables
  /\ \E n \in 0 .. MaxLen : piece \in [1 .. n -> ByteTokens]

\* Neighbours that have a merge.
Mergeable(i, j) ==
  /\ i \in DOMAIN piece /\ j \in DOMAIN piece /\ i < j
  /\ \A k \in DOMAIN piece : ~(i < k /\ k < j)
  /\ <<piece[i], piece[j]>> \in DOMAIN merge_ranks

Rank(i, j) == merge_ranks[<<piece[i], piece[j]>>].rank

Merge(i, j) ==
  /\ Mergeable(i, j)
  /\ \A k, l \in DOMAIN piece : Mergeable(k, l) =>
       Rank(i, j) < Rank(k, l) \/ (Rank(i, j) = Rank(k, l) /\ i <= k)
  /\ piece' = [k \in DOMAIN piece \ {j} |->
                 IF k = i THEN merge_ranks[<<piece[i], piece[j]>>].id ELSE piece[k]]
  /\ UNCHANGED merge_ranks

Next == \E i, j \in DOMAIN piece : Merge(i, j)

Spec == Init /\ [][Next]_rvars
=============================================================================
