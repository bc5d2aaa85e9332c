------------------------------ MODULE BpeMerge ------------------------------
(***************************************************************************)
(* ByteBpeTokenizer::tokenize_bytes of det-token/src/lib.rs: the merges of *)
(* RankScan, found with a heap of candidate pairs over a doubly linked     *)
(* list of positions.  Entries are never taken out of the heap when their  *)
(* pair disappears; an entry that is popped is checked against the list.   *)
(*                                                                         *)
(* Positions are counted from 1, and 0 stands for None in a link.  The     *)
(* heap is a set: a second copy of an entry would be popped next to the    *)
(* first, and be stale then.                                               *)
(***************************************************************************)
EXTENDS Integers, Sequences

CONSTANTS
  ByteTokens,    \* the tokens of one byte, that the input is made of
  MaxLen,        \* bound: bytes of an input
  Ids,           \* all tokens
  Pieces,        \* the bytes each of them stands for
  MergeTables    \* merge tables: pairs of tokens to [rank, id]

Byte == 0 .. 255

\* A merge has a rank of its own, its line in the file, and gives the token
\* that is spelled as its two parts.
ASSUME MergeAssumption ==
  /\ ByteTokens \subseteq Ids
  /\ MaxLen \in Nat
  /\ Pieces \in [Ids -> Seq(Byte)]
  /\ \A token \in ByteTokens : Len(Pieces[token]) = 1
  /\ \A table \in MergeTables :
       /\ DOMAIN table \subseteq Ids \X Ids
       /\ \A pair \in DOMAIN table :
            /\ table[pair] \in [rank : Nat, id : Ids]
            /\ Pieces[table[pair].id] = Pieces[pair[1]] \o Pieces[pair[2]]
       /\ \A pair, other \in DOMAIN table :
            table[pair].rank = table[other].rank => pair = other

VARIABLES
  merge_ranks,   \* the merge table
  input,         \* the bytes to tokenize
  ids, prev, next, alive,   \* the list: alive is the set of live positions
  heap,
  index,         \* the position the output walk is at
  out,
  pc             \* "merge", "walk", "done"

list == <<ids, prev, next, alive>>
vars == <<merge_ranks, input, list, heap, index, out, pc>>

Positions == DOMAIN ids

Entry(table, i, pair) == [rank |-> table[pair].rank, index |-> i, id |-> table[pair].id]

\* push_bpe_pair: what is pushed for a position and its right neighbour.
Pushed(table, tokens, left, right) ==
  IF right # 0 /\ <<tokens[left], tokens[right]>> \in DOMAIN table
  THEN { Entry(table, left, <<tokens[left], tokens[right]>>) }
  ELSE {}

Init ==
  /\ merge_ranks \in MergeTables
  /\ \E n \in 0 .. MaxLen :
       /\ ids \in [1 .. n -> ByteTokens]
       /\ input = [i \in 1 .. n |-> Pieces[ids[i]][1]]
       /\ prev = [i \in 1 .. n |-> i - 1]
       /\ next = [i \in 1 .. n |-> IF i = n THEN 0 ELSE i + 1]
       /\ alive = 1 .. n
       /\ heap = UNION { Pushed(merge_ranks, ids, i, i + 1) : i \in 1 .. n - 1 }
       /\ IF n < 2 THEN pc = "done" /\ out = ids /\ index = 0
                   ELSE pc = "merge" /\ out = <<>> /\ index = 1

-----------------------------------------------------------------------------
(***************************************************************************)
(* The merge loop.                                                         *)
(***************************************************************************)
\* Mutated form: the leftmost entry first.
LeastByIndex(e) ==
  /\ e \in heap
  /\ \A f \in heap : e.index < f.index \/ (e.index = f.index /\ e.rank <= f.rank)

Least(e) ==
  /\ e \in heap
  /\ \A f \in heap : e.rank < f.rank \/ (e.rank = f.rank /\ e.index <= f.index)

\* Mutated form: the pair is not looked up again.
CurrentUnchecked(e) == e.index \in alive /\ next[e.index] # 0

Current(e) ==
  LET right == next[e.index]
      pair  == <<ids[e.index], ids[right]>>
  IN  /\ e.index \in alive
      /\ right # 0
      /\ right \in alive
      /\ pair \in DOMAIN merge_ranks /\ Entry(merge_ranks, e.index, pair) = e

SkipKept(e) ==   \* mutated form: the entry is only looked at
  /\ pc = "merge"
  /\ Least(e)
  /\ ~Current(e)
  /\ UNCHANGED vars

Skip(e) ==
  /\ pc = "merge"
  /\ Least(e)
  /\ ~Current(e)
  /\ heap' = heap \ {e}
  /\ UNCHANGED <<merge_ranks, input, list, index, out, pc>>

\* The pairs that the token now at e.index forms with its neighbours.
NewPairs(e, tokens, after) ==
  (IF prev[e.index] = 0 THEN {}
   ELSE Pushed(merge_ranks, tokens, prev[e.index], e.index))
  \cup Pushed(merge_ranks, tokens, e.index, after)

\* prev, when i has become the left neighbour of after.
Relinked(after, i) == IF after = 0 THEN prev ELSE [prev EXCEPT ![after] = i]

Merge(e) ==
  LET right == next[e.index]
      after == next[right]
  IN  /\ pc = "merge"
      /\ Least(e) /\ Current(e)
      /\ ids' = [ids EXCEPT ![e.index] = e.id]
      /\ alive' = alive \ {right}
      /\ next' = [next EXCEPT ![e.index] = after]
      /\ prev' = Relinked(after, e.index)
      /\ heap' = (heap \ {e}) \cup NewPairs(e, ids', after)
      /\ UNCHANGED <<merge_ranks, input, index, out, pc>>

MergesDone ==
  /\ pc = "merge"
  /\ heap = {}
  /\ pc' = "walk"
  /\ UNCHANGED <<merge_ranks, input, list, heap, index, out>>

(***************************************************************************)
(* The output: a walk along the list.                                      *)
(***************************************************************************)
Walk ==
  /\ pc = "walk"
  /\ index # 0
  /\ out' = IF index \in alive THEN Append(out, ids[index]) ELSE out
  /\ index' = next[index]
  /\ UNCHANGED <<merge_ranks, input, list, heap, pc>>

WalkDone ==
  /\ pc = "walk"
  /\ index = 0
  /\ pc' = "done"
  /\ UNCHANGED <<merge_ranks, input, list, heap, index, out>>

Next ==
  \/ \E e \in heap : Skip(e) \/ Merge(e)
  \/ MergesDone
  \/ Walk \/ WalkDone

Spec == Init /\ [][Next]_vars

\* The loops run on.
FairSpec == Spec /\ WF_vars(Next)

-----------------------------------------------------------------------------
TypeOK ==
  /\ merge_ranks \in MergeTables
  /\ \E n \in 0 .. MaxLen :
       /\ ids \in [1 .. n -> Ids] /\ input \in [1 .. n -> Byte]
       /\ prev \in [1 .. n -> 0 .. n] /\ next \in [1 .. n -> 0 .. n]
       /\ alive \subseteq 1 .. n /\ index \in 0 .. n
       /\ heap \subseteq [rank : Nat, index : 1 .. n, id : Ids]
  /\ out \in Seq(Ids)
  /\ pc \in {"merge", "walk", "done"}

\* i and j are in S and nothing of S lies between them.
Adjacent(S, i, j) ==
  /\ i \in S /\ j \in S /\ i < j
  /\ \A k \in S : ~(i < k /\ k < j)

(***************************************************************************)
(* The links of a live position name its live neighbours, in both          *)
(* directions, however many positions were merged away between them.       *)
(***************************************************************************)
LinksAreNeighbours ==
  \A i \in alive :
    /\ IF next[i] = 0 THEN \A j \in alive : j <= i ELSE Adjacent(alive, i, next[i])
    /\ IF prev[i] = 0 THEN \A j \in alive : i <= j ELSE Adjacent(alive, prev[i], i)

(***************************************************************************)
(* No merge is missed: every pair of neighbours that has a merge is in the *)
(* heap, so that none is left when the heap is empty.                      *)
(***************************************************************************)
CandidatesInHeap ==
  \A i, j \in alive :
    Adjacent(alive, i, j) /\ <<ids[i], ids[j]>> \in DOMAIN merge_ranks =>
      Entry(merge_ranks, i, <<ids[i], ids[j]>>) \in heap

(***************************************************************************)
(* Each turn of the loop makes the merge the rank scan would make next, or *)
(* drops a stale entry.                                                    *)
(***************************************************************************)
Scan == INSTANCE RankScan WITH piece <- [p \in alive |-> ids[p]]

MergesByRankScan == Scan!Spec

(***************************************************************************)
(* The tokens that tokenize_bytes returns cut the input into their own     *)
(* bytes, without a gap or an overlap, and no two that stand side by side  *)
(* have a merge left.                                                      *)
(***************************************************************************)
\* How many bytes stand before each token, and before the end.
BytesBefore(tokens) ==
  LET length == [k \in DOMAIN tokens |-> Len(Pieces[tokens[k]])]
      total[k \in 1 .. Len(length) + 1] ==
        IF k = 1 THEN 0 ELSE total[k - 1] + length[k - 1]
  IN  total

OutputIsMerged ==
  pc = "done" =>
    LET before == BytesBefore(out)
    IN  /\ before[Len(out) + 1] = Len(input)
        /\ \A k \in 1 .. Len(out) :
             Pieces[out[k]] = SubSeq(input, before[k] + 1, before[k + 1])
        /\ \A k \in 1 .. Len(out) - 1 : <<out[k], out[k + 1]>> \notin DOMAIN merge_ranks

(***************************************************************************)
(* However many stale entries the merges leave behind, the heap runs empty *)
(* and tokenize_bytes returns.                                             *)
(***************************************************************************)
TokenizeReturns == <>(pc = "done")
=============================================================================
