--------------------------- MODULE CompareLogits ----------------------------
(***************************************************************************)
(* The three commands of xtask that decide whether results agree:          *)
(* compare-logits on two dumps, compare-llamacpp-logprobs on a model and a *)
(* dump of llama.cpp, and verify-logits-hashes on a directory of artifacts.*)
(*                                                                         *)
(* Values are integers.  A cosine is compared by its signed square, a      *)
(* fraction, and so is its threshold and the root mean square's; a         *)
(* difference is compared as it is.  Rows, columns and positions count     *)
(* from 0, as in the source.                                               *)
(***************************************************************************)
EXTENDS Integers, Sequences, FiniteSets, SequencesExt, FiniteSetsExt, Functions

CONSTANTS
  Dumps,        \* what is given to compare-logits: [actual, reference, min_cosine, row_size, rows, worst_rows, top_diffs]
  Perplexities, \* what llama.cpp was run on: [n_ctx, n_vocab, chunks, add_bos, changed, lost], the model and the limits
  LogProb(_, _),\* of a token after a sequence of tokens, for the one model there is
  Bos,          \* tokenizer.ggml.bos_token_id
  Trees,        \* artifacts: the files below --dir, with their lines, and --expected-count
  Labels,       \* EXPECTED_LOGITS_HASH_LABELS
  None

VARIABLES
  job,
  file,      \* the dump of llama.cpp
  verdict

vars == <<job, file, verdict>>

Error == [ok |-> FALSE]

-----------------------------------------------------------------------------
(***************************************************************************)
(* compare-logits.                                                         *)
(***************************************************************************)
Abs(x) == IF x < 0 THEN -x ELSE x
Square(x) == x * x
Dot(a, b) == FoldLeft(LAMBDA sum, i : sum + a[i] * b[i], 0, [i \in DOMAIN a |-> i])

\* compare_logits_values; the norms are not zero when there are metrics.
Diffs(a, r) == [i \in DOMAIN a |-> Abs(a[i] - r[i])]
CanCompare(a, r) == Len(a) = Len(r) /\ a # <<>> /\ Dot(a, a) # 0 /\ Dot(r, r) # 0
Metrics(a, r) ==
  [cosine |-> [num |-> (IF Dot(a, r) < 0 THEN -1 ELSE 1) * Square(Dot(a, r)), den |-> Dot(a, a) * Dot(r, r)],
   max_abs_diff |-> Max(ToSet(Diffs(a, r)))]

Below(c, d) == c.num * d.den < d.num * c.den

\* compare_logits_rows: the first of the rows with the least cosine.
Row(values, row_size, row) == SubSeq(values, row * row_size + 1, (row + 1) * row_size)
Rows(values, row_size) == 0 .. Len(values) \div row_size - 1
RowMetrics(d, row) == Metrics(Row(d.actual, d.row_size, row), Row(d.reference, d.row_size, row))
CanSplit(d) ==
  /\ Len(d.actual) % d.row_size = 0
  /\ \A row \in Rows(d.actual, d.row_size) :
       CanCompare(Row(d.actual, d.row_size, row), Row(d.reference, d.row_size, row))
MinRow(d) ==
  FoldLeft(LAMBDA least, row : IF Below(RowMetrics(d, row).cosine, RowMetrics(d, least).cosine) THEN row ELSE least,
           0, [i \in 1 .. Cardinality(Rows(d.actual, d.row_size)) |-> i - 1])

\* worst_logits_rows and top_logits_diffs, which sorts and truncates as it goes.
Worse(d, row, other) ==
  LET m == RowMetrics(d, row)
      n == RowMetrics(d, other)
  IN  \/ Below(m.cosine, n.cosine)
      \/ ~Below(n.cosine, m.cosine) /\ m.max_abs_diff > n.max_abs_diff
      \/ ~Below(n.cosine, m.cosine) /\ m.max_abs_diff = n.max_abs_diff /\ row < other
Truncated(seq, limit) == SubSeq(seq, 1, IF limit < Len(seq) THEN limit ELSE Len(seq))
WorstRows(d) ==
  Truncated(SetToSortSeq(Rows(d.actual, d.row_size), LAMBDA row, other : Worse(d, row, other)), d.worst_rows)

Larger(diffs, i, j) == diffs[i] > diffs[j] \/ (diffs[i] = diffs[j] /\ i < j)
TopDiffs(d) ==
  LET diffs == Diffs(d.actual, d.reference)
  IN  FoldLeft(LAMBDA top, i :
        Truncated(SetToSortSeq(ToSet(top) \cup {i}, LAMBDA k, l : Larger(diffs, k, l)), d.top_diffs),
        <<>>, [i \in DOMAIN diffs |-> i])

PassesThreshold(d) ==
  d.min_cosine # None =>
    /\ ~Below(Metrics(d.actual, d.reference).cosine, d.min_cosine)
    /\ d.row_size # None => ~Below(RowMetrics(d, MinRow(d)).cosine, d.min_cosine)

Accepts(d) ==
  /\ CanCompare(d.actual, d.reference)
  /\ d.row_size # None => CanSplit(d)
  /\ PassesThreshold(d)
  /\ IF d.row_size = None THEN d.worst_rows = 0
     ELSE d.rows # None => Cardinality(Rows(d.actual, d.row_size)) = d.rows

CompareDumps ==
  /\ job.command = "compare-logits" /\ verdict = None
  /\ verdict' = IF ~Accepts(job.input) THEN Error
                ELSE [ok |-> TRUE, top |-> TopDiffs(job.input),
                      min_row |-> IF job.input.row_size = None THEN None ELSE MinRow(job.input),
                      worst |-> IF job.input.row_size = None THEN <<>> ELSE WorstRows(job.input)]
  /\ UNCHANGED <<job, file>>

-----------------------------------------------------------------------------
(***************************************************************************)
(* compare-llamacpp-logprobs.  The dump is a sequence of 16-bit units: 10  *)
(* of header (4 of magic, 2 for each of n_ctx, n_vocab and the number of   *)
(* chunks), 2 for each token, and for each row 2 + 2 of scale and least    *)
(* log-probability and the probabilities, padded to an even number.  A     *)
(* unit holds what was written there, or Filler.  llama.cpp leaves out the *)
(* first half of a chunk and its last position.                            *)
(***************************************************************************)
Filler == -1
Header == 10

First(n_ctx) == n_ctx \div 2
RowsPerChunk(n_ctx) == n_ctx - (1 + First(n_ctx))
\* Mutated form: the row is not padded.
RowUnitsUnpadded(n_vocab) == n_vocab + 4
RowUnits(n_vocab) == (2 * ((n_vocab + 1) \div 2)) + 4

\* What the evaluation at a position is of: the chunk, its first token BOS.
WithBos(tokens, add_bos) == IF add_bos THEN <<Bos>> \o Tail(tokens) ELSE tokens
After(tokens, add_bos, position) == SubSeq(WithBos(tokens, add_bos), 1, position + 1)

\* What llama.cpp writes, with one value changed if there is a change.
Dump(p) ==
  LET even   == p.n_vocab % 2 = 0
      row(c, position) ==
        <<Filler, Filler, Filler, Filler>>
          \o [v \in 1 .. p.n_vocab |-> LogProb(After(p.chunks[c], p.add_bos, position), v - 1)
                + (IF p.changed = <<c, position, v - 1>> THEN 1 ELSE 0)]
          \o (IF even THEN <<>> ELSE <<Filler>>)
      rows(c) == FlattenSeq([i \in 1 .. p.n_ctx - p.n_ctx \div 2 - 1 |-> row(c, p.n_ctx \div 2 + i - 1)])
  IN  <<Filler, Filler, Filler, Filler, p.n_ctx, Filler, p.n_vocab, Filler, Len(p.chunks), Filler>>
        \o FlattenSeq([i \in 1 .. p.n_ctx * Len(p.chunks) |->
             <<p.chunks[((i - 1) \div p.n_ctx) + 1][((i - 1) % p.n_ctx) + 1], Filler>>])
        \o FlattenSeq([c \in DOMAIN p.chunks |-> rows(c)])

WriteDump ==
  /\ job.command = "compare-llamacpp-logprobs" /\ file = None
  /\ file' = SubSeq(Dump(job.input), 1, Len(Dump(job.input)) - job.input.lost)
  /\ UNCHANGED <<job, verdict>>

\* parse_llamacpp_logprob_dump.
Layout == [n_ctx |-> file[5], n_vocab |-> file[7], n_chunks |-> file[9]]
RowsStart(l) == Header + 2 * l.n_ctx * l.n_chunks
RowStart(l, chunk, row) == RowsStart(l) + (chunk * RowsPerChunk(l.n_ctx) + row) * RowUnits(l.n_vocab)
Token(index) == file[Header + 2 * index + 1]
CanParse(l) ==
  /\ l.n_vocab > 0 /\ l.n_chunks > 0
  /\ l.n_ctx >= 2 /\ RowsPerChunk(l.n_ctx) > 0
  /\ Len(file) = RowStart(l, l.n_chunks, 0)
  /\ \A index \in 0 .. l.n_ctx * l.n_chunks - 1 : Token(index) \in 0 .. l.n_vocab - 1
ParsedRows(l) ==
  { [chunk |-> chunk, position |-> First(l.n_ctx) + row,
     target |-> Token(chunk * l.n_ctx + First(l.n_ctx) + row + 1),
     log_probs |-> [v \in 0 .. l.n_vocab - 1 |-> file[RowStart(l, chunk, row) + 4 + v + 1]]] :
      chunk \in 0 .. l.n_chunks - 1, row \in 0 .. RowsPerChunk(l.n_ctx) - 1 }

\* llama_cpp_bos_policy.
AddBos(p) == IF p.add_bos_token = None THEN p.tokenizer = "llama" ELSE p.add_bos_token

\* compare_llamacpp_logprob_values: the differences of a row, over all tokens, and what is kept of all of them.
RowDiffs(l, add_bos, row) ==
  LET tokens == [i \in 1 .. l.n_ctx |-> Token(row.chunk * l.n_ctx + i - 1)]
  IN  [v \in 0 .. l.n_vocab - 1 |-> Abs(LogProb(After(tokens, add_bos, row.position), v) - row.log_probs[v])]
LogProbMetrics(l, add_bos) ==
  LET rows == ParsedRows(l)
      diffs(row) == RowDiffs(l, add_bos, row)
      squares(row) == LET d == diffs(row) IN MapThenSumSet(LAMBDA v : Square(d[v]), DOMAIN d)
  IN  [rows |-> Cardinality(rows), values |-> Cardinality(rows) * l.n_vocab,
       max_abs_diff |-> Max(UNION { Range(diffs(row)) : row \in rows }),
       sum_sq_diff |-> MapThenSumSet(squares, rows),
       max_target_abs_diff |-> Max({ diffs(row)[row.target] : row \in rows })]

\* Rows that are compared are as wide as the model's; BOS is a token of it.
CanCompareRows(p, l) == l.n_vocab = p.model_vocab /\ (AddBos(p) => Bos < p.model_vocab)
WithinLimits(p, m) ==
  /\ p.max_abs_diff # None => m.max_abs_diff <= p.max_abs_diff
  /\ p.max_rms_diff # None => m.sum_sq_diff * p.max_rms_diff.den <= p.max_rms_diff.num * m.values
  /\ p.max_target_abs_diff # None => m.max_target_abs_diff <= p.max_target_abs_diff

CompareLlamaCpp ==
  /\ job.command = "compare-llamacpp-logprobs" /\ file # None /\ verdict = None
  /\ verdict' =
       IF Len(file) < Header \/ ~CanParse(Layout) \/ ~CanCompareRows(job.input, Layout) THEN Error
       ELSE LET m == LogProbMetrics(Layout, AddBos(job.input))
            IN  IF WithinLimits(job.input, m) THEN [ok |-> TRUE, metrics |-> m] ELSE Error
  /\ UNCHANGED <<job, file>>

-----------------------------------------------------------------------------
(***************************************************************************)
(* verify-logits-hashes: a file is the sequence of its lines, a line of    *)
(* fields.  The first file, in the order of the paths, is the reference.   *)
(***************************************************************************)
ValidHash(hash) == hash > 0
CanParseHashes(lines) ==
  /\ \A i \in DOMAIN lines : Len(lines[i]) = 2 /\ ValidHash(lines[i][2])
  /\ Len(lines) = Cardinality(Labels)
  /\ { lines[i][1] : i \in DOMAIN lines } = Labels
Hashes(lines) == { <<lines[i][1], lines[i][2]>> : i \in DOMAIN lines }

VerifyHashes ==
  /\ job.command = "verify-logits-hashes" /\ verdict = None
  /\ LET files == job.input.files
     IN  verdict' = IF /\ Len(files) = job.input.expected_count
                       /\ \A i \in DOMAIN files : CanParseHashes(files[i]) /\ Hashes(files[i]) = Hashes(files[1])
                    THEN [ok |-> TRUE] ELSE Error
  /\ UNCHANGED <<job, file>>

-----------------------------------------------------------------------------
Given(command, inputs) == { [command |-> command, input |-> input] : input \in inputs }

Init ==
  /\ job \in Given("compare-logits", Dumps) \cup Given("compare-llamacpp-logprobs", Perplexities)
               \cup Given("verify-logits-hashes", Trees)
  /\ file = None /\ verdict = None

Next == CompareDumps \/ WriteDump \/ CompareLlamaCpp \/ VerifyHashes

Spec == Init /\ [][Next]_vars

Accepted(command) == job.command = command /\ verdict # None /\ verdict # Error

(***************************************************************************)
(* compare-logits accepts two dumps only if every row, and not the average *)
(* only, is at least as close as was asked; it names a closest-to-failing  *)
(* row that heads the list of worst rows; and the largest differences it   *)
(* lists, kept by sorting as it goes, are the largest there are.           *)
(***************************************************************************)
DumpsAgree ==
  Accepted("compare-logits") =>
    LET d     == job.input
        diffs == Diffs(d.actual, d.reference)
    IN  /\ d.row_size # None =>
             /\ \A row \in Rows(d.actual, d.row_size) :
                  /\ d.min_cosine # None => ~Below(RowMetrics(d, row).cosine, d.min_cosine)
                  /\ ~Below(RowMetrics(d, row).cosine, RowMetrics(d, verdict.min_row).cosine)
             /\ d.worst_rows > 0 =>
                  ~Below(RowMetrics(d, verdict.min_row).cosine, RowMetrics(d, verdict.worst[1]).cosine)
        /\ Len(verdict.top) = Min({d.top_diffs, Len(diffs)})
        /\ \A i \in DOMAIN diffs \ ToSet(verdict.top) : \A j \in ToSet(verdict.top) :
             diffs[j] > diffs[i] \/ (diffs[j] = diffs[i] /\ j < i)

(***************************************************************************)
(* compare-llamacpp-logprobs compares like with like: a whole dump of the  *)
(* same model, from odd and even vocabularies and windows, is read, and    *)
(* differences are found if and only if one was made (or BOS is set        *)
(* differently), on the row, the position and the target where it was      *)
(* made; what was made is refused when it is over a limit that was given,  *)
(* and nothing else is.                                                    *)
(***************************************************************************)
RowsAlign ==
  job.command = "compare-llamacpp-logprobs" /\ verdict # None =>
    LET p      == job.input
        rows   == Len(p.chunks) * ((p.n_ctx - 1) \div 2)
        any    == IF p.changed = None THEN 0 ELSE 1
        target == IF p.changed # None /\ p.chunks[p.changed[1]][p.changed[2] + 2] = p.changed[3] THEN 1 ELSE 0
        fits   == p.lost = 0 /\ p.model_vocab = p.n_vocab /\ (AddBos(p) => Bos < p.n_vocab)
        within == /\ p.max_abs_diff # None => any <= p.max_abs_diff
                  /\ p.max_target_abs_diff # None => target <= p.max_target_abs_diff
                  /\ p.max_rms_diff # None => any * p.max_rms_diff.den <= p.max_rms_diff.num * rows * p.n_vocab
    IN  /\ verdict # Error => fits
        /\ fits /\ AddBos(p) = p.add_bos =>
             IF within
             THEN verdict = [ok |-> TRUE,
                             metrics |-> [rows |-> rows, values |-> rows * p.n_vocab, max_abs_diff |-> any,
                                          sum_sq_diff |-> any, max_target_abs_diff |-> target]]
             ELSE verdict = Error

(***************************************************************************)
(* verify-logits-hashes passes only if every platform has every fixture    *)
(* and all have the same hash for it.                                      *)
(***************************************************************************)
HashesAgree ==
  Accepted("verify-logits-hashes") =>
    LET files == job.input.files
        hashes(i, label) == { line[2] : line \in { l \in ToSet(files[i]) : l[1] = label } }
    IN  \A i, j \in DOMAIN files : \A label \in Labels :
          Cardinality(hashes(i, label)) = 1 /\ hashes(i, label) = hashes(j, label)

VerdictIsSound == DumpsAgree /\ RowsAlign /\ HashesAgree
=============================================================================
