# detllm: specifications and proofs

detllm compresses files without loss with a language model as the predictor. A
GGUF model gives a distribution over the next codec symbol, a range coder turns
that into bytes, and the decoder, running the same model over the same context,
turns the bytes back. Everything must be bit-exact: one unit of frequency, one
token of context or one carry that differs between the two sides loses the rest
of the file. This directory holds TLA+ models of that pipeline, the TLC
configurations that check them and TLAPS proofs of their main invariants. Paths
below are relative to the repository root, `src/` here.

## 1. Inventory

| Component (code) | State it keeps | Operations | What makes it correct |
|---|---|---|---|
| Range coder (`crates/det-coder/src/range.rs`) | encoder `low`, `range`, `out`; decoder also `code`, `pending`, `input`, `pos` | `encode`, `finish`, `snapshot`; `new`, `decode_freq`, `advance`; `renorm` inside | the interval never wraps or vanishes, output needs no correction, every loop ends, `code` follows `low` |
| Frequency tables (`cdf.rs`) | `CdfScratch`: `exp`, `cdf`, `decoder_freq`, reused from call to call | table, encoder's interval of a symbol, decoder's symbol of a value | three separate loops give one distribution; an error leaves nothing that the next call sees |
| Token stream (`stream.rs`) | an encoder or a decoder | `encode_token_stream`, `decode_token_stream` | round trip; truncation is seen; one accepted payload per stream |
| DTLZ file (`file.rs`) | header: flags, model digest, window, `orig_len`; payload | `encode_checked`, `decode`, `validate` | a header that is let through can be decoded under |
| Codec symbols (`crates/det-token/src/lib.rs`) | vocabulary, byte-fallback tokens, emit mask | `codec_symbols`, `decode_codec_symbol`, tokenizers | bytes are given back whatever the tokenizer does; bytes that no token may emit are escaped |
| Windowed model state (`crates/det-cli/src/main.rs`, a copy in `xtask/src/main.rs`) | `window_start`, `context_len`, KV cache, logits | `sync`, `replay`, `symbol_range`, `decode_symbol`, `advance` | each symbol is coded as if its window had been evaluated afresh |
| `compress`, `decompress` (`det-cli`) | the file, context tokens, restored bytes | encode loop, decode loop, canonical check | round trip without a count of symbols; `orig_len` is authoritative |
| `bench-file` (`xtask`) | checkpoint file, output file, temporary files; model, input and summary | resume, encode, checkpoint, output, removal; limits, iterations, `--verify-dtlz`, summary | an interrupted encode gives the payload of an uninterrupted one; work is not lost; what it writes is evidence |
| Model loading (`crates/det-model/src/lib.rs`, checks in `det-cli` and `xtask`) | configuration, weights | `LlamaConfig::from_gguf`, `F32Llama::from_gguf`, `model_info`, `tokenize` | three readings of a file agree; the shapes let through can be computed with |
| Forward pass, KV cache (`det-model`) | cache, workspace | `forward_one_with_workspace`, `visit_logits_for_tokens_chunked`, `KvCache::store`, `prefix` | positions do not alias; no value of an earlier step is read |
| Parallel products (`det-model`) | thread override, map of pools | `gemv_rows_parallel`, `attention_all_heads_parallel`, `with_rayon_pool` | the result does not depend on the split or the schedule; every call returns |
| Quantised products (`crates/det-quant/src/lib.rs`) | none | quantisation of activations, dot products in five kernels | every bit of a block has its place; all targets give one result |
| GGUF reader (`crates/det-gguf/src/lib.rs`) | parsed file | `parse`, `parse_metadata_prefix`, layout check | what was written is read; tensors lie in the file and do not overlap |
| SHA-256 (`crates/det-num/src/hash.rs`) | buffer, length, state | `update`, `finalize` | the digest does not depend on how the input is cut |
| Command lines (`det-cli`, `xtask`, `scripts/run-target-full-bench.sh`) | options so far | the parsers, the script's command line | options that exclude or need each other; the script's are accepted |
| Comparison of logits (`xtask`) | none | `compare-logits`, `compare-llamacpp-logprobs`, `verify-logits-hashes` | acceptance means agreement, row by row |
| Policy scanners (`xtask`) | table switch, open chain, section, open dependency table | `check-determinism` | no line, section or chain is lost between the lines of a file; what the text searches do not see is under Findings |
| Numerics (`crates/det-num`: sums, rounding, libm) | none | pure functions | fixed order of operations |
| CI validators, test data, reports (`xtask`) | none | pure functions over text | |

How they interact. `compress` reads the input and the model, asks the tokenizer
for the codec symbols, and for each of them lets the windowed state slide
(`sync`), asks it for the symbol's interval (through the frequency tables, or
the uniform table when the window is empty), encodes it, and, if the symbol is a
token, advances the model by it. `decompress` does the same with a decoder,
restores bytes as it goes and stops by their number. It then encodes what it
decoded once more and compares, and writes the output only when the payloads are
equal. `bench-file` runs the same encode with a checkpoint every few symbols.
The model comes from a GGUF file through the reader, the loader and the tokenizer's
constructor; each symbol then costs a forward pass, a few hundred products of
a quantised matrix and a vector.

The program is sequential but for the products of matrices and vectors, which are split
over a thread pool. What is hard is therefore less about interleaving than about
long histories: the range coder's rare states (a range that straddles a digit
boundary, a code word at the end of the word), the position-dependent sliding of
the window, scratch that survives errors, and crashes between the steps of
the checkpointed encode; and about bytes that are read in two places: a file
by three readers, a block by five kernels, a vocabulary by three tokenizers. `PROJECT.json` lists the hazards at the lines where
they bite and the properties that watch them.

## 2. Modules

    CoderConstants        sizes of the coder, digits of a payload
    RangeCoder            the interval both coders have, its arithmetic
      RangeEncoder        encode, renorm, finish
      RangeDecoder        new, decode_freq, advance
    Storage               what may happen to a payload
    Cdf                   tables, lookup
      CdfScratch          the three paths over one scratch
    TokenStream           RangeEncoder + RangeDecoder + Cdf + Storage
    ContextWindow         next_window_start and its closed form
      ContextCoder        abstract: each symbol under its window
      WindowedState       incremental state; implements ContextCoder
    Codec                 bytes <-> codec symbols
    Dtlz                  compress / file / decompress: all of the above
    RankScan              abstract: the leftmost pair of lowest rank is merged
      BpeMerge            heap over a linked list; implements RankScan
    CheckpointedEncode    resumable encode, ContextWindow inside
    BenchFile             the command around it, over Codec

    GgufReader            bytes -> metadata, tensors
      ModelLoad           -> configuration and weights
      Vocabulary          -> tokenizer; satisfies what BpeMerge assumes
    ForwardPass           one workspace, one cache, step by step
      KvCache             the cache as flat vectors
    Sha256Stream          update, finalize
    GemvParallel          threads, pools, rows
    QuantBlock            the formats of blocks
      QuantDot            quantisation, kernels, rows of a product
    Options               parsers and the target script
    CompareLogits         three verdicts
    PolicyScan            three scans

    NumberLemmas              division, induction, recursion, running totals
    RangeCoderProofs          RangeEncoder, RangeDecoder
    TokenStreamProofs         TokenStream, over RangeCoderProofs
    DtlzProofs                Dtlz, over TokenStreamProofs
    WindowedStateProofs       WindowedState, KvCache, CdfScratch
    CommandProofs             CheckpointedEncode, PolicyScan, Options
    ModelFileProofs           Sha256Stream, GgufReader, ModelLoad, BpeMerge
    EvaluationProofs          GemvParallel, ForwardPass, QuantDot

    MCRangeEncoder        RangeEncoder
    MCTokenStream         TokenStream; CdfScratch; RangeDecoder
    MCWindowedState       WindowedState; KvCache
    MCDtlz                Dtlz; BenchFile
    MCCheckpointedEncode  CheckpointedEncode, alone and shared
    MCModelFiles          Sha256Stream; GgufReader; ModelLoad; Vocabulary; BpeMerge
    MCEvaluation          ForwardPass; GemvParallel; QuantBlock; QuantDot
    MCPolicyScan          PolicyScan: its files and the two runs of its findings
    MCCommands            Options; CompareLogits; PolicyScan, as MCPolicyScan has it

- **RangeCoder, RangeEncoder, RangeDecoder** model `range.rs`. `low`, `range`,
  `code`, `pending`, `out`, `pos` are the fields of the structs; RangeCoder has those
  that both coders have, and `pc` and `left`, the place in the loops. A word has
  `Digits` digits in base `Base`; all arithmetic is modulo `Word`, as it is
  modulo 2^64 in the code, which is the instance Base = 256, Bottom = 2^48,
  Digits = 8, MaxTotal = 2^31. `encode` and `advance` are the action that narrows
  the interval followed by one action per turn of the `renorm` loop (`Renorm`,
  `RenormDone`), so that the properties can speak of every emitted digit;
  `finish` and `new` are loops of `Digits` steps. `CutRange` is the second branch
  of `normalize_step`. A call with an invalid interval changes nothing and
  is left out; the decoder's refusals are part of the composed modules.
- **Cdf, CdfScratch** model `cdf.rs`. A logit is abstracted to the weight
  trunc(p * 2^24) that all three paths compute from it by the same expressions;
  what they then do with the weights in three different loops is kept.
  `FullTable`, `SymbolRange` and `SymbolOfValue` are the three public calls with
  and without byte escapes (`Tails`), and `exp`, `cdf`, `decoder_freq` the
  scratch they leave behind, after errors too. The next call gets that scratch as it is: a
  vector is resized and overwritten place by place, or cleared and pushed to, and the totals
  and scans go over the vector that results, so a longer row of an earlier call can show. The scans are recursive functions
  over the row, one entry per turn of the code's loop.
- **TokenStream** models `stream.rs`, by INSTANCE of both coders; the calls of the
  coders are joint steps with the loop that makes them. The payload passes
  through **Storage**: intact, cut, extended or with one digit changed. Its tables are
  valid ones, since `encode` and `decode` validate each before they code with it.
- **ContextWindow, ContextCoder, WindowedState** model `WindowedModelState`. The
  KV cache holds, per position, the token that was stored there; `logits` is the
  sequence of tokens that attention read to compute them. The forward pass is
  thus a function of what it read, and reading a stale entry shows.
  **ContextCoder** is the promise: a symbol is coded under the window of the
  tokens before it, with no state but those tokens.
- **Codec** models `codec_symbol_stream` with the longest-match tokenizer, and
  `decode_codec_symbol`. Only byte-fallback tokens count as tokens of one byte.
- **Dtlz** composes all of it: `compress` from the input on, the file, `decompress`
  with header checks, the decode loop with its byte count, the second encoding
  and the comparison. The table of a symbol is a function of the model and the
  window, which is what WindowedState establishes of the incremental state; the
  interval of a symbol is the one of the full table, which CdfScratch
  establishes of the other two paths. `DtlzAssumption` asks of a model only that
  every window has a table that `Cdf` accepts, as the code refuses any other.
- **RankScan, BpeMerge** model the byte-BPE tokenizer. `ids`, `prev`, `next`, `alive`
  and `heap` are the variables of `tokenize_bytes`; one turn of its loop is `Merge`
  (the popped entry still names a pair) or `Skip` (it is stale), and the output
  is a walk along the links. **RankScan** is the rule the tests compare it with
  (`tokenize_bpe_by_rank_scan`), on the tokens that are left. `input` keeps the bytes,
  and `Pieces` gives those a token stands for, so that the output can be held against
  the input. A byte without a token, which is refused before anything is built, is left out.
- **CheckpointedEncode** models `bench-file --checkpoint`. A payload is what the
  range coder was given so far (symbol, model, context); this keeps apart
  what the real payload keeps apart. `fs::write` is two steps, of which a crash
  may fall in the middle, `fs::rename` one.

- **BenchFile** models `bench_file` from its options to its summary, in its three
  modes (round trip, encode only, `--verify-dtlz`). Files have a content and are
  read when the code reads them: model and input may be replaced and the DTLZ
  file damaged between any two steps, and the process killed. Payloads are as in
  CheckpointedEncode, whose protocol is here one step per checkpoint; the
  compressed file is checked with `decompress` of `det-cli`.
- **GgufReader** models both parsers over a file of numbers. Values of up to 32
  bits are one number, of 64 bits two, so a field of the wrong width or in the
  wrong place shifts the rest. `Encoded` is the writer, `encode_gguf` of xtask.
  The error variants are kept apart as far as the code's order of checks does.
- **ModelLoad** models `LlamaConfig::from_gguf`, `validate`, the tensors that
  `F32Llama::from_gguf` asks for and their shapes, and what `model-info` and
  `tokenize` conclude from the same file by functions of their own.
- **Vocabulary** models `Tokenizer::from_gguf` and the three constructors: pieces
  from texts (space marker, GPT-2 characters, canonical byte tokens), type mask,
  scores, merges and their ranks, and then codec symbols there and back. A
  text is a sequence of character codes. The merges a BPE tokenizer makes are
  those of RankScan, which BpeMerge implements; `TokenizerIsSound` shows that
  the tables built satisfy BpeMerge's assumption: a merge has a rank of its own, and gives
  the token that is spelled as its two parts.
- **ForwardPass** models every buffer of `ForwardWorkspace`, every step of a layer
  and the cache. A value is named by what it should be (name, layer, tokens); a
  step whose operands are not those it is defined over gives `Wrong`. A product
  with a quantised matrix reads the quantised copy it is handed. Calls may fail at
  any step and be followed by calls at any filled position.
- **KvCache** models offsets, `store`, `key` and `prefix` on flat vectors.
- **GemvParallel** models `gemv_rows`, `attention_all_heads`, `with_rayon_pool` and
  `set_thread_count`. A caller is a thread that makes one call; a pool runs as
  many chunks as it has threads, shared by the callers that use it. Rayon is external: chunks
  in any order, chunks left out after an error, any of the errors returned. A
  pool that cannot be built makes the call return `ThreadPanicked`, which poisons nothing.
- **QuantBlock, QuantDot** model `det-quant` and its use by `WeightMatrix::gemv`.
  QuantBlock reads the bytes of a block as the loader does and gives each weight
  as the scalar functions do. QuantDot has the kernels for SSE2, AVX2, NEON
  and SIMD128 lane by lane, with the width of each lane, and the two quantisations
  of activations with their two roundings. f32 sums are exact, which they are
  on the inputs of the run.
- **Sha256Stream** models `update` and `finalize`; the state is what was compressed.
- **Options** models the parsers of nine commands argument by argument, with their
  final checks, and the array `cmd` that `run-target-full-bench.sh` builds.
- **CompareLogits** models the three comparisons; dumps of llama.cpp are written by
  an external action from a function of tokens and read by the code's offsets, with
  the dimensions that are in the file's header. The model may have another vocabulary than the
  dump, which is refused; the limits on the largest difference, on that of the targets and on the root
  mean square decide as in the code. Metrics are exact: squares of integers instead of rounded roots.
- **PolicyScan** models the three scans of `check-determinism`, line by line, with
  the state they keep between lines. The scans search texts: for the name of the table of
  banned constructs, for `;`, for "path" and "workspace" in a value, for an `=` in front of a version. A line
  of the model holds what is searched for and, apart from it, what that stands for (`"table"` and
  `"definition"`, `"path"` and `"local"`, `"="` and `"exact"`), in any combination
  the run has; the actions look at the former, the properties at the latter. Keys of entries are bare, an entry is on one
  line, and no comment follows a header. A native package that a manifest renames is
  found in the lock file only, as in the code. The two texts of the lint in the root manifest are
  searched for anywhere, in comments too (`Forbids`); no property speaks of them.

Mutated forms of definitions, marked as such, stand next to the definitions they
mutate. They are not used by any specification: replacing a definition by one of
them makes the property it is listed with in `PROJECT.json` fail, which shows
that the property is about the code.

## 3. Runs

| Run | Question | Bounds, and why they are enough |
|---|---|---|
| `range_encoder` | Is the interval sound, wide between calls, nested, and do all calls return? | 4 base-4 digits, Bottom 16, totals below 8, 3 symbols. Top = 4 * Bottom and MaxTotal < Bottom as in the code. Every interval of every total is tried, so cuts, straddles, and the interval that ends exactly at the end of the word occur. |
| `token_stream` | Round trip, truncation, canonicity. | 3 tokens over 3 tables (even; skewed at the largest total; total that does not divide the range); every cut, one-digit extension and one-digit change of every payload. |
| ... scratch | Do the three paths of a table agree, after any history? | 7 rows of weights: empty, non-finite, too long, with totals at, above, and by the tail alone above the limit; shrinking and growing lengths. |
| ... decoder | The range encoder's questions on arbitrary payloads, with `pending` and `code`. | All 255 bit strings up to 7 digits over 5-bit words: too short, just enough, and with digits left to read. Any order of calls. |
| `windowed_state` | Is every symbol coded under its window? | Window of 4 with overlap 1, 11 tokens: three slides, escapes anywhere. |
| ... cache | Do flat vectors behave as a map? | Three shapes of up to 24 elements with different dimensions, one with dimensions of 1, and one too large; 4 stores. |
| `dtlz` | Round trip of the whole pipeline, damaged files. | Inputs up to 3 bytes and three longer ones that slide windows of 4 and 2; two models; both alphabets; all single faults of the payload, wrong windows, flipped flag, smaller `orig_len`. |
| ... bench | Is what bench-file leaves behind evidence? | Three inputs of up to 6 bytes, two models, windows of 2 to 5, every mode, limits of bytes and of tokens, a second iteration; two replacements, damages or kills, and run after run over the same paths. |
| `checkpointed_encode` | Crash and resume. | 7 symbols, a checkpoint every 2, window 4 or 2 (slides before and after a resume), up to 3 faults, and jobs that differ in model, input or window run over the same checkpoint. |
| ... shared | Two processes on one checkpoint. | The same job twice, a checkpoint every 3, one fault. |
| `model_files`: sha | Is the digest that of the padded message? | Blocks of 8, length of 2 bytes, messages to 20: every fill of a block, and two chunks that span one and two blocks. |
| ... gguf | Is what was written read, and is data apart? | Two files of the writer, one with tensors out of order and a gap, one with an overlap; each whole, cut at every place or with any one number changed to any other, through both parsers. Values of one and of two numbers, strings and arrays of both occur. |
| ... load | Do three readings agree, are shapes usable? | Two architectures; one or two metadata entries missing, of another type or value; one tensor missing, reshaped, retyped, not finite or added. |
| ... vocab | Is the tokenizer that is built lossless? | 5 bytes with the space and a two-byte character; up to two aliases, seven masks or none, none to two merges, scores with ties and non-finite ones; nine inputs. |
| ... bpe | Does the heap merge as the rank scan does, and end? | All 63 inputs up to 5 bytes over 2 letters; 210 tables: any 3 of 7 merges in any order, so a merge may rank before or after the one that feeds it, and runs of equal bytes make overlapping pairs. |
| `evaluation`: forward | Are logits those of the tokens? | 2 layers, 4 heads on 2 key heads, 3 positions: going back and overwriting occur. 4 calls, one failure at any step; chunks of 0 to 4 for 0 or 3 tokens. |
| ... gemv | Is the result that of a sequential loop, and does every call return? | 2 callers; 5 rows on 3, 2 or 1 threads (a short last chunk), two failing rows, attentions on both sides of the threshold; one change of the thread count. |
| ... block | Is every bit of a block read once? | Whole blocks as in the code (34, 18, 144 and 210 bytes), every bit, over bytes that all differ. |
| ... dot | Do all targets give the sum of products? | Two rows of two blocks; bytes of -128 throughout and two noises; scales 1, -2 and infinity; activations 0, -1, two patterns, and one with a value beyond the largest finite number. |
| `commands`: options | Are accepted options usable, and the script's accepted? | 4 arguments: two options with values, so every pair of options that exclude each other; all settings of the script. |
| ... compare | Does acceptance mean agreement? | 3 rows of 2 values, zero rows among them; windows of 3 to 5 and vocabularies of 2 and 3, so both parities, for a model with as many tokens or one more; no change or one, and each limit below and above it or not given; trees of one and two artifacts. |
| ... policy | Does a scan lose anything between lines? | 4 lines: a chain over three lines after another, a dependency table with two entries, a table that ends the file, and lines whose text is not what it seems. |
| `renorm_threshold` | violation: see Findings | 8 digits as in the code. |
| `inflated_length` | violation: see Findings | as `dtlz`. |
| `unscanned_code` | violation: see Findings | A source file of 4 lines: the name of the table with its definition and without, the end of an array, a banned construct. |
| `unpinned_dependency` | violation: see Findings | A manifest of 4 lines: a list and four kinds of entries. |

A run is one stage of the program. Where its components do not interact, the MC
module checks them side by side: a variable (`part`, or `shared` for
checkpoints) is chosen at the start and never changes, the steps are those of
that part's specification, and a property is asked of its part only. The
variables of the other parts keep their first value, `"idle"` in most runs.

Deadlock checking is off in runs of calls that end (`CHECK_DEADLOCK FALSE`):
there the system stops when the last call has returned, the verdict is given or the bound on symbols is
reached. Bounds on counters are named in the modules (`MaxSymbols`, `MaxOut`,
`MaxTokens`, `MaxFaults`).

Fairness. RangeEncoder: the loop inside a call and the digits of `finish` go on
(a thread that runs continues); nothing obliges the caller to call. BpeMerge: weak
fairness of the next step, since it is a function that runs to its end.
CheckpointedEncode: each process goes on
while it runs, and the user runs the command again after a fault (weak fairness
of starting one of the jobs that can start); faults are bounded, so that progress is
asked for only after the last of them. GemvParallel: each caller's thread runs
(weak fairness per caller); mutexes need not be fair, since each caller locks once.

### What the properties say

The type invariants, and invariants that others rest on (the links and the heap of
BpeMerge, the room in the window), are proved by TLAPS as parts of the inductive
invariants and have no run of their own.

- *No wrap, no empty interval* (`IntervalInWord`): `low + range` stays in the
  word. It may equal 2^64 exactly, when the code sees it wrap to 0, but then
  the first digit of `low` is the largest one and the digit is not taken as settled.
- *Wide between calls* (`WideWhenReady`): range >= BOTTOM whenever a call is made,
  so that range / total > 0.
- *Carry-less* (`Nested`): the exact interval, counted with the emitted digits,
  only shrinks; no emitted digit is ever revised. `CallsReturn`: every loop ends.
- *The decoder's view* (`CodeIsWindow`, `PendingFresh`): `code` is always the
  digits of the payload that `low` has moved over; `advance` never uses a
  width computed for another interval.
- `RoundTrip`, `TruncationSeen`, `OnePayloadPerStream` for streams; `RoundTrip` and
  `DamageIsSeen` for files (a shorter `orig_len` gives a prefix of the input, and a
  payload that was changed is not accepted for the same symbols).
- `PathsAgree` for tables. `WindowByPosition`, `CacheIsWindow`,
  `CodesUnderWindow` for the window.
- `MergesByRankScan` (refinement), `OutputIsMerged`, `TokenizeReturns` for the merges: stale entries are dropped,
  no pair that a merge creates is missed, and the output cuts the input, without gap or
  overlap, into the bytes of its tokens, no two neighbours of which have a merge left.
- `FilesAreEvidence`: a DTLZ file that bench-file wrote decompresses to as many bytes as its header
  says, and a summary's digests, file and counts belong together, whatever the
  paths hold by then.
- `ReadAsWritten`, `DataIsApart`: the reader inverts the writer, refuses cut files (or, on a
  prefix, gives no data), and its check of neighbours means that no two tensors
  share a byte.
- `ReadingsAgree`, `ShapesAreUsable`: a model that loads is described truly by
  `model-info`; what `model-info` calls complete loads unless the cause is one it
  does not look at (listed in `Unseen`).
- `TokenizerIsSound`: lossless on every vocabulary that is accepted, only emittable
  tokens, only necessary escapes for BPE, and merge ranks as BpeMerge assumes.
- `LogitsOfTokens`, `CacheIsMap`: logits depend on the tokens at the positions up to
  the call's own and on nothing else.
- `ResultIsSequential`, `CallsReturn` for the parallel loops.
- `EveryBitIsRead`, `RowsAreProducts` for quantised products; `DigestOfMessage` for SHA-256.
- `OptionsAreUsable`, `VerdictIsSound` for the commands.
- `PassedFilesAreClean` for the scans: what they keep from line to line loses nothing, against a reading of
  the whole text. It is about what the searches can find: code up to the first
  line that names the table without defining it, reductions before the next semicolon, and
  values whose text is right about them (`ReadRight`). What the documentation promises beyond it is
  `ImplementationIsScanned` and `ExternalVersionsAreExact`, and both fail.
- `OutputIsUninterrupted`, `CheckpointIsPrefix`, `RemovedAfterOutput`,
  `ProgressKeptAlone`, `CheckpointUsedUp` for checkpoints. `ProgressKeptAlone` is of
  one process; two that share a path may replace a checkpoint by an earlier one,
  which costs time and nothing else, and is not asked of them.

### Findings

1. `renorm_threshold`. `detllm-design.md` section 8.1 describes a renormalisation
   that emits a byte when range < 2^32. The code uses the carry-less scheme with
   BOTTOM = 2^48 and emits whenever the first byte is settled, at any range. The
   code is right by its own tests and by the proofs below; the document is not.
2. `inflated_length`. `docs/validation.md` expects that a file with an inflated
   `orig_len` fails without output. The decode loop counts bytes only, and
   `finish` flushes a whole word, so the decoder can find one more symbol in
   the flushed digits: the first symbol of the table, when its share is so large
   that encoding it would emit nothing. The second encoding then
   gives the same payload and the longer output is written.
   The unit test inflates the length to u64::MAX, which does fail.

3. `unscanned_code`. `docs/validation.md` says that the check scans the implementation files for
   banned constructs. The scan skips its own table of patterns: from any line that
   contains the table's name to the next `];` (`xtask/src/main.rs:594`). The trace: a line names the table
   without defining it, the next line has a banned construct, the file passes. The scanner itself
   uses the name in such lines (594, 603), and the next `];` is in line 3184, so what is between is not scanned.
4. `unpinned_dependency`. The same document accepts path dependencies and asks of external ones for
   `=x.y.z`. An entry in a list is taken for local when "path" or
   "workspace" occurs anywhere behind its first `=` (line 904), so
   `d = { version = "1", features = ["path"] }` passes. No manifest of the repository has such an entry.

Three more disagreements were met while modelling and have no run:

- `det-cli/src/main.rs:1139` asks for exactly one of `--tokens` and `--prompt`. An
  option without a value at the end of the line counts as not given (line 1085), so
  `logits -m m --hash -p x --tokens` names both and runs on the prompt. `Options` has
  this as `MissingValue`.
- `docs/validation.md:447` says that parallel reductions are found behind adaptors such as `map`.
  A chain counts as over at the first line with a `;` (`xtask/src/main.rs:648`), also when that ends a statement of a closure
  inside the chain; a `reduce_with` after it is not found. `PassedFilesAreClean` follows a chain to
  the first semicolon only.
- External dependencies escape the rule of finding 4 in a second way: a manifest header with a comment behind
  it is not seen as one (`xtask/src/main.rs:680`), and the versions below it are not
  judged as dependencies'. No manifest of the repository has such a header, nor have those of the run.

## 4. Proofs

All proofs are for every value of the constants that satisfy the named
assumptions, in particular for the 64-bit instance, windows of any size and inputs of any
length. An assumption on constants is checked by TLC in the run of its component; the
ones the code has to earn are said below.

**NumberLemmas** is the arithmetic and the induction. The library's
induction theorems take an operator as a parameter, which no installed
prover instantiates, so `Induction` is stated over sets (a set that holds 0 and is closed under
successor holds Nat) and proved from the well-foundedness of `<`; `Recursion` and `Determined`
say that a recursive function exists and is the only one that satisfies its equation, again over sets, and
every recursive function of the models is reached through them or through its own equation.
The rest: running totals and the one interval a value falls in (`TotalsGrow`, `OnePoint`), largest and least
members, and the start of a window by position and by steps (`WindowSlides`).

**RangeCoderProofs.** The encoder's invariant is TypeOK /\ IntervalInWord /\ WideWhenReady
(`WideWhenReady` alone is not inductive: without the bound of the interval a wrapped
sum would pass for a settled digit; `IntervalInWord` alone is not: a narrow
range makes an empty share). `CarryLess` is the action property from it. The decoder has the
same with `PendingFresh`, on every payload and under every order of calls, not only
those of a well-behaved caller. `CodeIsWindowOfInput` adds that `code` is a window of the
payload as a word; the digits that were shifted out vanish modulo the word, which is where the
proof divides by powers of the base. The last part is about whole encodes: a trace is the
sequence of turns of the encoder's loops with the digits that each emits, and
`PayloadInEveryInterval` says that the finished payload, read from any turn on, lies in
that turn's interval: by induction from the end, since each interval holds the next
one (`Nested`), shifted by the digit in between. `RangeCoderAssumption` is
Word = Base^Digits, at least two digits, MaxTotal <= Bottom.

**TokenStreamProofs.** The invariant `StreamInv` follows the digits. While the stream is encoded, what
happened is a trace. After that the decoder stands at a turn of that trace, `Digits`
digits of the payload ahead of it, and the second encoder at another; so the value the
decoder finds lies in the next symbol's interval, the table's search gives that
symbol, and both narrow alike. `StreamRoundTrips`,
`TruncationIsSeen` and `PayloadIsCanonical` follow for whatever Storage delivers: the second and third need
no lockstep, since a payload is only accepted when the second encoding gives it back. `TokenStreamAssumption`
has valid tables because `stream.rs` validates each (lines 18 and 34).

**DtlzProofs** uses the stream's lemmas by INSTANCE, with the input's symbols as
tokens and the model's tables for the windows before them as tables. Added is the codec (the pieces of
the symbols of an input lie end to end over it), and that the decoder, which knows
neither symbols nor tables, has at each symbol the tokens before it, hence the window, hence
the table. It stops by `orig_len` alone, and that this is behind the last symbol is the codec's
walk again. `DtlzInv` has three phases: compressing; an intact file being restored
(`Standing`), also under a smaller `orig_len`; results. `DamageNeverPasses` covers any
single damage to header or payload.

**WindowedStateProofs.** The code reaches the window's start step by step, the
closed form `StartAt` states it by position; `SlideStable` and `SlideNext`
connect them. The invariant adds to the
checked properties the state inside a replay (a prefix of the window is in the
cache, and everything later in the cache is out of reach). From it follow the
safety properties and the refinement `Implements`: the initial state maps to
ContextCoder's, `CodeToken` and `CodeEscape` to its steps and everything else to stutters.
For the cache, mixed-radix numbers with digits layer, head, position and element are in
range (`OffsetBound`) and determine their digits (`ElementUnique`), so a store
changes the elements of its own place only, and `CacheImplementsMap` follows for all shapes. For the
tables, each scan is shown to have its closed form (`EncoderScanned`, `DecoderScanned`: the running total
up to the symbol, the first symbol whose end is past the value), and the binary search finds
the same symbol. A vector that is resized to a row and overwritten in each of its places is the row whatever it held
(`FilledIsRow`), and so is one that is cleared and pushed to (`RewrittenIsNew`). With these `ThreePathsAgree`
needs no invariant of the scratch, which is the point: every call
rewrites what it reads, after an error too.

**CommandProofs**, of commands that read or write files in the repository or beside it.
Of an encode that is interrupted, the invariant says of a process's memory, of a
checkpoint under its final name and of an output that they are those of an uninterrupted
encode of the job they name, at some position; a resumed
encode recomputes the window's start by replaying slides and stops one slide short, which
the loop's first `sync` makes up for (`LagsAtMostOne`). `OutputSurvivesInterruption` and
`CheckpointsArePrefixes` hold for any number of processes and jobs. `RemovedOnlyAfterOutput` and
`CheckpointsAdvance` are stated for one process (the first of them for one job too): another process may put back an
older checkpoint, or remove one that is not its own.

Of the policy scans, each keeps a digest of the text (are we past a line that names the table, has a
parallel chain begun, which section is this, did the open table name a source), and the invariant says
what the digest knows of the lines read so far: `chain` is set when some line since the
last semicolon began a chain; the skip is on only inside a definition of the table or after a line that named the table
elsewhere (`InDefinition`, which looks at definitions only, and `NamedElsewhere`); the section is that of the last header, the open table has seen a source
or a version exactly when a line under that header is one, and as long as nothing was
pushed every line that is behind is clean. `PassedFilesAreCleanTheorem` follows at `Finish`, where
the table that is open at the end is looked at. It promises no more than the property: behind a line that names the
table elsewhere nothing is known of the code, and a value is pinned or local if its text says truly what it is
(`Settled`). `ManifestAssumption` is about manifests that Cargo accepts: a list of
dependencies, the table of one of them, or a section that names no list. TLC shows why it is
needed: in a section such as `target.dependencies.x` the scan's two classifiers and the name disagree.

`OptionsAreUsableTheorem` is about any texts and any number of arguments. That what is accepted is usable
follows from the final checks and from `OptInv`: what is given to an option above 0 is never "0", and a missing
value leaves none there. The script's half is about a list of arguments, and its invariant
(`ScriptInv`) is about what is left of it: every option has a valid value behind it, what is behind a value or a flag
is an option again, and an option is in the script's line exactly when it is given already, waits
for its value, or is still to come. Such lists may be joined (`PairsConcat`), so the line of the script is one, for all
its pieces; at the end nothing is left, so the options given are those of the line, and
these pass bench-file's checks. `OptionsAssumption` says that the script is run with numbers above 0, which
it passes on without a look: `--limit-tokens 0` is refused by bench-file only.

**ModelFileProofs.** What is read from a model's file. `DigestIsOfMessage`: what was compressed and
the filled part of the buffer are the message, the buffer is never full between calls, and
`len` is the length of the message modulo the word; `FinalizeHolds` treats the one- and
the two-block padding.

`DataIsApartTheorem` is about any cells, written by this program or not. The invariant says that positions
are in the file and what was read from it are numbers, which for the items of an array and the product
of dimensions goes through `Recursion` and `Determined`; and that where parse ended well no range has an error
and no neighbours overlap (`Accepted`). The argument is `NeighbourAfter`: a tensor that
starts later starts no earlier than some neighbour, the one with the least start and, of those, the first, and what
ends before its neighbour's start ends before all later ones. `WrittenAssumption` asks that a written file be made of
cells.

`ReadingsAgreeTheorem` and `ShapesAreUsableTheorem`: the file does not change (`FileStays`), so each
command's result is a function of it, and the theorems compare three functions: the
vocabulary sizes agree once there are tokens (`VocabsAgree`), every part that can be read also fits
(`LoadableIsComplete`), and one that fits and cannot be read has a fault in `Unseen` (`MisfitIsUnseen`). The shapes
are arithmetic: kv divides heads, so quotients by heads / kv are all of the key heads (`EveryKeyHead`).
`ParsedAssumption` is what parse has established, DataIsApart's half of it among it.

For every input and every table that satisfies `MergeAssumption`
(which the tables of Vocabulary do), the links of BpeMerge name the live neighbours and the heap
holds every pair of them that has a merge; the second needs the first, since a
new pair is found through the links. So the popped entry, when it is current, is the minimum of the pairs
that the rank scan looks at, and `Refines` follows. `TokensSpellInput` adds that every live token spells
the input from its position to the next live one, and follows the output walk.

**EvaluationProofs.** `ParallelIsSequential`: the chunks of a call cover its rows and
no row is in two of them, a chunk has written the rows it passed and no others, so when
the last chunk has joined either all rows are there or an error of one of them is returned.

`LogitsOfTokensTheorem` is about the workspace. What a layer knows between two steps is a set of
pairs: a buffer and the name of the value in it, or that the cache holds this position. A
step takes one such set to another (`Takes`): it needs its operands and forgets what it
overwrites. A list of steps *flows* from one set to another when there is a set for each place between its
steps; flows of two lists compose, so `LayerFlows` follows from the flows of the parts, by cases on the
formats of the matrices, and the scratch of a failed call is forgotten because nothing is known of it at the start of a
flow. The invariant: the call has a flow of its layer and what the flow knows here holds of the buffers; the cache
holds the positions before this one, and this one in the layers that are done; `hist` are the tokens of the
cache's positions. The visit loop adds that `pos` is the index of the chunk times its size plus
the offset, which keeps the tokens of `hist` those of the request.

`RowsAreProductsTheorem` is about matrices of any size and any vector of integers. First the sums:
`Sum`, which halves, equals a running total (`SumIsTotal`), and with totals, for which there is
induction, sums by blocks, by columns, of sums and of multiples are the plain sum (`SumOfBlocks`, `SumOfSums`,
`SumPlus`, `SumTimes`). Then the kernels: widening by sign keeps a byte, and a product or a pair of products of
a byte and an activation fits in 16 bits, because activations never are -128; so `KernelIsSum`: SSE2, AVX2,
NEON and SIMD128 compute what the scalar loop does. Then quantisation: both roundings are within half a
step of the nearest integer, and -127 / max maps every element to -127..127, so that Q8K's `min(127)` and its
cast to a byte change nothing (`Q8AIsNear`, `Q8KIsNear`). The eight lanes of Q6_K are columns of the same table whose rows are the blocks, so
`SumOfSums` gives `DotQ6KIsSum`. The invariant (`DotInv`; TLC has checked it on the run's instance) adds that what is in `blocks` are the bytes read
and in `acts` activations that are near, and that `out` holds the first elements. `DotAssumption` is
what `validate_shape` requires of a matrix, and that the scales and the vector are integers, the
abstraction of QuantDot: rounding of f32 is outside the theorem.

Only model-checked:

- liveness (`CallsReturn` of the encoder and of the parallel loops, `CheckpointUsedUp`,
  `TokenizeReturns`), which is out of the prover's reach;
- `FilesAreEvidence` of BenchFile, whose promise is about files that change under it, and which
  rests on the theorems about Dtlz and CheckpointedEncode;
- `ReadAsWritten` and `TokenizerIsSound`, which are about recursive definitions over the data of a file
  that undo each other;
- `EveryBitIsRead`, about the bits of formats of fixed size, of which the run has every one;
- `VerdictIsSound` of CompareLogits, about folds over rows.

## 5. Plan

Done: the coding pipeline (range coder, token stream, file, windowed state with
its refinement, tables, checkpoints, byte-BPE merge with its refinement), all of it with
proofs; what feeds it (GGUF reader, model loading, vocabularies; forward pass, KV cache, SHA-256,
layout check, readings of a file, parallel and quantised products with proofs); the commands around it
(bench-file, comparisons; options and policy scans with proofs).

Next, in this order:

1. The merge tables of Vocabulary.
2. The shape of the 8-lane reduction of `det-num`.

## 6. Not modelled

- Floating-point arithmetic: logits, exponentials, rounding, the vendored libm. A
  distribution is an arbitrary table of integers, a layer's step an uninterpreted function of its
  operands, a quantised product one whose sums are exact.
- The rounds of SHA-256's `compress`; outside Sha256Stream a digest is an identity.
- Error texts, reports, phase timings, estimates.
- The checks of workflows and helper scripts (`check-ci-workflow`,
  `check-benchmark-workflow`, `check-helper-scripts`): they look for literal lines, and a
  model would list the same lines. `generate-testdata`: constants.
- The Python reference and the scripts other than `run-target-full-bench.sh`: they run the binaries.
- `elapsed_ns` of a checkpoint, which no result depends on.
- A power loss that drops unsynced data, and two processes of equal id on two
  machines sharing a directory.
- In-place writes of `det-cli`'s outputs: a crash leaves a partial file, which
  the reader meets as a truncated payload.
