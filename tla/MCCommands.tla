----------------------------- MODULE MCCommands ------------------------------
(***************************************************************************)
(* The command lines, and the commands of xtask that decide whether a      *)
(* result or the repository is as it should be, each part on its own.      *)
(* Only the variables of the part that runs have a meaning.                *)
(***************************************************************************)
EXTENDS Options, MCPolicyScan, SequencesExt

CONSTANTS
  Dumps, Perplexities, Bos, Trees, Labels, Absent,   \* CompareLogits
  tiny_f32, tiny_qmix, other_label

VARIABLES
  part,
  job, verdict   \* CompareLogits, and file

\* The model: a number for each token after each sequence of tokens.
MCLogProb(tokens, v) == (FoldLeft(LAMBDA sum, t : 3 * sum + t + 1, v, tokens) * (v + 2)) % 17

Compare == INSTANCE CompareLogits WITH None <- Absent, LogProb <- MCLogProb

scanVars == <<text, inTable, chain, section, table, inPackage, violated, outcome>>

-----------------------------------------------------------------------------
(* Command lines. *)

MCNames ==
  { "compress", "decompress", "tokenize", "logits", "model-info", "bench-file", "compare-logits",
    "compare-llamacpp-logprobs", "verify-logits-hashes" }
MCTexts == {"path", "", "0", "1", "2", "unknown"}
MCWrapped ==
  [limit_tokens : {NotGiven, "1"}, verify_dtlz : BOOLEAN, encode_only : BOOLEAN, estimate_full_run : BOOLEAN,
   warmup : BOOLEAN]

-----------------------------------------------------------------------------
(* Comparisons. *)

\* Rows of two; 1/2 is the square of a cosine, some rows are zero.
MCDumps ==
  { [actual |-> actual, reference |-> reference, min_cosine |-> min_cosine, row_size |-> row_size,
     rows |-> rows, worst_rows |-> worst_rows, top_diffs |-> 2] :
      actual \in [1 .. 6 -> {0, 2}], reference \in { <<1, 2, 2, 0, 1, 1>>, <<2, 1, 1, 1, 0, 2>> },
      min_cosine \in { Absent, [num |-> 1, den |-> 2] }, row_size \in {Absent, 2}, rows \in {Absent, 3},
      worst_rows \in {0, 2} }

\* Two chunks, windows of 3 to 5 tokens and vocabularies of 2 and 3.  One
\* changed value is 1/4 to 1/12 of the mean square, on one side of 1/5 or the other.
MCLimits ==
  { <<0, Absent, Absent>>, <<1, Absent, 0>>, <<Absent, [num |-> 1, den |-> 5], Absent>>, <<Absent, Absent, Absent>> }
MCPerplexities ==
  UNION { { [n_ctx |-> n_ctx, n_vocab |-> n_vocab, chunks |-> chunks, add_bos |-> add_bos,
             add_bos_token |-> add_bos_token, tokenizer |-> tokenizer, changed |-> change, lost |-> lost,
             model_vocab |-> n_vocab + more, max_abs_diff |-> limits[1], max_rms_diff |-> limits[2],
             max_target_abs_diff |-> limits[3]] :
              chunks \in { <<[i \in 1 .. n_ctx |-> (k * i + j) % n_vocab], [i \in 1 .. n_ctx |-> i % n_vocab]>> : k, j \in 0 .. 1 },
              add_bos \in BOOLEAN, add_bos_token \in {Absent, TRUE, FALSE}, tokenizer \in {"llama", "gpt2"},
              lost \in {0, 2}, more \in 0 .. 1, limits \in MCLimits,
              change \in {Absent} \cup { <<c, n_ctx - 2, v>> : c \in 1 .. 2, v \in 0 .. n_vocab - 1 } } :
          n_ctx \in 3 .. 5, n_vocab \in 2 .. 3 }

Line(label, hash) == <<label, hash>>
MCLabels == {tiny_f32, tiny_qmix}
MCTrees ==
  LET lines == { <<>> } \cup { Line(label, hash) : label \in {tiny_f32, tiny_qmix, other_label}, hash \in {0, 1, 2} }
      files == { <<a, b>> : a, b \in lines } \cup { <<a>> : a \in lines }
      good  == <<Line(tiny_qmix, 2), Line(tiny_f32, 1)>>
  IN  { [files |-> fs, expected_count |-> 2] :
          fs \in { <<good, f>> : f \in files } \cup { <<f, good>> : f \in files }
                 \cup { <<f>> : f \in files } \cup { <<f, f>> : f \in files } }

-----------------------------------------------------------------------------
Idle == "idle"
NoOptions ==
  /\ command = Idle /\ wrapper = NoWrapper /\ args = Idle /\ opts = Idle /\ pending = Idle /\ count = Idle /\ status = Idle
NoCompare == job = Idle /\ verdict = Idle
NoPolicy ==
  /\ text = Idle /\ inTable = Idle /\ chain = Idle /\ section = Idle
  /\ table = Idle /\ inPackage = Idle /\ violated = Idle /\ outcome = Idle

PartsInit ==
  \/ part = "options" /\ OptionsInit /\ NoCompare /\ NoPolicy /\ file = Idle
  \/ part = "compare" /\ Compare!Init /\ NoOptions /\ NoPolicy
  \/ part = "policy" /\ PolicyInit /\ NoOptions /\ NoCompare

PartsNext ==
  /\ UNCHANGED part
  /\ \/ part = "options" /\ OptionsNext /\ UNCHANGED <<job, file, verdict, scanVars>>
     \/ part = "compare" /\ Compare!Next /\ UNCHANGED <<optionVars, scanVars>>
     \/ part = "policy" /\ PolicyNext /\ UNCHANGED <<optionVars, job, verdict>>

PartsSpec == PartsInit /\ [][PartsNext]_<<optionVars, job, verdict, policyVars, part>>

-----------------------------------------------------------------------------
(* A comparison that passes has compared everything with what it stands for. *)
VerdictIsSound == part = "compare" => Compare!VerdictIsSound
=============================================================================
