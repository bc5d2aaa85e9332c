------------------------------- MODULE Options --------------------------------
(***************************************************************************)
(* The command lines of detllm and xtask: each parser takes one argument   *)
(* after another and at the end checks what was given together; and the    *)
(* command line that scripts/run-target-full-bench.sh builds for           *)
(* bench-file.                                                             *)
(*                                                                         *)
(* An argument is an option or one of a few texts: a path, nothing, a      *)
(* number, NaN.  An option may itself be taken as the value of another.    *)
(***************************************************************************)
EXTENDS Integers, Sequences

CONSTANTS
  Commands,
  Texts,     \* arguments that are no options
  MaxArgs,   \* bound: arguments of a command line that no script built
  Wrapped    \* what the script is run with: [limit_tokens, verify_dtlz, encode_only, estimate_full_run, warmup]

VARIABLES
  command,
  wrapper,   \* what the script was run with, or NotGiven
  args,      \* arguments still to come, if a script built them
  opts,      \* the fields of the options record, NotGiven or "default" where nothing was given
  pending,   \* the option whose value comes next
  count,
  status     \* "parsing", "ended", "accepted", "error"

optionVars == <<command, wrapper, args, opts, pending, count, status>>

NotGiven == "none"
NoOption == "no option"

\* The script passes its numbers on unread; those it is run with are above 0.
ASSUME OptionsAssumption ==
  Wrapped \subseteq [limit_tokens : {NotGiven, "1", "2"}, verify_dtlz : BOOLEAN, encode_only : BOOLEAN,
                     estimate_full_run : BOOLEAN, warmup : BOOLEAN]

-----------------------------------------------------------------------------
(***************************************************************************)
(* The options of each command, with what their values must be.            *)
(*   text      anything, and NotGiven if the value is missing              *)
(*   given     anything, but not missing                                   *)
(*   nonempty  ... and not empty                                           *)
(*   number    a usize                                                     *)
(*   positive  ... above 0                                                 *)
(*   unit      an f64 from 0 to 1                                          *)
(*   bound     an f64 that is finite and not negative                      *)
(*   flag      takes no value                                              *)
(***************************************************************************)
IoOptions ==
  [text |-> {"--model", "--input", "--output"}, number |-> {"--n-ctx"}, positive |-> {"--threads"}]

BenchFileOptions ==
  [text |-> {"--model", "--input"},
   positive |-> {"--limit-bytes", "--limit-tokens", "--threads", "--progress-every", "--checkpoint-every"},
   number |-> {"--n-ctx", "--iters"},
   nonempty |-> {"--summary", "--output-dtlz", "--verify-dtlz", "--checkpoint", "--progress-summary"},
   flag |-> {"--no-warmup", "--encode-only", "--show-phases", "--estimate-full-run"}]

Kinds(c) ==
  CASE c \in {"compress", "decompress"} -> IoOptions
    [] c = "tokenize" -> [text |-> {"--model"}, given |-> {"--prompt", "--input"}]
    [] c = "logits" -> [text |-> {"--model", "--tokens", "--prompt"}, flag |-> {"--hash"}, given |-> {"--dump"},
                        positive |-> {"--threads", "--chunk-size"}]
    [] c = "model-info" -> [text |-> {"--model"}, flag |-> {"--metadata-prefix"}]
    [] c = "bench-file" -> BenchFileOptions
    [] c = "compare-logits" -> [text |-> {"--actual", "--reference"}, unit |-> {"--min-cosine"},
                                positive |-> {"--row-size", "--rows", "--worst-rows", "--top-diffs"}]
    [] c = "compare-llamacpp-logprobs" -> [text |-> {"--model", "--reference"}, positive |-> {"--threads"},
                                           bound |-> {"--max-rms-diff", "--max-abs-diff", "--max-target-abs-diff"}]
    [] c = "verify-logits-hashes" -> [text |-> {"--dir"}, positive |-> {"--expected-count"}]

OptionsOf(c) ==
  [o \in UNION { Kinds(c)[kind] : kind \in DOMAIN Kinds(c) } |->
     CHOOSE kind \in DOMAIN Kinds(c) : o \in Kinds(c)[kind]]

Options ==
  [c \in {"compress", "decompress", "tokenize", "logits", "model-info", "bench-file", "compare-logits",
          "compare-llamacpp-logprobs", "verify-logits-hashes"} |-> OptionsOf(c)]

Alias(arg) ==
  CASE arg = "-m" -> "--model" [] arg = "-i" -> "--input" [] arg = "-o" -> "--output" [] arg = "-p" -> "--prompt"
    [] OTHER -> arg
\* Short forms exist where the long form is an option and takes a model, an
\* input, an output or a prompt.
Option(c, arg) ==
  IF Alias(arg) \in DOMAIN Options[c] THEN Alias(arg) ELSE NoOption

Numbers == {"0", "1", "2"}
\* Mutated form: a count may be 0.
ValidWithZero(kind, value) ==
  CASE kind \in {"text", "given"} -> TRUE
    [] kind = "nonempty" -> value # ""
    [] kind \in {"number", "positive"} -> value \in Numbers
    [] kind = "unit" -> value \in {"0", "1"}
    [] kind = "bound" -> value \in Numbers
Valid(kind, value) ==
  CASE kind \in {"text", "given"} -> TRUE
    [] kind = "nonempty" -> value # ""
    [] kind = "number" -> value \in Numbers
    [] kind = "positive" -> value \in Numbers \ {"0"}
    [] kind = "unit" -> value \in {"0", "1"}
    [] kind = "bound" -> value \in Numbers

(***************************************************************************)
(* What each command asks of its options together.                         *)
(***************************************************************************)
Has(option) == opts[option] # NotGiven

BenchFileOk ==
  LET once == opts["--iters"] \in {NotGiven, "1"}
  IN  /\ Has("--model") /\ Has("--input") /\ opts["--iters"] # "0"
      /\ Has("--output-dtlz") => once
      /\ Has("--verify-dtlz") =>
           ~Has("--output-dtlz") /\ ~Has("--checkpoint") /\ ~Has("--encode-only") /\ ~Has("--estimate-full-run") /\ once
      /\ Has("--checkpoint") => Has("--output-dtlz") /\ once /\ Has("--checkpoint-every")
      /\ Has("--checkpoint-every") => Has("--checkpoint")

Complete ==
  CASE command = "compress" -> Has("--model") /\ Has("--input") /\ Has("--output")
    [] command = "decompress" -> Has("--model") /\ Has("--input") /\ Has("--output") /\ ~Has("--n-ctx")
    [] command = "tokenize" -> Has("--model") /\ (Has("--prompt") # Has("--input"))
    [] command = "logits" -> Has("--hash") /\ Has("--model") /\ (Has("--tokens") # Has("--prompt"))
    [] command = "model-info" -> Has("--model")
    [] command = "bench-file" -> BenchFileOk
    [] command = "compare-logits" -> Has("--actual") /\ Has("--reference") /\ (Has("--rows") => Has("--row-size"))
    [] command = "compare-llamacpp-logprobs" -> Has("--model") /\ Has("--reference")
    [] command = "verify-logits-hashes" -> Has("--dir") /\ Has("--expected-count")

-----------------------------------------------------------------------------
(***************************************************************************)
(* run-target-full-bench.sh: what it refuses, and what it runs.            *)
(***************************************************************************)
ScriptAccepts(w) ==
  /\ w.estimate_full_run => w.limit_tokens # NotGiven
  /\ w.verify_dtlz => ~w.encode_only /\ ~w.estimate_full_run

If(given, list) == IF given THEN list ELSE <<>>

FixedArgs ==
  << "--model", "path", "--input", "path", "--limit-bytes", "2", "--n-ctx", "2", "--threads", "2", "--iters", "1",
     "--show-phases", "--summary", "path", "--progress-every", "2", "--progress-summary", "path" >>

ScriptArgs(w) ==
  FixedArgs
    \o (IF w.verify_dtlz THEN <<"--verify-dtlz", "path">>
        ELSE <<"--output-dtlz", "path", "--checkpoint", "path", "--checkpoint-every", "2">>)
    \o If(w.limit_tokens # NotGiven, <<"--limit-tokens", w.limit_tokens>>)
    \o If(~w.warmup, <<"--no-warmup">>)
    \o If(w.encode_only, <<"--encode-only">>)
    \o If(w.estimate_full_run, <<"--estimate-full-run">>)

NoWrapper == [script |-> NotGiven]

\* A command line may start with a model and an input; these arguments are not counted.
OptionsInit ==
  /\ \/ command \in Commands /\ wrapper = NoWrapper /\ args = <<>>
     \/ /\ command = "bench-file"
        /\ wrapper \in { w \in Wrapped : ScriptAccepts(w) } /\ args = ScriptArgs(wrapper)
  /\ opts \in { [o \in DOMAIN Options[command] |-> IF o \in first THEN "path" ELSE NotGiven] :
                 first \in IF wrapper = NoWrapper THEN { {}, {"--model", "--input"} } ELSE { {} } }
  /\ pending = NoOption /\ count = 0 /\ status = "parsing"

-----------------------------------------------------------------------------
\* The next argument: any, or that of the script.
Arguments ==
  DOMAIN Options[command] \cup { a \in {"-m", "-i", "-o", "-p"} : Option(command, a) # NoOption } \cup Texts
NextArg(arg) ==
  /\ status = "parsing"
  /\ IF wrapper = NoWrapper
     THEN arg \in Arguments /\ count < MaxArgs /\ count' = count + 1 /\ UNCHANGED args
     ELSE args # <<>> /\ arg = Head(args) /\ args' = Tail(args) /\ UNCHANGED count

TakeOption(arg) ==
  LET option == Option(command, arg)
  IN  /\ pending = NoOption
      /\ NextArg(arg)
      /\ IF option = NoOption THEN status' = "error" /\ UNCHANGED <<opts, pending>>
         ELSE /\ UNCHANGED status
              /\ IF Options[command][option] = "flag"
                 THEN opts' = [opts EXCEPT ![option] = "given"] /\ UNCHANGED pending
                 ELSE pending' = option /\ UNCHANGED opts
      /\ UNCHANGED <<command, wrapper>>

TakeValue(arg) ==
  /\ pending # NoOption
  /\ NextArg(arg)
  /\ IF Valid(Options[command][pending], arg)
     THEN opts' = [opts EXCEPT ![pending] = arg] /\ UNCHANGED status
     ELSE status' = "error" /\ UNCHANGED opts
  /\ pending' = NoOption
  /\ UNCHANGED <<command, wrapper>>

\* The last option may have no value; a text option then loses the one it had.
EndOfArgs ==
  /\ status \in {"parsing", "ended"} /\ pending = NoOption /\ args = <<>>
  /\ status' = IF Complete THEN "accepted" ELSE "error"
  /\ UNCHANGED <<command, wrapper, args, opts, pending, count>>

MissingValue ==
  /\ status = "parsing" /\ pending # NoOption /\ args = <<>>
  /\ IF Options[command][pending] = "text"
     THEN opts' = [opts EXCEPT ![pending] = NotGiven] /\ status' = "ended"
     ELSE status' = "error" /\ UNCHANGED opts
  /\ pending' = NoOption
  /\ UNCHANGED <<command, wrapper, args, count>>

OptionsNext ==
  \/ \E arg \in Arguments \cup (IF args = <<>> THEN {} ELSE {Head(args)}) : TakeOption(arg) \/ TakeValue(arg)
  \/ EndOfArgs \/ MissingValue

OptionsSpec == OptionsInit /\ [][OptionsNext]_optionVars

-----------------------------------------------------------------------------
(***************************************************************************)
(* What runs on the options never meets what it takes for granted: no      *)
(* interval of the progress or of the checkpoints is 0, which both are     *)
(* divided by; checkpoints have an interval and an output, of one          *)
(* iteration; a verification is asked for nothing that it would pass over  *)
(* in silence; and tokenize has the input it expects.                      *)
(***************************************************************************)
Usable ==
  /\ command = "bench-file" =>
       /\ opts["--progress-every"] # "0" /\ opts["--checkpoint-every"] # "0"
       /\ Has("--checkpoint") => Has("--checkpoint-every") /\ Has("--output-dtlz")
       /\ Has("--output-dtlz") \/ Has("--verify-dtlz") => opts["--iters"] \notin {"0", "2"}
       /\ Has("--verify-dtlz") => \A o \in {"--output-dtlz", "--checkpoint", "--encode-only", "--estimate-full-run"} : ~Has(o)
  /\ command = "tokenize" => ~(Has("--prompt") /\ Has("--input"))
  /\ command = "logits" => Has("--tokens") # Has("--prompt")
  /\ command = "compare-logits" => opts["--row-size"] # "0" /\ (Has("--rows") => Has("--row-size"))

(***************************************************************************)
(* Whatever the script does not refuse, bench-file does not refuse either, *)
(* and an encode it starts can be resumed, or its file verified.           *)
(***************************************************************************)
ScriptIsAccepted ==
  wrapper # NoWrapper =>
    /\ status # "error"
    /\ status = "accepted" => Has("--verify-dtlz") # (Has("--checkpoint") /\ Has("--output-dtlz"))

OptionsAreUsable == (status = "accepted" => Usable) /\ ScriptIsAccepted
=============================================================================
