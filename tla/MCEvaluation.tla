---------------------------- MODULE MCEvaluation ----------------------------
(***************************************************************************)
(* The evaluation of a token, each part on its own: the forward pass, the  *)
(* loops that run on several threads, the bits of a quantised block, and   *)
(* the products of quantised matrices.  Only the variables of the part     *)
(* that runs have a meaning.                                               *)
(***************************************************************************)
EXTENDS GemvParallel, ForwardPass, QuantDot

CONSTANTS
  BlockFormats, Fills    \* QuantBlock

VARIABLES
  part,
  fill, probed, changed  \* QuantBlock, and format

Layout == INSTANCE QuantBlock WITH Formats <- BlockFormats

passVars == <<buffers, scores, probs, cache, hist, pass, chunk, visited, calls, failures>>
blockVars == <<fill, probed, changed>>

-----------------------------------------------------------------------------
\* Forward pass: two layers, two heads per key head; matrices of one format, of
\* three different ones that share a vector, and with none of them quantised to
\* q8a in the attention but in the rest.
MCFormats ==
  LET all(f) == [m \in Matrices |-> f]
  IN  { all("Q8A"),
        [all("Q6K") EXCEPT !["wk"] = "Q8A", !["w_up"] = "F32"],
        [all("F32") EXCEPT !["wo"] = "Q8A", !["w_gate"] = "Q8A", !["output"] = "Q6K"] }

MCRequests ==
  [tokens : [1 .. 0 -> Tokens] \cup [1 .. 3 -> Tokens], chunk : 0 .. 4]

-----------------------------------------------------------------------------
\* Threads: products of five rows, with two failing rows and with none,
\* attentions above and below the threshold, and an empty product.
Job(kind, rows, errors, work) ==
  [kind |-> kind, rows |-> rows, errors |-> errors, work |-> work]

NoErrors == [r \in {} |-> "NonFinite"]
EmptyProduct == Job("gemv", 0, NoErrors, 0)

MCJobs ==
  { EmptyProduct, Job("gemv", 5, NoErrors, 0),
    Job("gemv", 5, [r \in {1, 4} |-> IF r = 1 THEN "NonFinite" ELSE "Quant"], 0),
    Job("attention", 2, NoErrors, 8), Job("attention", 2, [r \in {0} |-> "NonFinite"], 8),
    Job("attention", 2, NoErrors, 2) }

-----------------------------------------------------------------------------
\* Blocks: the bits of a block that is not of one byte throughout.
MCBlockFormats == {"Q8_0", "Q4_0", "Q4_K", "Q6_K"}
MCFills == { [i \in 0..209 |-> (i * 37 + 11) % 256] }

-----------------------------------------------------------------------------
\* Products.  Two scales as f16: 1 and -2; 31744 is infinity.
One == 15360
MinusTwo == 49152
Infinity == 31744

Noise(seed, i) == (i * i * 7 + i * (seed + 13) + seed * 29) % 256

\* The bytes of a block: noise, or -128 throughout, around the scales.
Bytes(f, seed, d) ==
  LET at == CASE f = "Q6_K" -> {208} [] f = "Q4_K" -> {0, 2} [] OTHER -> {0}
  IN  [i \in 0..209 |->
         IF i \in at THEN d % 256 ELSE IF i - 1 \in at THEN d \div 256
         ELSE IF seed = 0 THEN 128 ELSE Noise(seed, i)]

Matrix(f, seed, d) ==
  [format |-> f,
   rows |-> [r \in 0..1 |-> [k \in 0..1 |-> Bytes(f, IF seed = 0 THEN 0 ELSE seed + 2 * r + k, d)]]]

MCProducts ==
  { Matrix(f, s, d) : f \in MCBlockFormats, s \in {0, 1, 8}, d \in {One, MinusTwo} }
  \cup { Matrix("Q4_K", 1, Infinity) }

MCInputs ==
  { [i \in 0..511 |-> 0],
    [i \in 0..511 |-> -1],
    [i \in 0..511 |-> ((i * 11) % 41) - 20],
    [i \in 0..511 |-> ((i * i) % 12) - 6],
    [i \in 0..511 |-> IF i = 40 THEN MaxFinite + 1 ELSE 1] }

MCTargets == {"scalar", "sse2", "avx2", "neon", "simd128"}

-----------------------------------------------------------------------------
Idle == "idle"
\* No call has been made.
NoForward ==
  /\ buffers = Idle /\ scores = Idle /\ probs = Idle /\ cache = Idle /\ hist = Idle
  /\ pass = NoCall /\ chunk = Idle /\ visited = <<>> /\ calls = Idle /\ failures = Idle
\* The threads have returned from an empty product.
NoGemv ==
  /\ override = 0 /\ sets = 0 /\ pools = {} /\ mutex = {}
  /\ call = [c \in Callers |-> [Begun(EmptyProduct) EXCEPT !.pc = "done", !.result = "ok"]]
NoBlock == fill = Idle /\ probed = Idle /\ changed = Idle
NoDot ==
  /\ matrix = Idle /\ x = Idle /\ target = Idle /\ blocks = Idle
  /\ acts = Idle /\ out = Idle /\ status = Idle

PartsInit ==
  \/ part = "forward" /\ ForwardInit /\ NoGemv /\ NoBlock /\ NoDot
  \/ part = "gemv" /\ Init /\ NoForward /\ NoBlock /\ NoDot /\ format = Idle
  \/ part = "block" /\ Layout!Init /\ NoForward /\ NoGemv /\ NoDot
  \/ part = "dot" /\ DotInit /\ NoForward /\ NoGemv /\ NoBlock /\ format = Idle

PartsNext ==
  /\ UNCHANGED part
  /\ \/ part = "forward" /\ ForwardNext /\ UNCHANGED <<vars, blockVars, dotVars>>
     \/ part = "gemv" /\ Next /\ UNCHANGED <<format, passVars, blockVars, dotVars>>
     \/ part = "block" /\ Layout!Next /\ UNCHANGED <<passVars, vars, dotVars>>
     \/ part = "dot" /\ DotNext /\ UNCHANGED <<format, passVars, vars, blockVars>>

\* Threads run, and mutexes need not be fair: FairSpec of GemvParallel, whose
\* ResultIsSequential and CallsReturn hold of its part, and of threads that idle.
PartsSpec ==
  /\ PartsInit /\ [][PartsNext]_<<vars, format, passVars, blockVars, dotVars, part>>
  /\ \A c \in Callers : WF_vars(part = "gemv" /\ CallerNext(c))

-----------------------------------------------------------------------------
\* Every bit of a block is one bit of one value.
EveryBitIsRead == part = "block" => Layout!EveryBitIsRead
=============================================================================
