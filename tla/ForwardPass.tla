---------------------------- MODULE ForwardPass ----------------------------
(***************************************************************************)
(* F32Llama::forward_one_with_workspace of det-model/src/lib.rs, call      *)
(* after call over one KV cache and one ForwardWorkspace, by a caller that *)
(* goes on after errors and goes back to earlier positions, and by         *)
(* visit_logits_for_tokens_chunked.                                        *)
(*                                                                         *)
(* A value is named by what it should be: Val(name, layer, seq) is what    *)
(* the layer computes under that name at the last of the tokens seq, when  *)
(* they are at positions 0, 1, and so on.  A step that reads anything but  *)
(* the operands it is defined over gives Wrong, and so does a step over    *)
(* Wrong: a value of another token, layer, position or buffer that is read *)
(* anywhere shows in the logits.  The quantised copies of a vector, in q8a *)
(* and q8k, go by its name.                                                *)
(***************************************************************************)
EXTENDS Integers, Sequences

CONSTANTS
  Tokens,
  Layers,          \* config.block_count
  HeadCount, HeadCountKv,
  MaxContext,      \* of the workspace and the rope tables, at most the cache's
  Formats,         \* formats of the matrices: functions from Matrices
  Requests,        \* requests [tokens, chunk] of visit_logits_for_tokens_chunked
  MaxCalls,        \* bound: calls of one caller
  MaxFailures      \* bound: calls that fail

Matrices == {"wq", "wk", "wv", "wo", "w_gate", "w_up", "w_down", "output"}

ASSUME ForwardAssumption ==
  /\ Layers \in Nat /\ MaxContext \in Nat \ {0} /\ MaxCalls \in Nat /\ MaxFailures \in Nat
  /\ HeadCountKv \in Nat \ {0} /\ HeadCount \in Nat \ {0} /\ HeadCount % HeadCountKv = 0
  /\ Formats \subseteq [Matrices -> {"F32", "Q8A", "Q6K"}]
  /\ \A request \in Requests : request.tokens \in Seq(Tokens) /\ request.chunk \in Nat

VARIABLES
  format,      \* Q8A stands for Q8_0, Q4_0 and Q4K, the formats of needs_q8a
  buffers,     \* the vectors of the workspace, and logits
  scores, probs,   \* per head, one element per position
  cache,       \* k and v of <<layer, kv_head, pos>>
  hist,        \* history: the tokens that the cache holds for positions 0, 1, ...
  pass,        \* the call: token, pos, layer, step, pc
  chunk,       \* the visit loop: index of the chunk, offset in it, pos
  visited,     \* what was given to visit
  calls, failures

forwardVars == <<format, buffers, scores, probs, cache, hist, pass, chunk, visited, calls, failures>>

Heads == 0 .. HeadCount - 1
KvHeads == 0 .. HeadCountKv - 1
Positions == 0 .. MaxContext - 1
Names == {"x", "h", "q", "k", "v", "attn", "tmp_d", "gate", "up", "ff", "q8a", "q8k", "logits"}

Val(name, layer, seq) == [name |-> name, layer |-> layer, seq |-> seq, head |-> 0]
Wrong == Val("wrong", 0, <<>>)
\* The tokens up to that of the call.
Seen == Append(SubSeq(hist, 1, pass.pos), pass.token)
Now(name) == Val(name, pass.layer, Seen)
OfHead(name, h) == [Now(name) EXCEPT !.head = h]

NoCall == [token |-> CHOOSE t \in Tokens : TRUE, pos |-> 0, layer |-> 0, step |-> 0, pc |-> "idle"]
Free == [tokens |-> <<>>, chunk |-> 0]

ForwardInit ==
  /\ format \in Formats
  /\ buffers = [b \in Names |-> Wrong]
  /\ scores = [h \in Heads |-> [p \in Positions |-> Wrong]]
  /\ probs = scores
  /\ cache = [place \in (0 .. Layers - 1) \X KvHeads \X Positions |-> <<Wrong, Wrong>>]
  /\ hist = <<>> /\ pass = NoCall /\ visited = <<>> /\ calls = 0 /\ failures = 0
  /\ chunk \in { [request |-> r, index |-> 0, offset |-> 0, pos |-> 0] : r \in Requests \cup {Free} }

-----------------------------------------------------------------------------
(***************************************************************************)
(* The steps of one layer: each reads buffers that should hold the named   *)
(* values, and writes a buffer.                                            *)
(***************************************************************************)
Step(reads, out, gives) == [op |-> "compute", reads |-> reads, out |-> out, gives |-> gives]
Reads(b, name) == { <<b, name>> }

\* quantize_q8a_into once for a group of matrices that multiply the same vector.
Shared(b, name, group) ==
  IF \E m \in group : format[m] = "Q8A"
  THEN << Step(Reads(b, name), "q8a", name) >> ELSE <<>>

\* Mutated form: the blocks of the last shared quantisation are used again.
OwnReused(b, name, m) == <<>>
Own(b, name, m) ==
  IF format[m] = "Q8A" THEN << Step(Reads(b, name), "q8a", name) >> ELSE <<>>

\* gemv_with_optional_q8a_and_q8k_scratch.
Product(b, name, m, out, gives) ==
  CASE format[m] = "F32" -> << Step(Reads(b, name), out, gives) >>
    [] format[m] = "Q8A" -> << Step(Reads("q8a", name), out, gives) >>
    [] format[m] = "Q6K" -> << Step(Reads(b, name), "q8k", name),
                               Step(Reads("q8k", name), out, gives) >>

\* gemv_with_quant_scratch.
OwnProduct(b, name, m, out, gives) == Own(b, name, m) \o Product(b, name, m, out, gives)

LayerSteps ==
     << Step(Reads("x", "x"), "h", "h1") >>                        \* rmsnorm
  \o Shared("h", "h1", {"wq", "wk", "wv"})
  \o Product("h", "h1", "wq", "q", "q0") \o << Step(Reads("q", "q0"), "q", "q1") >>   \* bias
  \o Product("h", "h1", "wk", "k", "k0") \o << Step(Reads("k", "k0"), "k", "k1") >>
  \o Product("h", "h1", "wv", "v", "v0") \o << Step(Reads("v", "v0"), "v", "v1") >>
  \o << Step(Reads("q", "q1"), "q", "q2"), Step(Reads("k", "k1"), "k", "k2") >>       \* apply_rope
  \o << [op |-> "store"], [op |-> "attention"] >>
  \o OwnProduct("attn", "attn", "wo", "tmp_d", "o")
  \o << Step(Reads("x", "x") \cup Reads("tmp_d", "o"), "x", "x1"),   \* residual_add
        Step(Reads("x", "x1"), "h", "h2") >>
  \o Shared("h", "h2", {"w_gate", "w_up"})
  \o Product("h", "h2", "w_gate", "gate", "gate") \o Product("h", "h2", "w_up", "up", "up")
  \o << Step(Reads("gate", "gate") \cup Reads("up", "up"), "ff", "ff") >>   \* swiglu
  \o OwnProduct("ff", "ff", "w_down", "tmp_d", "d")
  \o << Step(Reads("x", "x1") \cup Reads("tmp_d", "d"), "x", "x2") >>

OutputSteps == << Step(Reads("x", "x"), "h", "h3") >> \o OwnProduct("h", "h3", "output", "logits", "logits")

Steps == IF pass.layer < Layers THEN LayerSteps ELSE OutputSteps
Current == Steps[pass.step]

\* x2 of a layer is x of the next one.
Result(s) ==
  IF \A r \in s.reads : buffers[r[1]] = Now(r[2])
  THEN IF s.gives = "x2" THEN [Now("x") EXCEPT !.layer = @ + 1] ELSE Now(s.gives)
  ELSE Wrong

\* The next step of the call, the next layer, or its end.
After ==
  IF pass.step < Len(Steps) THEN [pass EXCEPT !.step = @ + 1]
  ELSE IF pass.layer < Layers THEN [pass EXCEPT !.layer = @ + 1, !.step = 1]
  ELSE [pass EXCEPT !.pc = "ok"]

Computing == pass.pc = "run"

Compute ==
  /\ Computing /\ Current.op = "compute"
  /\ \E s \in {Current} : buffers' = [buffers EXCEPT ![s.out] = Result(s)]
  /\ pass' = After
  /\ hist' = IF pass'.pc = "ok" THEN Seen ELSE hist
  /\ UNCHANGED <<format, scores, probs, cache, chunk, visited, calls, failures>>

\* KvCache::store, of every head's part of k and v.
Part(value, kv_head) == IF value = Wrong THEN Wrong ELSE [value EXCEPT !.head = kv_head]

Store ==
  /\ Computing /\ Current.op = "store"
  /\ cache' = [place \in DOMAIN cache |->
                 IF place[1] = pass.layer /\ place[3] = pass.pos
                 THEN <<Part(buffers["k"], place[2]), Part(buffers["v"], place[2])>>
                 ELSE cache[place]]
  /\ pass' = After
  /\ UNCHANGED <<format, buffers, scores, probs, hist, chunk, visited, calls, failures>>

-----------------------------------------------------------------------------
(***************************************************************************)
(* attention_one_head over all heads.                                      *)
(***************************************************************************)
Prefix == 0 .. pass.pos

\* softmax_in_place reads the scores of this call, for all positions up to pos.
Softmax(h, scored) == \A p \in Prefix : scored[p] = OfHead("score", h)

KvHead(h) == h \div (HeadCount \div HeadCountKv)

\* A position's k or v, as it was computed when that position was the last.
Stored(which, h, p) ==
  cache[<<pass.layer, KvHead(h), p>>][which]
    = [Val(IF which = 1 THEN "k2" ELSE "v1", pass.layer, SubSeq(Seen, 1, p + 1)) EXCEPT !.head = KvHead(h)]

Scored(h) ==
  [p \in Positions |->
     IF p \notin Prefix THEN scores[h][p]
     ELSE IF buffers["q"] = Now("q2") /\ Stored(1, h, p) THEN OfHead("score", h) ELSE Wrong]

Weighed(h, scored) ==
  [p \in Positions |->
     IF p \notin Prefix THEN probs[h][p]
     ELSE IF Softmax(h, scored) THEN OfHead("prob", h) ELSE Wrong]

\* At position 0 the value is copied, and the scratch left alone.
Attention ==
  /\ Computing /\ Current.op = "attention"
  /\ \E scored \in { [h \in Heads |-> IF pass.pos = 0 THEN scores[h] ELSE Scored(h)] } :
     \E weighed \in { [h \in Heads |-> IF pass.pos = 0 THEN probs[h] ELSE Weighed(h, scored[h])] } :
       /\ scores' = scored /\ probs' = weighed
       /\ buffers' = [buffers EXCEPT !["attn"] =
            IF \A h \in Heads, p \in Prefix :
                 /\ Stored(2, h, p)
                 /\ pass.pos > 0 => weighed[h][p] = OfHead("prob", h)
            THEN Now("attn") ELSE Wrong]
  /\ pass' = After
  /\ UNCHANGED <<format, cache, hist, chunk, visited, calls, failures>>

\* A value is not finite: the error leaves what was written so far.  Of the
\* cache the caller may then count on the positions before this one.
Fail ==
  /\ Computing /\ failures < MaxFailures /\ failures' = failures + 1
  /\ CASE Current.op = "compute" -> /\ buffers' = [buffers EXCEPT ![Current.out] = Wrong]
                                    /\ UNCHANGED <<scores, probs>>
       [] Current.op = "attention" -> /\ buffers' = [buffers EXCEPT !["attn"] = Wrong]
                                      /\ scores' = [h \in Heads |-> [p \in Positions |-> Wrong]]
                                      /\ probs' = scores'
       [] Current.op = "store" -> UNCHANGED <<buffers, scores, probs>>
  /\ pass' = [pass EXCEPT !.pc = "err"]
  /\ hist' = SubSeq(hist, 1, pass.pos)
  /\ UNCHANGED <<format, cache, chunk, visited, calls>>

-----------------------------------------------------------------------------
(***************************************************************************)
(* The callers.                                                            *)
(***************************************************************************)
\* write_row_validated of the token into x, after the checks.
Begin(token, pos) ==
  /\ pos < MaxContext
  /\ pass' = [token |-> token, pos |-> pos, layer |-> 0, step |-> 1, pc |-> "run"]
  /\ buffers' = [buffers EXCEPT !["x"] = Val("x", 0, Append(SubSeq(hist, 1, pos), token))]
  /\ calls' = calls + 1
  /\ UNCHANGED <<format, scores, probs, cache, hist, failures>>

\* Any token at any position that follows what the cache holds.
CallAnywhere(token, pos) ==
  /\ chunk.request = Free /\ pass.pc \in {"idle", "ok", "err"}
  /\ calls < MaxCalls /\ pos <= Len(hist)
  /\ Begin(token, pos)
  /\ UNCHANGED <<chunk, visited>>

\* The checks of validate_logits_request, made before the loop.
Accepted(request) ==
  /\ request.tokens # <<>> /\ request.chunk # 0 /\ Len(request.tokens) <= MaxContext

VisitLen ==
  LET rest == Len(chunk.request.tokens) - chunk.index * chunk.request.chunk
  IN  IF rest < chunk.request.chunk THEN rest ELSE chunk.request.chunk

VisitCall ==
  /\ chunk.request # Free /\ Accepted(chunk.request) /\ pass.pc = "idle"
  /\ chunk.index * chunk.request.chunk < Len(chunk.request.tokens)
  /\ chunk.offset < VisitLen
  /\ Begin(chunk.request.tokens[chunk.index * chunk.request.chunk + chunk.offset + 1], chunk.pos)
  /\ UNCHANGED <<chunk, visited>>

Visit ==
  /\ chunk.request # Free /\ pass.pc = "ok"
  /\ visited' = Append(visited, buffers["logits"])
  /\ chunk' = IF chunk.offset + 1 < VisitLen
              THEN [chunk EXCEPT !.offset = @ + 1, !.pos = @ + 1]
              ELSE [chunk EXCEPT !.index = @ + 1, !.offset = 0, !.pos = @ + 1]
  /\ pass' = [pass EXCEPT !.pc = "idle"]
  /\ UNCHANGED <<format, buffers, scores, probs, cache, hist, calls, failures>>

ForwardNext ==
  \/ Compute \/ Store \/ Attention \/ Fail \/ VisitCall \/ Visit
  \/ \E token \in Tokens, pos \in Positions : CallAnywhere(token, pos)

ForwardSpec == ForwardInit /\ [][ForwardNext]_forwardVars

-----------------------------------------------------------------------------
\* When a call returns Ok, its logits are those of the tokens at positions up
\* to its own: nothing that an earlier call, a call that failed half-way, or a
\* longer context has left in the workspace or the cache is read, and the
\* quantised copy that a product reads is one of the vector it multiplies.
\* The visit loop gives the logits of every prefix, in order, for every chunk
\* size.
LogitsOfTokens ==
  /\ pass.pc = "ok" => buffers["logits"] = Val("logits", Layers, hist)
  /\ \A i \in DOMAIN visited :
       visited[i] = Val("logits", Layers, SubSeq(chunk.request.tokens, 1, i))
=============================================================================
