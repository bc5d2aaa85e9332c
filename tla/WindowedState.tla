--------------------------- MODULE WindowedState ----------------------------
(***************************************************************************)
(* WindowedModelState of det-cli/src/main.rs, with the loop both the       *)
(* encoder and the decoder run around it: sync the window with the tokens  *)
(* coded so far, code one symbol under the current distribution, and       *)
(* advance the model by the symbol unless it is a byte escape.             *)
(*                                                                         *)
(* The model's floating-point state is abstracted to what it was computed  *)
(* from: an entry of the KV cache is the token stored at that position,    *)
(* and logits is the tokens that stood in the cache when they were         *)
(* computed.  That logits are a function of those tokens alone is what the *)
(* forward pass promises.                                                  *)
(***************************************************************************)
EXTENDS ContextWindow

CONSTANTS
  Tokens,      \* the vocabulary
  Empty,       \* a position of the cache nothing was stored at
  MaxTokens    \* bound: tokens in a stream

ASSUME WindowedStateAssumption == Empty \notin Tokens /\ MaxTokens \in Nat

VARIABLES
  tokens,         \* context_tokens
  window_start,   \* the position of the first token in the cache
  context_len,    \* how many tokens are in the cache
  cache,          \* the KV cache, by position in the window
  logits,         \* the context the last forward pass saw
  used,           \* the context the last symbol was coded under
  pc              \* "sync", "replay", "code", "advance", "error"

vars == <<tokens, window_start, context_len, cache, logits, used, pc>>

Positions  == 0 .. NCtx - 1
EmptyCache == [p \in Positions |-> Empty]

Init ==
  /\ tokens = <<>>
  /\ window_start = 0
  /\ context_len = 0
  /\ cache = EmptyCache
  /\ logits = <<>>
  /\ used = <<>>
  /\ pc = "sync"

-----------------------------------------------------------------------------
(***************************************************************************)
(* advance: one forward pass.  The token is stored at the next position,   *)
(* and attention reads every position up to it.  A full cache is the error *)
(* "context window invariant violated".                                    *)
(***************************************************************************)
Store(token) ==
  /\ cache' = [cache EXCEPT ![context_len] = token]
  /\ logits' = [i \in 1 .. context_len + 1 |-> cache'[i - 1]]
  /\ context_len' = context_len + 1

Forward(token, next) ==
  IF context_len < NCtx
  THEN Store(token) /\ pc' = next
  ELSE pc' = "error" /\ UNCHANGED <<cache, logits, context_len>>

(***************************************************************************)
(* sync: when the window has to slide, replay starts from an empty cache   *)
(* and evaluates the tokens of the new window one by one.                  *)
(***************************************************************************)
SyncSame ==
  /\ pc = "sync"
  /\ NextWindowStart(Len(tokens), window_start) = window_start
  /\ pc' = "code"
  /\ UNCHANGED <<tokens, window_start, context_len, cache, logits, used>>

SyncSlide ==
  /\ pc = "sync"
  /\ NextWindowStart(Len(tokens), window_start) # window_start
  /\ window_start' = NextWindowStart(Len(tokens), window_start)
  /\ cache' = EmptyCache
  /\ logits' = <<>>
  /\ context_len' = 0
  /\ pc' = "replay"
  /\ UNCHANGED <<tokens, used>>

ReplayFromFirst ==   \* mutated form: the first tokens are replayed, not the window's
  /\ pc = "replay"
  /\ window_start + context_len < Len(tokens)
  /\ Forward(tokens[context_len + 1], "replay")
  /\ UNCHANGED <<tokens, window_start, used>>

ReplayToken ==
  /\ pc = "replay"
  /\ window_start + context_len < Len(tokens)
  /\ Forward(tokens[window_start + context_len + 1], "replay")
  /\ UNCHANGED <<tokens, window_start, used>>

ReplayDone ==
  /\ pc = "replay"
  /\ window_start + context_len = Len(tokens)
  /\ pc' = "code"
  /\ UNCHANGED <<tokens, window_start, context_len, cache, logits, used>>

(***************************************************************************)
(* Coding a symbol: symbol_range in the encoder, decode_symbol in the      *)
(* decoder.  With nothing in the cache the distribution is the uniform     *)
(* one, that of the empty context.                                         *)
(***************************************************************************)
Distribution == IF context_len = 0 THEN <<>> ELSE logits

CodeTokenLate(token) ==   \* mutated form: the model is advanced by the token first
  /\ pc = "code"
  /\ Len(tokens) < MaxTokens
  /\ used' = Append(Distribution, token)
  /\ tokens' = Append(tokens, token)
  /\ pc' = "advance"
  /\ UNCHANGED <<window_start, context_len, cache, logits>>

CodeToken(token) ==
  /\ pc = "code"
  /\ Len(tokens) < MaxTokens
  /\ used' = Distribution
  /\ tokens' = Append(tokens, token)
  /\ pc' = "advance"
  /\ UNCHANGED <<window_start, context_len, cache, logits>>

CodeEscape ==
  /\ pc = "code"
  /\ used' = Distribution
  /\ pc' = "sync"
  /\ UNCHANGED <<tokens, window_start, context_len, cache, logits>>

Advance ==
  /\ pc = "advance"
  /\ Forward(tokens[Len(tokens)], "sync")
  /\ UNCHANGED <<tokens, window_start, used>>

Next ==
  \/ SyncSame \/ SyncSlide
  \/ ReplayToken \/ ReplayDone
  \/ \E token \in Tokens : CodeToken(token)
  \/ CodeEscape
  \/ Advance

Spec == Init /\ [][Next]_vars

-----------------------------------------------------------------------------
TypeOK ==
  /\ tokens \in Seq(Tokens)
  /\ window_start \in Nat
  /\ context_len \in 0 .. NCtx
  /\ cache \in [Positions -> Tokens \cup {Empty}]
  /\ logits \in Seq(Tokens)   \* no unwritten position is attended to
  /\ used \in Seq(Tokens)
  /\ pc \in {"sync", "replay", "code", "advance", "error"}

(***************************************************************************)
(* The check of advance never fails: the window slides before the cache is *)
(* full, and what is replayed leaves room for the next token.              *)
(***************************************************************************)
NeverOverrun == pc # "error"

(***************************************************************************)
(* When a symbol is coded the window depends on the position alone, not on *)
(* how it was reached, and the cache holds exactly its tokens: none from   *)
(* before the window, none missing, each at its place.                     *)
(***************************************************************************)
WindowByPosition == pc = "code" => window_start = StartAt(Len(tokens))

CacheIsWindow ==
  pc = "code" =>
    /\ Len(tokens) = window_start + context_len
    /\ \A p \in 0 .. context_len - 1 : cache[p] = tokens[window_start + p + 1]
    /\ context_len > 0 => logits = SubSeq(tokens, window_start + 1, Len(tokens))

(***************************************************************************)
(* The incremental state codes every symbol under the distribution that a  *)
(* fresh evaluation of its window gives.                                   *)
(***************************************************************************)
Abstract == INSTANCE ContextCoder

CodesUnderWindow == Abstract!Spec
=============================================================================
