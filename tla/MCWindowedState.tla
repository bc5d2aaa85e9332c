-------------------------- MODULE MCWindowedState ---------------------------
(***************************************************************************)
(* The window over the context, and on its own the layout of the KV cache  *)
(* behind it: one of the two takes steps, the other stays as it began.     *)
(***************************************************************************)
EXTENDS WindowedState, KvCache

VARIABLE part

\* Three shapes of at most 24 elements, one of which has no more than one of
\* everything but positions, and one that is refused for its size.
MCConfigs ==
  LET shape(layers, heads, ctx, dim) ==
        [block_count |-> layers, head_count_kv |-> heads, context_length |-> ctx, head_dim |-> dim]
  IN  { shape(2, 2, 3, 2), shape(2, 3, 2, 2), shape(1, 1, 4, 3), shape(3, 3, 3, 3) }

PartsInit ==
  /\ part \in {"window", "cache"}
  /\ Init /\ CacheInit
  /\ part = "window" => config = CHOOSE c \in Configs : CacheLen(c) <= MaxUsize

PartsNext ==
  /\ UNCHANGED part
  /\ \/ part = "window" /\ Next /\ UNCHANGED cacheVars
     \/ part = "cache" /\ CacheNext /\ UNCHANGED vars
     \/ part = "cache" /\ stores = MaxStores /\ UNCHANGED <<vars, cacheVars>>

PartsSpec == PartsInit /\ [][PartsNext]_<<vars, cacheVars, part>>
=============================================================================
