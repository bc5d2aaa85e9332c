------------------------------ MODULE KvCache ------------------------------
(***************************************************************************)
(* KvCache of det-model/src/lib.rs: keys and values of all layers, heads   *)
(* and positions in one vector each, at offsets that are products of them. *)
(*                                                                         *)
(* The element j of the n-th stored layer is <<n, j>>, and Zero is what    *)
(* new fills the vectors with.  A store that is refused (another length, a *)
(* value that is not finite, a place outside the cache) writes nothing:    *)
(* the first offset is computed before the first write.                    *)
(***************************************************************************)
EXTENDS Integers

CONSTANTS
  Configs,     \* LlamaConfig, as far as the cache reads it
  MaxUsize,    \* the largest usize
  MaxStores    \* bound: stores

Dimension == Nat \ {0}

\* LlamaConfig::validate refuses a dimension of 0.
ASSUME KvAssumption ==
  /\ MaxUsize \in Nat /\ MaxStores \in Nat
  /\ Configs \subseteq [block_count : Dimension, head_count_kv : Dimension,
                        context_length : Dimension, head_dim : Dimension]

VARIABLES
  config,
  k, v,       \* the vectors
  stores,     \* how many stores there were
  last        \* history: the last store of each layer and position, or 0

cacheVars == <<config, k, v, stores, last>>

\* new: the length of the vectors; refused when it is no usize.
CacheLen(c) == c.block_count * c.head_count_kv * c.context_length * c.head_dim

Places(c) == (0 .. c.block_count - 1) \X (0 .. c.context_length - 1)
Heads(c) == 0 .. c.head_count_kv - 1

Zero == <<0, 0>>

CacheInit ==
  /\ config \in { c \in Configs : CacheLen(c) <= MaxUsize }
  /\ k = [a \in 0 .. CacheLen(config) - 1 |-> Zero]
  /\ v = [a \in 0 .. CacheLen(config) - 1 |-> Zero]
  /\ stores = 0
  /\ last = [place \in Places(config) |-> 0]

\* Mutated form: the number of layers for the stride of a layer.
OffsetByLayers(c, layer, kv_head, pos) ==
  ((layer * c.block_count + kv_head) * c.context_length + pos) * c.head_dim

Offset(c, layer, kv_head, pos) ==
  ((layer * c.head_count_kv + kv_head) * c.context_length + pos) * c.head_dim

\* The vector after the loop of store over the heads: head_dim elements of
\* each head are copied to the head's place.
Copied(c, values, n, layer, pos) ==
  [a \in DOMAIN values |->
     IF \E h \in Heads(c) : a - Offset(c, layer, h, pos) \in 0 .. c.head_dim - 1
     THEN LET h == CHOOSE h \in Heads(c) : a - Offset(c, layer, h, pos) \in 0 .. c.head_dim - 1
          IN  <<n, h * c.head_dim + (a - Offset(c, layer, h, pos))>>
     ELSE values[a]]

StoreKv(layer, pos) ==
  /\ stores < MaxStores
  /\ stores' = stores + 1
  /\ k' = Copied(config, k, stores + 1, layer, pos)
  /\ v' = Copied(config, v, stores + 1, layer, pos)
  /\ last' = [last EXCEPT ![<<layer, pos>>] = stores + 1]
  /\ UNCHANGED config

CacheNext == \E place \in Places(config) : StoreKv(place[1], place[2])

CacheSpec == CacheInit /\ [][CacheNext]_cacheVars

-----------------------------------------------------------------------------
\* key and value: element i of a place; key_prefix and value_prefix: element j
\* of the first len positions of a head, 0 <= j < len * head_dim.
Element(values, c, layer, kv_head, pos, i) == values[Offset(c, layer, kv_head, pos) + i]
PrefixElement(values, c, layer, kv_head, j) == values[Offset(c, layer, kv_head, 0) + j]

Expected(c, kv_head, n, i) == IF n = 0 THEN Zero ELSE <<n, kv_head * c.head_dim + i>>

\* Whatever was stored in whatever order, every place is inside the vectors
\* and holds what was last stored there: no two places share an element, so
\* the offset computations of store, key and value never fail or alias.
KeysAreLastStored ==
  \A place \in Places(config), h \in Heads(config), i \in 0 .. config.head_dim - 1 :
    /\ Offset(config, place[1], h, place[2]) + i \in 0 .. CacheLen(config) - 1
    /\ Element(k, config, place[1], h, place[2], i)
         = Expected(config, h, last[place], i)
    /\ Element(v, config, place[1], h, place[2], i)
         = Expected(config, h, last[place], i)

\* The slice that attention reads is that of one head, position by position.
PrefixIsPositions ==
  \A place \in Places(config), h \in Heads(config), i \in 0 .. config.head_dim - 1 :
    LET j == place[2] * config.head_dim + i
    IN  /\ PrefixElement(k, config, place[1], h, j)
             = Expected(config, h, last[place], i)
        /\ PrefixElement(v, config, place[1], h, j)
             = Expected(config, h, last[place], i)

\* The cache is a map from layer, head and position to the last store.
CacheIsMap == KeysAreLastStored /\ PrefixIsPositions
=============================================================================
