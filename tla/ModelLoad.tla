----------------------------- MODULE ModelLoad -----------------------------
(***************************************************************************)
(* From a parsed GGUF file to a model: LlamaConfig::from_gguf and          *)
(* F32Llama::from_gguf of det-model, the checks of LoadedModel::load and   *)
(* tokenize in det-cli, and what xtask's model-info says of the same file. *)
(* The three look at the file with code of their own, in particular for    *)
(* the size of the vocabulary.                                             *)
(*                                                                         *)
(* A metadata key is <<prefix, suffix>>, a value [ty, v].  A float is its  *)
(* sign or class.  Which error refuses a file is left out; the checks are  *)
(* therefore conjuncts.                                                    *)
(***************************************************************************)
EXTENDS Integers, Sequences, SequencesExt

CONSTANTS
  Ggufs,       \* files that parse let through: [metadata, tensors]
  Blocks,      \* block sizes of the tensor types, as parse knows them
  MaxU32,
  Escapes, MaxSymbols   \* BYTE_ESCAPE_SYMBOLS, MAX_SYMBOLS

\* What validate_tensor_data_layout and the name check have established, and
\* that the numbers of the metadata are numbers.
ASSUME ParsedAssumption ==
  \A g \in Ggufs :
    /\ \A i, j \in DOMAIN g.tensors : g.tensors[i].name = g.tensors[j].name => i = j
    /\ \A i \in DOMAIN g.tensors :
         /\ g.tensors[i].dimensions \in Seq(Nat \ {0}) \ {<<>>}
         /\ g.tensors[i].ty \in DOMAIN Blocks
         /\ FoldLeft(LAMBDA n, d : n * d, 1, g.tensors[i].dimensions) % Blocks[g.tensors[i].ty] = 0
    /\ \A key \in DOMAIN g.metadata : g.metadata[key].ty \in {"U32", "U64"} => g.metadata[key].v \in Nat

VARIABLES
  gguf,
  info,       \* model-info: status of config, vocab and required tensors together
  model,      \* load: the model's shapes, or NoModel
  tokenize,   \* the vocabulary checks of the tokenize command
  reading

loadVars == <<gguf, info, model, tokenize, reading>>

Metadata == gguf.metadata
Has(key) == key \in DOMAIN Metadata

-----------------------------------------------------------------------------
(***************************************************************************)
(* Metadata access.                                                        *)
(***************************************************************************)
\* metadata_u32: a u32, or a u64 that fits.
IsU32(key) == Metadata[key].ty = "U32" \/ (Metadata[key].ty = "U64" /\ Metadata[key].v <= MaxU32)
Required(key) == Has(key) /\ IsU32(key)
Optional(key) == Has(key) => IsU32(key)
Number(key, default) == IF Has(key) THEN Metadata[key].v ELSE default

IsFloat(key) == Metadata[key].ty \in {"F32", "F64"}
\* Finite and above zero, as LlamaConfig::validate wants it.
Positive(key) == IsFloat(key) /\ Metadata[key].v = "positive"

\* optional_bool, and the reject functions.
BoolIs(key, b) == Has(key) => Metadata[key].ty = "Bool" /\ Metadata[key].v = b
Zero(key) == Has(key) => IsFloat(key) /\ Metadata[key].v = "zero"

ArchKey == <<"general", "architecture">>
TokensKey == <<"tokenizer", "tokens">>
Arch == Metadata[ArchKey].v
K(suffix) == <<Arch, suffix>>

\* LlamaConfig::from_gguf, with validate.
HeadCount == Number(K("head_count"), 0)
HeadCountKv == Number(K("head_count_kv"), HeadCount)
D == Number(K("embedding_length"), 0)
DFf == Number(K("feed_forward_length"), 0)
HeadDim == D \div HeadCount
RopeDim == Number(K("rope.dimension_count"), HeadDim)

\* Mutated form: the number of key heads need not divide the number of heads.
HeadsFitAny == HeadCount # 0 /\ D % HeadCount = 0 /\ HeadCountKv # 0
HeadsFit == HeadCount # 0 /\ D % HeadCount = 0 /\ HeadCountKv # 0 /\ HeadCount % HeadCountKv = 0

ConfigOk ==
  /\ Has(ArchKey) /\ Metadata[ArchKey].ty = "String" /\ Arch \in {"llama", "qwen2"}
  /\ \A s \in {"head_count", "embedding_length", "block_count", "feed_forward_length", "context_length"} :
       Required(K(s)) /\ Number(K(s), 0) # 0
  /\ \A s \in {"head_count_kv", "embedding_length_out", "sliding_window", "key_length", "value_length",
               "rope.dimension_count"} : Optional(K(s))
  /\ HeadsFit
  /\ Number(K("embedding_length_out"), D) = D
  /\ BoolIs(K("attention.causal"), TRUE) /\ BoolIs(K("use_parallel_residual"), FALSE)
  /\ Has(K("rope.scaling.type")) => Metadata[K("rope.scaling.type")].ty = "String" /\ Metadata[K("rope.scaling.type")].v = "none"
  /\ Number(K("sliding_window"), 0) = 0
  /\ \A s \in {"max_alibi_bias", "clamp_kqv", "value_scale", "attn_logit_softcapping",
               "final_logit_softcapping", "logit_scale", "embedding_scale", "residual_scale"} : Zero(K(s))
  /\ Number(K("key_length"), HeadDim) = HeadDim /\ Number(K("value_length"), HeadDim) = HeadDim
  /\ Has(K("rms_epsilon")) /\ Positive(K("rms_epsilon"))
  /\ \A s \in {"attention.scale", "rope.freq_base"} : Has(K(s)) => Positive(K(s))
  /\ RopeDim # 0 /\ RopeDim % 2 = 0 /\ RopeDim <= HeadDim

-----------------------------------------------------------------------------
(***************************************************************************)
(* Tensors.                                                                *)
(***************************************************************************)
Named(name) == { gguf.tensors[i] : i \in { j \in DOMAIN gguf.tensors : gguf.tensors[j].name = name } }
Present(name) == Named(name) # {}
Tensor(name) == CHOOSE t \in Named(name) : TRUE

HasTokens == Has(TokensKey) /\ Metadata[TokensKey].ty = "ArrayString"
TokenLen == Metadata[TokensKey].v
VocabKeys == << K("vocab_size"), <<"llama", "vocab_size">> >>

EmbeddingRows ==
  IF Present(<<0, "token_embd">>) /\ Len(Tensor(<<0, "token_embd">>).dimensions) = 2
  THEN {Tensor(<<0, "token_embd">>).dimensions[2]} ELSE {}

\* A vocabulary size is a set of one number, or empty for an error.
FromKeys(otherwise) ==
  IF Has(VocabKeys[1]) THEN IF IsU32(VocabKeys[1]) THEN {Metadata[VocabKeys[1]].v} ELSE {}
  ELSE IF Has(VocabKeys[2]) THEN IF IsU32(VocabKeys[2]) THEN {Metadata[VocabKeys[2]].v} ELSE {}
  ELSE otherwise

\* Mutated form: the tokens are asked before the vocab_size keys.
InfoVocabTokensFirst == IF HasTokens THEN {TokenLen} ELSE FromKeys(EmbeddingRows)

\* vocab_size of det-model, gguf_model_vocab_len of xtask, the one of det-cli.
ModelVocab ==
  FromKeys(IF Has(TokensKey) THEN IF HasTokens THEN {TokenLen} ELSE {} ELSE EmbeddingRows)
InfoVocab == FromKeys(IF HasTokens THEN {TokenLen} ELSE EmbeddingRows)
TokenizeVocab ==
  IF Present(<<0, "output">>)
  THEN IF Len(Tensor(<<0, "output">>).dimensions) = 2 THEN {Tensor(<<0, "output">>).dimensions[2]} ELSE {}
  ELSE EmbeddingRows

\* What the layers are made of, [name, dimensions], for a vocabulary size.
Vectors == { << <<l, "attn_norm">>, <<D>> >> : l \in 1 .. Number(K("block_count"), 0) }
           \cup { << <<l, "ffn_norm">>, <<D>> >> : l \in 1 .. Number(K("block_count"), 0) }
           \cup { << <<0, "output_norm">>, <<D>> >> }
Biases == UNION { { << <<l, "attn_q_bias">>, <<HeadCount * HeadDim>> >>,
                    << <<l, "attn_k_bias">>, <<HeadCountKv * HeadDim>> >>,
                    << <<l, "attn_v_bias">>, <<HeadCountKv * HeadDim>> >> } : l \in 1 .. Number(K("block_count"), 0) }
LayerMatrices(l) ==
  { << <<l, "attn_q">>, <<D, HeadCount * HeadDim>> >>, << <<l, "attn_k">>, <<D, HeadCountKv * HeadDim>> >>,
    << <<l, "attn_v">>, <<D, HeadCountKv * HeadDim>> >>, << <<l, "attn_output">>, <<HeadCount * HeadDim, D>> >>,
    << <<l, "ffn_gate">>, <<D, DFf>> >>, << <<l, "ffn_up">>, <<D, DFf>> >>, << <<l, "ffn_down">>, <<DFf, D>> >> }
WeightMatrices(vocab) ==
  { << <<0, "token_embd">>, <<D, vocab>> >> }
  \cup (IF Present(<<0, "output">>) THEN { << <<0, "output">>, <<D, vocab>> >> } ELSE {})
  \cup UNION { LayerMatrices(l) : l \in 1 .. Number(K("block_count"), 0) }

Dense == {"F32", "F16"}
Supported == Dense \cup {"Q8_0", "Q4_0", "Q4K", "Q6K"}
Fits(part, types) ==
  /\ Present(part[1]) /\ Tensor(part[1]).dimensions = part[2] /\ Tensor(part[1]).ty \in types

\* The read functions: a row of a quantised matrix is a whole number of blocks.
Readable(part, types) ==
  /\ Fits(part, types)
  /\ part[2][1] % Blocks[Tensor(part[1]).ty] = 0
  /\ Tensor(part[1]).finite

\* F32Llama::from_gguf.
Loads ==
  /\ ConfigOk /\ ModelVocab # {}
  /\ \A part \in WeightMatrices(CHOOSE n \in ModelVocab : TRUE) : Readable(part, Supported)
  /\ \A part \in Vectors : Readable(part, Dense)
  /\ \A part \in Biases : Present(part[1]) => Readable(part, Dense)

\* write_vocab_summary and required_tensor_summary; biases are not looked at.
InfoOk ==
  /\ ConfigOk /\ HasTokens /\ InfoVocab = {TokenLen} /\ TokenLen + Escapes <= MaxSymbols
  /\ \A part \in WeightMatrices(TokenLen) : Fits(part, Supported)
  /\ \A part \in Vectors : Fits(part, Dense)

NoModel == [vocab |-> 0, config |-> <<>>]

-----------------------------------------------------------------------------
LoadInit ==
  /\ gguf \in Ggufs
  /\ info = FALSE /\ model = NoModel /\ tokenize = FALSE /\ reading = "info"

ModelInfo == reading = "info" /\ info' = InfoOk /\ reading' = "load" /\ UNCHANGED <<gguf, model, tokenize>>

\* LoadedModel::load, when the tokenizer can be built: the matrices that it
\* compares with the tokens have ModelVocab rows.
LoadModel ==
  /\ reading = "load" /\ reading' = "tokenize"
  /\ model' = IF /\ HasTokens /\ Loads /\ ModelVocab = {TokenLen}
                 /\ TokenLen + Escapes <= MaxSymbols
              THEN [vocab |-> TokenLen,
                    config |-> << D, DFf, HeadCount, HeadCountKv, RopeDim >>]
              ELSE NoModel
  /\ UNCHANGED <<gguf, info, tokenize>>

Tokenize ==
  /\ reading = "tokenize" /\ reading' = "done"
  /\ tokenize' = (HasTokens /\ TokenizeVocab = {TokenLen})
  /\ UNCHANGED <<gguf, info, model>>

LoadNext == ModelInfo \/ LoadModel \/ Tokenize
LoadSpec == LoadInit /\ [][LoadNext]_loadVars

-----------------------------------------------------------------------------
\* What a check of the loaded model may refuse that model-info did not look at.
Unseen ==
  \/ \E i \in DOMAIN gguf.tensors : ~gguf.tensors[i].finite
  \/ \E i \in DOMAIN gguf.tensors :
       gguf.tensors[i].dimensions[1] % Blocks[gguf.tensors[i].ty] # 0
  \/ \E part \in Biases : Present(part[1]) /\ ~Fits(part, Dense)

\* The three readings of a file agree: a model that loads is one that
\* model-info and tokenize let through, with the same vocabulary; a file that
\* model-info finds complete loads, unless something is wrong with it that
\* model-info does not look at.
ReadingsAgree ==
  reading = "done" =>
    /\ model # NoModel => info /\ tokenize /\ ModelVocab = {model.vocab} /\ InfoVocab = {model.vocab}
    /\ info /\ model = NoModel => Unseen

\* The shapes of a loaded model are those that the forward pass divides and
\* slices by: heads fill the embedding, every head has a key head, and the
\* rotated pairs lie within a head.
ShapesAreUsable ==
  model # NoModel =>
    LET d == model.config[1]  heads == model.config[3]  kv == model.config[4]  rope == model.config[5]
    IN  /\ heads * (d \div heads) = d /\ kv \in 1 .. heads
        /\ { h \div (heads \div kv) : h \in 0 .. heads - 1 } = 0 .. kv - 1
        /\ rope \in 2 .. d \div heads /\ 2 * (rope \div 2) = rope
=============================================================================
