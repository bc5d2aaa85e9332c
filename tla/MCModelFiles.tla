---------------------------- MODULE MCModelFiles ----------------------------
(***************************************************************************)
(* What is read of a model file, each part on its own: the digest of its   *)
(* bytes, the GGUF parsers, the loading of the model, its vocabulary, and  *)
(* the merges of an input by the merge table of a vocabulary.  Only the    *)
(* variables of the part that runs have a meaning.                         *)
(***************************************************************************)
EXTENDS Sha256Stream, GgufReader, ModelLoad, Vocabulary, BpeMerge, TLC

VARIABLE part

-----------------------------------------------------------------------------
\* SHA-256: blocks of 8 with 2 bytes of length; calls that stop short of a
\* block, fill one, and run over one and two of them.  Two digits, in base 16.
MCLengthOf == [n \in 0 .. 255 |-> << n \div 16, n % 16 >>]

MCUpdates == { [i \in 1 .. n |-> (n + i) % 16] : n \in {0, 1, 2, 5, 7, 8, 9, 17} }

-----------------------------------------------------------------------------
\* GGUF: files of the writer, with one metadata value of each kind and tensors
\* of two types one after the other, and files of other programs: tensors out
\* of order, with a gap, overlapping, and of other shapes.
MCTypes == (0 :> [block |-> 1, size |-> 1]) @@ (2 :> [block |-> 2, size |-> 1]) @@ (8 :> [block |-> 2, size |-> 3])

entry(key, value) == [key |-> key, value |-> value]
written_tensor(name, dimensions, ty, offset) ==
  [name |-> name, dimensions |-> dimensions, ty |-> ty, offset |-> offset]
of(meta, length, ts) ==
  [metadata |-> meta, tensors |-> ts, data |-> [i \in 1 .. length |-> i]]

\* A string, a u32, an array of two strings and one of a bool.
Strings == << entry(<<1>>, <<8, 1, 0, 2>>), entry(<<2>>, <<4, 5>>),
              entry(<<3>>, <<9, 8, 2, 0, 1, 0, 4, 0, 0>>) >>
Numbers == << entry(<<1>>, <<10, 3, 0>>), entry(<<>>, <<9, 7, 1, 0, 1>>), entry(<<2>>, <<7, 0>>) >>

MCWritten ==
  { of(Strings, 4, << written_tensor(<<1>>, <<2, 2>>, 0, 0) >>),
    of(Numbers, 5, << written_tensor(<<1>>, <<2>>, 0, 0), written_tensor(<<2>>, <<2, 1>>, 8, 2) >>),
    of(<<>>, 6, << written_tensor(<<2>>, <<2>>, 0, 4), written_tensor(<<1>>, <<3>>, 0, 0), written_tensor(<<3>>, <<2>>, 2, 3) >>),
    of(<<>>, 6, << written_tensor(<<1>>, <<5>>, 0, 0), written_tensor(<<2>>, <<1>>, 0, 5), written_tensor(<<3>>, <<2>>, 0, 2) >>) }

-----------------------------------------------------------------------------
\* Loading: a file that loads, of each architecture, and every file that
\* differs from it in one or two entries: metadata missing, of another type or
\* value, tensors missing, of another shape or type, or not finite.
MCBlocks == [ty \in {"F32", "F16"} |-> 1] @@ ("Q8_0" :> 2) @@ ("Q4K" :> 4) @@ ("Q2K" :> 4)

u32(n) == [ty |-> "U32", v |-> n]
float(c) == [ty |-> "F32", v |-> c]

Meta(arch) ==
  (<<"general", "architecture">> :> [ty |-> "String", v |-> arch])
  @@ (<<"tokenizer", "tokens">> :> [ty |-> "ArrayString", v |-> 3])
  @@ (<<arch, "head_count">> :> u32(2)) @@ (<<arch, "embedding_length">> :> u32(4))
  @@ (<<arch, "block_count">> :> u32(1)) @@ (<<arch, "feed_forward_length">> :> u32(2))
  @@ (<<arch, "context_length">> :> u32(4)) @@ (<<arch, "rms_epsilon">> :> float("positive"))

\* Changes of the metadata: a key and a value, or none for a missing one.
Missing == [ty |-> "Missing", v |-> 0]
Sizes(arch) ==
  { << <<arch, s>>, u32(n) >> : s \in {"head_count", "head_count_kv", "embedding_length", "vocab_size",
       "rope.dimension_count", "key_length", "sliding_window", "embedding_length_out"}, n \in 0 .. 4 }
Changes(arch) ==
  Sizes(arch)
  \cup { << <<arch, s>>, Missing >> : s \in {"head_count", "context_length", "rms_epsilon"} }
  \cup { << <<arch, s>>, [ty |-> "U64", v |-> n] >> : s \in {"feed_forward_length", "vocab_size"}, n \in {2, 3, 9} }
  \cup { << <<arch, s>>, float(c) >> : s \in {"rms_epsilon", "attention.scale", "logit_scale"},
                                       c \in {"zero", "positive", "negative", "nan"} }
  \cup { << <<arch, "attention.causal">>, [ty |-> "Bool", v |-> b] >> : b \in BOOLEAN }
  \cup { << <<arch, "rope.scaling.type">>, [ty |-> "String", v |-> s] >> : s \in {"none", "yarn"} }
  \cup { << <<"llama", "vocab_size">>, u32(n) >> : n \in {3, 4} }
  \cup { << <<"tokenizer", "tokens">>, v >> : v \in { Missing, u32(3), [ty |-> "ArrayString", v |-> 4],
                                                      [ty |-> "ArrayString", v |-> 6] } }
  \cup { << <<"general", "architecture">>, [ty |-> "String", v |-> "gpt"] >> }

Changed(meta, change) ==
  [k \in ((DOMAIN meta \cup {change[1]}) \ (IF change[2].ty = "Missing" THEN {change[1]} ELSE {})) |->
     IF k = change[1] THEN change[2] ELSE meta[k]]

tensor(name, dimensions, ty) == [name |-> name, dimensions |-> dimensions, ty |-> ty, finite |-> TRUE]
Tensors(vocab, kv) ==
  << tensor(<<0, "token_embd">>, <<4, vocab>>, "Q8_0"), tensor(<<0, "output_norm">>, <<4>>, "F32"),
     tensor(<<1, "attn_norm">>, <<4>>, "F16"), tensor(<<1, "ffn_norm">>, <<4>>, "F32"),
     tensor(<<1, "attn_q">>, <<4, 4>>, "Q4K"), tensor(<<1, "attn_k">>, <<4, kv>>, "F32"),
     tensor(<<1, "attn_v">>, <<4, kv>>, "F16"), tensor(<<1, "attn_output">>, <<4, 4>>, "F32"),
     tensor(<<1, "ffn_gate">>, <<4, 2>>, "F32"), tensor(<<1, "ffn_up">>, <<4, 2>>, "Q8_0"),
     tensor(<<1, "ffn_down">>, <<2, 4>>, "F32") >>

\* Changes of the tensors.
Variants(ts) ==
  {ts}
  \cup { RemoveAt(ts, i) : i \in DOMAIN ts }
  \cup { [ts EXCEPT ![i].finite = FALSE] : i \in DOMAIN ts }
  \cup { [ts EXCEPT ![i].ty = ty] : i \in DOMAIN ts, ty \in {"F32", "Q2K", "Q4K"} }
  \cup { [ts EXCEPT ![i].dimensions = d] : i \in DOMAIN ts, d \in { <<4>>, <<4, 3>>, <<3, 4>> } }
  \cup { Append(ts, t) : t \in { tensor(<<0, "output">>, <<4, 3>>, "F32"), tensor(<<0, "output">>, <<4, 4>>, "F32"),
                                 tensor(<<0, "output">>, <<4>>, "F32"),
                                 tensor(<<1, "attn_q_bias">>, <<4>>, "F32"),
                                 tensor(<<1, "attn_k_bias">>, <<3>>, "F32"),
                                 tensor(<<1, "attn_v_bias">>, <<4>>, "Q8_0") } }

Parsed(ts) ==
  \A i \in DOMAIN ts : FoldLeft(LAMBDA n, d : n * d, 1, ts[i].dimensions) % Blocks[ts[i].ty] = 0

MCGgufs ==
  LET good(arch) == { [metadata |-> Meta(arch), tensors |-> ts] :
                        ts \in { us \in Variants(Tensors(3, 4)) : Parsed(us) } }
      changed(arch) == { [metadata |-> Changed(Meta(arch), c), tensors |-> ts] :
                        c \in Changes(arch), ts \in { Tensors(3, 4), Tensors(3, 2), Tensors(3, 6), Tensors(4, 4) } }
      both(arch) == { [metadata |-> Changed(Changed(Meta(arch), c), e), tensors |-> ts] :
                        c \in Sizes(arch), e \in Changes(arch), ts \in { Tensors(3, 4), Tensors(3, 3) } }
  IN  UNION { good(arch) \cup changed(arch) \cup both(arch) : arch \in {"llama", "qwen2"} }

-----------------------------------------------------------------------------
\* Vocabularies over five bytes: the space, "a", the two of a UTF-8 e acute and
\* the one that GPT-2 writes with that character.  The canonical tokens, all of
\* them or with one missing or doubled, and up to two more, some of which spell
\* the same bytes in another way; masks, merges, scores.
MCBytes == {32, 97, 195, 169, 233}
byte(b) == [canonical |-> TRUE, text |-> <<b>>]
text(t) == [canonical |-> FALSE, text |-> t]

AllBytes == <<byte(32), byte(97), byte(195), byte(169), byte(233)>>
ByteTokenLists == { AllBytes, Tail(AllBytes), Append(AllBytes, byte(97)) }
\* a, aa, the space marker, the same before a, GPT-2's space before a, e acute
\* alone, and after the space marker, where it is two bytes; the empty token.
Extra == { text(<<97>>), text(<<97, 97>>), text(<<9601>>), text(<<9601, 97>>), text(<<288, 97>>),
           text(<<233>>), text(<<9601, 233>>), text(<<>>) }
Doubles == { text(<<97>>), text(<<97, 97>>), text(<<288, 97>>), text(<<9601, 97>>) }
TokenLists ==
  { b \o x : b \in ByteTokenLists, x \in { <<>> } \cup { <<e>> : e \in Extra } \cup { <<e, f>> : e \in Extra, f \in Doubles } }

\* Everything emitted, or all but one, or all but that and the last.
TypeMasks(n) ==
  { None, [t \in 1 .. n |-> 1], [t \in 1 .. n - 1 |-> 1], [t \in 1 .. n |-> 7] }
  \cup { [t \in 1 .. n |-> IF t \in s THEN 3 ELSE 6] : s \in { {2}, {4}, {n}, {2, n} } }

Lines == { <<byte(97), byte(97)>>, <<byte(97), text(<<97>>)>>, <<byte(32), byte(97)>>, <<text(<<9601>>), byte(97)>>,
           <<text(<<97, 97>>), byte(97)>>, <<byte(97), text(<<97, 97>>)>>,
           <<text(<<9601>>), text(<<233>>)>> }
BadLines == { <<byte(97)>>, <<byte(97), text(<<>>), byte(97)>>, <<byte(97), text(<<>>)>> }
MergeLists ==
  { None, <<>> } \cup { <<l>> : l \in Lines \cup BadLines }
  \cup { <<k, l>> : k, l \in Lines }

ScoreLists(n) ==
  { [t \in 1 .. n |-> 0], [t \in 1 .. n |-> t], [t \in 1 .. n - 1 |-> 0],
    [t \in 1 .. n |-> IF t = 1 THEN NonFinite ELSE 0] }

vocabulary_file(v, t, m, a, s) == [tokens |-> v, types |-> t, merges |-> m, model |-> a, scores |-> s]
MCFiles ==
  UNION { { vocabulary_file(v, t, m, "gpt2", None) : t \in TypeMasks(Len(v)), m \in MergeLists }
          : v \in { AllBytes \o x : x \in { <<e>> : e \in Extra } \cup { <<text(<<97, 97>>), text(<<9601, 97>>)>>,
                                        <<text(<<9601>>), text(<<9601, 233>>)>>, <<text(<<97, 97>>), text(<<97, 97>>)>> } } }
  \cup UNION { { vocabulary_file(v, t, None, a, s) : t \in TypeMasks(Len(v)), a \in {None, "llama", "other"},
                                           s \in ScoreLists(Len(v)) \cup {None} }
               : v \in { u \in TokenLists : Len(u) < 7 } }
  \cup { vocabulary_file(v, None, m, a, s) : v \in TokenLists, m \in { None, <<>>, <<CHOOSE l \in Lines : TRUE>> },
                                   a \in { None, "llama" }, s \in { None, [t \in 1 .. 6 |-> 0] } }

MCInputs ==
  { <<>>, <<97>>, <<97, 97, 97, 97, 97>>, <<32, 97, 97>>, <<97, 32, 97, 32, 97, 97>>, <<32, 195, 169, 97>>,
    <<233, 195, 169>>, <<32, 233, 97>>, <<195, 97, 97, 169, 32>> }

-----------------------------------------------------------------------------
\* Merging: tokens are named by their bytes, of which there are two.
MCByteTokens == { <<1>>, <<2>> }
MCIds == UNION { [1 .. n -> 1 .. 2] : n \in 1 .. MaxLen }
MCPieces == [id \in MCIds |-> id]

\* Merges of which each may come before or after those it feeds, with runs of
\* equal bytes in which the pairs overlap.  A table has any three, in any order.
MergeLines ==
  { <<<<1>>, <<1>>>>, <<<<1>>, <<2>>>>, <<<<2>>, <<1>>>>, <<<<1, 1>>, <<1>>>>,
    <<<<1, 1>>, <<1, 1>>>>, <<<<1>>, <<2, 1>>>>, <<<<1, 2>>, <<1>>>> }

MCMergeTables ==
  { [pair \in {order[k] : k \in 1 .. 3} |->
       [rank |-> CHOOSE k \in 1 .. 3 : order[k] = pair, id |-> pair[1] \o pair[2]]] :
    order \in { o \in [1 .. 3 -> MergeLines] : \A k, l \in 1 .. 3 : o[k] = o[l] => k = l } }

-----------------------------------------------------------------------------
Idle == "idle"
\* Nothing is read, and no model loaded.
NoGguf ==
  /\ written = Idle /\ content = Idle /\ validate = Idle /\ pos = Idle /\ counts = Idle
  /\ metadata = Idle /\ tensors = Idle /\ data_offset = Idle /\ stage = "header"
NoLoad == gguf = Idle /\ info = Idle /\ model = NoModel /\ tokenize = Idle /\ reading = "info"
NoVocab == file = Idle /\ tokenizer = Idle /\ source = Idle /\ symbols = Idle /\ decoded = Idle /\ step = "load"
\* The tokenizer has returned from an empty input.
SomeMerges == CHOOSE table \in MergeTables : TRUE
NoMerges ==
  /\ merge_ranks = SomeMerges /\ input = <<>>
  /\ ids = <<>> /\ prev = <<>> /\ next = <<>> /\ alive = {} /\ heap = {}
  /\ index = 0 /\ out = <<>> /\ pc = "done"

PartsInit ==
  /\ ShaInit
  /\ \/ part = "sha" /\ NoGguf /\ NoLoad /\ NoVocab /\ NoMerges
     \/ part = "gguf" /\ ReaderInit /\ NoLoad /\ NoVocab /\ NoMerges
     \/ part = "load" /\ LoadInit /\ NoGguf /\ NoVocab /\ NoMerges
     \/ part = "vocab" /\ VocabInit /\ NoGguf /\ NoLoad /\ NoMerges
     \/ part = "bpe" /\ Init /\ NoGguf /\ NoLoad /\ NoVocab

PartsNext ==
  /\ UNCHANGED part
  /\ \/ part = "sha" /\ ShaNext /\ UNCHANGED <<readerVars, loadVars, vocabVars, vars>>
     \/ part = "gguf" /\ ReaderNext /\ UNCHANGED <<shaVars, loadVars, vocabVars, vars>>
     \/ part = "load" /\ LoadNext /\ UNCHANGED <<shaVars, readerVars, vocabVars, vars>>
     \/ part = "vocab" /\ VocabNext /\ UNCHANGED <<shaVars, readerVars, loadVars, vars>>
     \/ part = "bpe" /\ Next /\ UNCHANGED <<shaVars, readerVars, loadVars, vocabVars>>

\* A call of the tokenizer goes on to its end: FairSpec of BpeMerge, whose
\* properties hold of its part, and of a call that has returned.
PartsSpec ==
  /\ PartsInit /\ [][PartsNext]_<<shaVars, readerVars, loadVars, vocabVars, vars, part>>
  /\ WF_vars(part = "bpe" /\ Next)
=============================================================================
