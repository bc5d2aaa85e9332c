----------------------------- MODULE GgufReader -----------------------------
(***************************************************************************)
(* det-gguf/src/lib.rs: parse and parse_metadata_prefix over a file that   *)
(* xtask's encode_gguf wrote, or another program, and that storage may     *)
(* have cut or changed.                                                    *)
(*                                                                         *)
(* A file is a sequence of cells, which are numbers below Base.  What has  *)
(* up to 32 bits is one cell, what has 64 bits is two, the lower one       *)
(* first, so that a field read at the wrong place or with the wrong width  *)
(* shifts all that follow.  A string is its length and its cells.  A       *)
(* metadata value is its type and the cells it was read from.              *)
(***************************************************************************)
EXTENDS Integers, Sequences, SequencesExt

CONSTANTS
  Base,        \* cells are 0 .. Base - 1
  Magic,       \* the cell of "GGUF"
  BadChar,     \* a cell that is not UTF-8
  Align,       \* alignment of the data, 32 in the code
  Types,       \* GgmlType: a function from raw type to [block, size]
  Written        \* records [metadata, tensors, data]: what was written

ASSUME GgufAssumption ==
  /\ Base \in Nat /\ Base > 12 /\ Align \in Nat \ {0}
  /\ \A ty \in DOMAIN Types : Types[ty] \in [block : Nat \ {0}, size : Nat \ {0}]

VARIABLES
  written,     \* the file as it was written
  content,     \* its cells as they are read
  validate,    \* validate_tensor_data: parse, or parse_metadata_prefix
  pos,         \* of the Reader
  counts,      \* tensor_count and metadata_count
  metadata,    \* sequence of [key, value]: the map, in the order of insertion
  tensors,
  data_offset,
  stage           \* "header", "metadata", "count", "tensors", "layout", "ok" or an error

readerVars == <<written, content, validate, pos, counts, metadata, tensors, data_offset, stage>>
given == <<written, content, validate>>

MaxU64 == Base * Base - 1

-----------------------------------------------------------------------------
(***************************************************************************)
(* encode_gguf.                                                            *)
(***************************************************************************)
U64Cells(n) == <<n % Base, n \div Base>>
StringCells(s) == U64Cells(Len(s)) \o s
TensorCells(t) ==
  StringCells(t.name) \o << Len(t.dimensions) >> \o FlattenSeq([i \in DOMAIN t.dimensions |-> U64Cells(t.dimensions[i])])
    \o << t.ty >> \o U64Cells(t.offset)
Header(w) ==
  << Magic, 3 >> \o U64Cells(Len(w.tensors)) \o U64Cells(Len(w.metadata))
    \o FlattenSeq([i \in DOMAIN w.metadata |->
         StringCells(w.metadata[i].key) \o w.metadata[i].value])
    \o FlattenSeq([i \in DOMAIN w.tensors |-> TensorCells(w.tensors[i])])
AlignUp(n) == ((n + Align - 1) \div Align) * Align
Encoded(w) ==
  LET header == Header(w)
  IN  header \o [i \in 1 .. AlignUp(Len(header)) - Len(header) |-> 0] \o w.data

ASSUME WrittenAssumption == \A w \in Written : Encoded(w) \in Seq(0 .. Base - 1)

\* Whatever storage gives back: the file, a part of it, or one cell changed.
Stored(cells) ==
  {cells} \cup { SubSeq(cells, 1, n) : n \in 0 .. Len(cells) }
          \cup { [cells EXCEPT ![i] = c] : i \in DOMAIN cells, c \in 0 .. Base - 1 }

ReaderInit ==
  /\ written \in Written
  /\ content \in Stored(Encoded(written))
  /\ validate \in BOOLEAN
  /\ pos = 0 /\ counts = <<0, 0>> /\ metadata = <<>> /\ tensors = <<>> /\ data_offset = 0
  /\ stage = "header"

-----------------------------------------------------------------------------
(***************************************************************************)
(* The Reader.  An operator ...End gives the position after an item that   *)
(* begins at p, or one of the errors, which are negative; an item that     *)
(* begins at an error ends at that error.                                  *)
(***************************************************************************)
Truncated == -1
UnsupportedValueType == -2
InvalidBool == -3
InvalidUtf8 == -4

ErrorName(e) ==
  CASE e = Truncated -> "Truncated" [] e = UnsupportedValueType -> "UnsupportedValueType"
    [] e = InvalidBool -> "InvalidBool" [] e = InvalidUtf8 -> "InvalidUtf8"

Available(p, n) == p + n <= Len(content)
Past(p, n) == IF p < 0 THEN p ELSE IF Available(p, n) THEN p + n ELSE Truncated
U32(p) == content[p + 1]
U64(p) == content[p + 1] + Base * content[p + 2]
Cells(p, end) == SubSeq(content, p + 1, end)

StringEnd(p) ==
  LET start == Past(p, 2)
      end   == IF start < 0 THEN start ELSE Past(start, U64(p))
  IN  IF end >= 0 /\ \E i \in start + 1 .. end : content[i] = BadChar THEN InvalidUtf8 ELSE end

BoolEnd(p) == LET end == Past(p, 1) IN IF end >= 0 /\ U32(p) \notin {0, 1} THEN InvalidBool ELSE end

StringTy == 8   ArrayTy == 9   BoolTy == 7
Width(ty) == IF ty >= 10 THEN 2 ELSE 1

ItemEnd(ty, p) ==
  CASE ty = StringTy -> StringEnd(p) [] ty = BoolTy -> BoolEnd(p) [] OTHER -> Past(p, Width(ty))

\* ensure_count: so many items of at least this width may follow.
EnsureCount(p, n, width) == IF p < 0 THEN p ELSE IF Available(p, n * width) THEN p ELSE Truncated

\* The ends of so many items, one after the other.
ItemEnds(ty, start, n) ==
  LET end[i \in 0 .. n] == IF i = 0 THEN start ELSE ItemEnd(ty, end[i - 1]) IN end

ArrayEnd(p) ==
  LET body == Past(Past(p, 1), 2)
      ty   == U32(p)
      n    == U64(p + 1)
  IN  IF body < 0 THEN body
      ELSE IF ty = ArrayTy \/ ty > 12 THEN UnsupportedValueType
      ELSE IF EnsureCount(body, n, IF ty = StringTy THEN 2 ELSE Width(ty)) < 0 THEN Truncated
      ELSE ItemEnds(ty, body, n)[n]

\* read_value.
ValueEnd(p) ==
  LET body == Past(p, 1)
  IN  IF body < 0 THEN body
      ELSE IF U32(p) = ArrayTy THEN ArrayEnd(body)
      ELSE IF U32(p) > 12 THEN UnsupportedValueType
      ELSE ItemEnd(U32(p), body)

Fail(error) == stage' = error /\ UNCHANGED <<pos, counts, metadata, tensors, data_offset>>

ReadHeader ==
  /\ stage = "header" /\ UNCHANGED given
  /\ CASE ~Available(0, 1) -> Fail("Truncated")
       [] Available(0, 1) /\ U32(0) # Magic -> Fail("BadMagic")
       [] OTHER -> IF ~Available(1, 1) THEN Fail("Truncated")
                   ELSE IF U32(1) \notin {2, 3} THEN Fail("UnsupportedVersion")
                   ELSE IF ~Available(2, 4) THEN Fail("Truncated")
                   ELSE /\ pos' = 6 /\ counts' = <<U64(2), U64(4)>> /\ stage' = "metadata"
                        /\ UNCHANGED <<metadata, tensors, data_offset>>

ReadMetadata ==
  /\ stage = "metadata" /\ Len(metadata) < counts[2] /\ UNCHANGED given
  /\ LET value == StringEnd(pos)
         end   == ValueEnd(value)
         key   == Cells(pos + 2, value)
     IN  IF end < 0 THEN Fail(ErrorName(end))
         ELSE IF \E i \in DOMAIN metadata : metadata[i].key = key THEN Fail("DuplicateMetadataKey")
         ELSE /\ metadata' = Append(metadata, [key |-> key, value |-> Cells(value, end)])
              /\ pos' = end /\ UNCHANGED <<counts, tensors, data_offset, stage>>

\* A tensor takes at least a name length, ndim, a type and an offset.
CountTensors ==
  /\ stage = "metadata" /\ Len(metadata) = counts[2] /\ UNCHANGED given
  /\ IF EnsureCount(pos, counts[1], 6) < 0 THEN Fail("Truncated")
     ELSE stage' = "tensors" /\ UNCHANGED <<pos, counts, metadata, tensors, data_offset>>

ReadTensor ==
  /\ stage = "tensors" /\ Len(tensors) < counts[1] /\ UNCHANGED given
  /\ LET ndim == StringEnd(pos)
         dims == Past(ndim, 1)
         ty   == IF dims < 0 THEN dims ELSE Past(dims, 2 * U32(ndim))
         end  == Past(Past(ty, 1), 2)
         name == Cells(pos + 2, ndim)
     IN  IF end < 0 THEN Fail(ErrorName(end))
         ELSE IF \E i \in DOMAIN tensors : tensors[i].name = name THEN Fail("DuplicateTensorName")
         ELSE /\ tensors' = Append(tensors,
                   [name |-> name, ty |-> U32(ty), offset |-> U64(ty + 1),
                    dimensions |-> [i \in 1 .. U32(ndim) |-> U64(dims + 2 * (i - 1))]])
              /\ pos' = end /\ UNCHANGED <<counts, metadata, data_offset, stage>>

-----------------------------------------------------------------------------
(***************************************************************************)
(* validate_tensor_data_layout.                                            *)
(***************************************************************************)
\* The product of dimensions, Above when it is no u64.
Above == MaxU64 + 1
Products(dimensions) ==
  LET product[n \in 0 .. Len(dimensions)] ==
        IF n = 0 THEN 1
        ELSE IF product[n - 1] > MaxU64 \/ product[n - 1] * dimensions[n] > MaxU64 THEN Above
        ELSE product[n - 1] * dimensions[n]
  IN  product
Elements(dimensions) == Products(dimensions)[Len(dimensions)]

ShapeError(t) ==
  IF t.dimensions = <<>> \/ 0 \in {t.dimensions[i] : i \in DOMAIN t.dimensions}
     \/ Elements(t.dimensions) > MaxU64
  THEN "InvalidTensorShape"
  ELSE IF t.ty \notin DOMAIN Types THEN "UnsupportedTensorType"
  ELSE IF Elements(t.dimensions) % Types[t.ty].block # 0
          \/ (Elements(t.dimensions) \div Types[t.ty].block) * Types[t.ty].size > MaxU64
  THEN "InvalidTensorShape" ELSE "ok"

EncodedLen(t) == (Elements(t.dimensions) \div Types[t.ty].block) * Types[t.ty].size

\* The range of a tensor, [start, end), in a file that ends at limit.
RangeStart(t, base) == base + t.offset
RangeEnd(t, base) == base + t.offset + EncodedLen(t)
RangeError(t, base, limit) ==
  IF ShapeError(t) # "ok" THEN ShapeError(t)
  ELSE IF RangeEnd(t, base) > MaxU64 THEN "InvalidTensorOffset"
  ELSE IF RangeEnd(t, base) > limit THEN "Truncated" ELSE "ok"

\* Mutated forms: neighbours as they come in the file; only ranges that begin
\* at the same place.
OverlapEqual(base) ==
  \E i, j \in DOMAIN tensors : i < j /\ tensors[i].offset = tensors[j].offset
OverlapUnsorted(base) ==
  \E i \in 1 .. Len(tensors) - 1 : RangeEnd(tensors[i], base) > RangeStart(tensors[i + 1], base)

\* sort_by_key of the starts, which is stable, and windows(2) of the outcome.
Before(i, j) ==
  \/ tensors[i].offset < tensors[j].offset
  \/ tensors[i].offset = tensors[j].offset /\ i < j
Neighbours(i, j) ==
  Before(i, j) /\ \A k \in DOMAIN tensors : ~(Before(i, k) /\ Before(k, j))

\* Some range runs over the start of the next one in the order of the starts.
Overlap(base) ==
  \E i, j \in DOMAIN tensors : Neighbours(i, j) /\ RangeEnd(tensors[i], base) > RangeStart(tensors[j], base)

\* The first tensor with an error decides, then the overlap.
LayoutError(base) ==
  LET bad == { i \in DOMAIN tensors : RangeError(tensors[i], base, Len(content)) # "ok" }
  IN  IF base > Len(content) THEN "Truncated"
      ELSE IF bad # {} THEN RangeError(tensors[CHOOSE i \in bad : \A j \in bad : i <= j], base, Len(content))
      ELSE IF Overlap(base) THEN "InvalidTensorOffset" ELSE "ok"

CheckLayout ==
  /\ stage = "tensors" /\ Len(tensors) = counts[1] /\ UNCHANGED given
  /\ data_offset' = AlignUp(pos)
  /\ stage' = IF validate THEN LayoutError(AlignUp(pos)) ELSE "ok"
  /\ UNCHANGED <<pos, counts, metadata, tensors>>

ReaderNext == ReadHeader \/ ReadMetadata \/ CountTensors \/ ReadTensor \/ CheckLayout

ReaderSpec == ReaderInit /\ [][ReaderNext]_readerVars

-----------------------------------------------------------------------------
\* Gguf::tensor_data: the cells of a tensor, <<>> where the code gives an error.
FileLen == IF validate THEN Len(content) ELSE data_offset
TensorData(t) ==
  IF RangeError(t, data_offset, FileLen) # "ok" THEN <<>>
  ELSE Cells(RangeStart(t, data_offset), RangeEnd(t, data_offset))

Apart(ts) ==
  \A i, j \in DOMAIN ts : i # j =>
    RangeEnd(ts[i], 0) <= RangeStart(ts[j], 0) \/ RangeEnd(ts[j], 0) <= RangeStart(ts[i], 0)

\* A file that parse lets through gives every tensor its data, and no two
\* tensors share a cell of it, whatever the file is: that neighbours do not
\* overlap is enough.
DataIsApart ==
  stage = "ok" /\ validate =>
    /\ \A i \in DOMAIN tensors : Len(TensorData(tensors[i])) = EncodedLen(tensors[i])
    /\ Apart(tensors)

Intact == content = Encoded(written)
Cut == Len(content) < Len(Encoded(written))

\* What the writer wrote is what is read; a file that lost some of the last
\* tensor's data, or more, is refused by parse; parse_metadata_prefix, for
\* which a beginning of a file is enough, reads the same from any beginning
\* that it accepts, and gives no tensor data.
ReadAsWritten ==
  /\ stage = "ok" /\ Intact => metadata = written.metadata /\ tensors = written.tensors
  /\ stage \notin {"header", "metadata", "tensors", "ok"} /\ Intact => validate /\ ~Apart(written.tensors)
  /\ stage = "ok" /\ Cut => ~validate /\ metadata = written.metadata /\ tensors = written.tensors
  /\ stage = "ok" /\ ~validate => \A i \in DOMAIN tensors : TensorData(tensors[i]) = <<>>
=============================================================================
