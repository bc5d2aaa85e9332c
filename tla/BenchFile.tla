------------------------------ MODULE BenchFile ------------------------------
(***************************************************************************)
(* xtask bench-file from its options to its summary: load, limit the input *)
(* by bytes and then by tokens, encode and write the DTLZ file, decode and *)
(* compare, or with --verify-dtlz check a file written before.  Files may  *)
(* be replaced under it at any time and it may be killed at any time.      *)
(*                                                                         *)
(* A payload is what the range coder was given, as in CheckpointedEncode,  *)
(* which models the checkpoint's own protocol; a digest is what it is the  *)
(* digest of.  Decoding under another model or context gives Garbled.      *)
(***************************************************************************)
EXTENDS Codec, SequencesExt

CONSTANTS
  Models, Inputs,  \* what may be at --model and --input
  Jobs,            \* accepted options: [mode, n_ctx, limit_bytes, limit_tokens, warmup, output, checkpoint, every, iters]
  ContextLength,   \* of every model
  MaxChanges       \* bound: replaced or damaged files, and crashes

BenchAssumption ==
  /\ ContextLength \in Nat /\ MaxChanges \in Nat
  /\ Inputs \subseteq Seq(Bytes)

VARIABLES
  disk,     \* the files, by option
  run,      \* the process
  changes

vars == <<disk, run, changes>>

None == [file |-> "none"]
Off  == [pc |-> "off"]
Garbled == 0
Unlimited == 0   \* a limit option that is not given

Least(a, b) == IF a < b THEN a ELSE b

-----------------------------------------------------------------------------
(***************************************************************************)
(* The codec.                                                              *)
(***************************************************************************)
ValidWindow(n_ctx, overlap) == n_ctx > 0 /\ overlap < n_ctx /\ n_ctx <= ContextLength

Context(symbols, n_ctx, overlap) ==
  LET Window == INSTANCE ContextWindow WITH NCtx <- n_ctx, Overlap <- overlap
  IN  Window!WindowOf(SelectSeq(symbols, IsToken))

Coded(model, symbols, i, n_ctx, overlap) ==
  [model |-> model, symbol |-> symbols[i], context |-> Context(SubSeq(symbols, 1, i - 1), n_ctx, overlap)]

Encoded(model, symbols, n_ctx, overlap) ==
  [i \in DOMAIN symbols |-> Coded(model, symbols, i, n_ctx, overlap)]

\* The symbol a decoder gets that has decoded these.
NextDecoded(model, payload, symbols, n_ctx, overlap) ==
  LET i == Len(symbols) + 1
  IN  IF /\ i <= Len(payload) /\ payload[i].model = model
         /\ payload[i].context = Context(symbols, n_ctx, overlap)
      THEN payload[i].symbol ELSE Garbled

\* decode_symbols_with_model_progress: by the number of symbols.
Decoded(model, payload, len, n_ctx, overlap) ==
  FoldLeft(LAMBDA decoded, i : Append(decoded, NextDecoded(model, payload, decoded, n_ctx, overlap)),
           <<>>, [i \in 1 .. len |-> i])

Known(symbols) == Garbled \notin ToSet(symbols)

\* detllm decompress: by bytes, and encoded again.
Decompressed(model, dtlz) ==
  LET from[symbols \in Seq(Symbols)] ==
        LET next == NextDecoded(model, dtlz.payload, symbols, dtlz.n_ctx, dtlz.overlap)
        IN  IF Len(BytesOf(symbols)) >= dtlz.orig_len THEN symbols
            ELSE IF next = Garbled THEN <<Garbled>> ELSE from[Append(symbols, next)]
      decoded == from[<<>>]
  IN  IF /\ dtlz.model = model /\ ValidWindow(dtlz.n_ctx, dtlz.overlap) /\ Known(decoded)
         /\ Encoded(model, decoded, dtlz.n_ctx, dtlz.overlap) = dtlz.payload
      THEN [output |-> SubSeq(BytesOf(decoded), 1, dtlz.orig_len)]
      ELSE None

-----------------------------------------------------------------------------
(***************************************************************************)
(* Up to the symbols to be measured.                                       *)
(***************************************************************************)
Init ==
  /\ disk \in { [model |-> model, input |-> input, dtlz |-> None, checkpoint |-> None,
                 progress |-> None, summary |-> None] : model \in Models, input \in Inputs }
  /\ run = Off
  /\ changes = 0

Start ==
  /\ run = Off
  /\ \E job \in Jobs : run' = [pc |-> "load", job |-> job]
  /\ UNCHANGED <<disk, changes>>

LoadModel ==
  /\ run.pc = "load"
  /\ run' = [pc |-> "stat", job |-> run.job, model |-> disk.model]
  /\ UNCHANGED <<disk, changes>>

InputFileLen ==
  /\ run.pc = "stat"
  /\ run' = [pc |-> "read", job |-> run.job, model |-> run.model, source |-> Len(disk.input)]
  /\ UNCHANGED <<disk, changes>>

Limited(seq, limit) == IF limit = Unlimited THEN seq ELSE SubSeq(seq, 1, Least(limit, Len(seq)))

\* Mutated form: the bytes of the symbols that were cut off are still counted.
MeasuredWhole(job, input, symbols) == input
\* The bytes of the symbols that are left.
Measured(job, input, symbols) == IF job.limit_tokens = Unlimited THEN input ELSE BytesOf(symbols)

ReadInput ==
  /\ run.pc = "read"
  /\ LET job     == run.job
         limited == Limited(disk.input, job.limit_bytes)
         stream  == CodecSymbols(limited)
         symbols == Limited(stream, job.limit_tokens)
     IN  run' = [pc |-> IF job.mode = "verify-dtlz" THEN "dtlz" ELSE "window",
                 job |-> job, model |-> run.model, source |-> run.source,
                 limited |-> Len(limited), tokenized |-> Len(stream), symbols |-> symbols,
                 input |-> Measured(job, limited, symbols), n_ctx |-> job.n_ctx, overlap |-> job.n_ctx \div 4,
                 payload |-> <<>>, decoded |-> <<>>, output |-> None, iters |-> 0, total |-> 0]
  /\ UNCHANGED <<disk, changes>>

\* --verify-dtlz: the window is that of the file.
CanVerify(dtlz) ==
  /\ dtlz # None
  /\ dtlz.flags = "byte escapes"
  /\ dtlz.model = run.model
  /\ run.job.n_ctx \in {ContextLength, dtlz.n_ctx}   \* ContextLength: not given
  /\ ValidWindow(dtlz.n_ctx, dtlz.overlap)
  /\ dtlz.orig_len = Len(run.input)

ReadDtlz ==
  /\ run.pc = "dtlz"
  /\ run' = IF CanVerify(disk.dtlz)
            THEN [run EXCEPT !.pc = "decode", !.payload = disk.dtlz.payload, !.output = disk.dtlz,
                             !.n_ctx = disk.dtlz.n_ctx, !.overlap = disk.dtlz.overlap]
            ELSE Off
  /\ UNCHANGED <<disk, changes>>

\* The warm-up is an encode and a decode that leave nothing behind; then the
\* first iteration starts.
WarmupFails ==
  LET payload == Encoded(run.model, run.symbols, run.n_ctx, run.overlap)
      decoded == Decoded(run.model, payload, Len(run.symbols), run.n_ctx, run.overlap)
  IN  run.job.warmup /\ run.job.mode = "round-trip" /\ (~Known(decoded) \/ BytesOf(decoded) # run.input)

CheckWindow ==
  /\ run.pc = "window"
  /\ run' = IF ValidWindow(run.n_ctx, run.overlap) /\ ~WarmupFails THEN [run EXCEPT !.pc = "resume"] ELSE Off
  /\ UNCHANGED <<disk, changes>>

-----------------------------------------------------------------------------
(***************************************************************************)
(* The iterations.                                                         *)
(***************************************************************************)
Saved(payload) == [model |-> run.model, input |-> run.input, n_ctx |-> run.n_ctx, overlap |-> run.overlap,
          symbols_len |-> Len(run.symbols), payload |-> payload]

Resume ==
  /\ run.pc = "resume"
  /\ LET saved == disk.checkpoint
     IN  run' = CASE ~run.job.checkpoint \/ saved = None -> [run EXCEPT !.pc = "encode"]
                  [] run.job.checkpoint /\ saved # None /\ saved = Saved(saved.payload) ->
                       [run EXCEPT !.pc = "encode", !.payload = saved.payload]
                  [] OTHER -> Off
  /\ UNCHANGED <<disk, changes>>

\* report_bench_file_progress: on every so many symbols and on the last.
Reported(phase, done) ==
  LET every == run.job.every   \* Unlimited: --progress-every is not given
  IN  IF done = Len(run.symbols) \/ (every # Unlimited /\ done % every = 0)
      THEN [phase |-> phase, done |-> done, of |-> Len(run.symbols)] ELSE disk.progress

EncodeSymbol ==
  /\ run.pc = "encode"
  /\ Len(run.payload) < Len(run.symbols)
  /\ LET done == Len(run.payload) + 1
     IN  /\ run' = [run EXCEPT !.payload = Append(@, Coded(run.model, run.symbols, done, run.n_ctx, run.overlap))]
         /\ disk' = [disk EXCEPT !.progress = Reported("encode", done),
                !.checkpoint = IF run.job.checkpoint /\ (done = Len(run.symbols) \/ done % run.job.every = 0)
                               THEN Saved(run'.payload) ELSE @]
  /\ UNCHANGED changes

\* write_bench_file_dtlz_for_payload, when there is an output path.
FinishEncode ==
  LET dtlz == [flags |-> "byte escapes", model |-> run.model, n_ctx |-> run.n_ctx, overlap |-> run.overlap,
               orig_len |-> Len(run.input), payload |-> run.payload, whole |-> TRUE]
      wrote == IF run.job.output THEN dtlz ELSE None
  IN  /\ run.pc = "encode"
      /\ Len(run.payload) = Len(run.symbols)
      /\ run' = [run EXCEPT !.total = @ + Len(run.payload), !.output = wrote,
                            !.pc = IF run.job.mode = "encode-only" THEN "next" ELSE "decode"]
      /\ disk' = [disk EXCEPT !.dtlz = IF run.job.output THEN dtlz ELSE @]
      /\ UNCHANGED changes

DecodeSymbol ==
  /\ run.pc = "decode"
  /\ Len(run.decoded) < Len(run.symbols)
  /\ run' = [run EXCEPT !.decoded = Append(@, NextDecoded(run.model, run.payload, @, run.n_ctx, run.overlap))]
  /\ disk' = [disk EXCEPT !.progress = Reported("decode", Len(run.decoded) + 1)]
  /\ UNCHANGED changes

\* --verify-dtlz compares the symbols as well as the bytes.
Restored ==
  /\ Known(run.decoded) /\ BytesOf(run.decoded) = run.input
  /\ run.job.mode = "verify-dtlz" => run.decoded = run.symbols

FinishDecode ==
  /\ run.pc = "decode"
  /\ Len(run.decoded) = Len(run.symbols)
  /\ run' = CASE ~Restored -> Off
              [] Restored /\ run.job.mode = "verify-dtlz" -> [run EXCEPT !.pc = "summary", !.iters = 1]
              [] OTHER -> [run EXCEPT !.pc = "next"]
  /\ UNCHANGED <<disk, changes>>

\* The next iteration, or the end of the last: the checkpoint is removed.
NextIteration ==
  /\ run.pc = "next"
  /\ run' = [run EXCEPT !.iters = @ + 1, !.payload = <<>>, !.decoded = <<>>,
                        !.pc = IF run.iters + 1 < run.job.iters THEN "resume" ELSE "summary"]
  /\ disk' = [disk EXCEPT !.checkpoint = IF run.job.checkpoint THEN None ELSE @]
  /\ UNCHANGED changes

WriteSummary ==
  /\ run.pc = "summary"
  /\ disk' = [disk EXCEPT !.summary =
       [mode |-> run.job.mode, model |-> run.model, input |-> run.input, source |-> run.source,
        limited |-> run.limited, tokenized |-> run.tokenized, tokens |-> Len(run.symbols),
        iters |-> run.iters, payload |-> run.total, output |-> run.output]]
  /\ run' = Off
  /\ UNCHANGED changes

-----------------------------------------------------------------------------
(***************************************************************************)
(* What happens around it.                                                 *)
(***************************************************************************)
Crash == run # Off /\ run' = Off /\ UNCHANGED disk

Replace ==
  /\ \/ \E model \in Models \ {disk.model} : disk' = [disk EXCEPT !.model = model]
     \/ \E input \in Inputs \ {disk.input} : disk' = [disk EXCEPT !.input = input]
  /\ UNCHANGED run

Damage ==
  /\ disk.dtlz # None
  /\ LET dtlz == [disk.dtlz EXCEPT !.whole = FALSE]
     IN  \E damaged \in { [dtlz EXCEPT !.flags = "none"], [dtlz EXCEPT !.orig_len = @ + 1],
                          [dtlz EXCEPT !.overlap = @ + 1] }
                   \cup (IF dtlz.payload = <<>> THEN {} ELSE {[dtlz EXCEPT !.payload = Front(@)]}) :
           disk' = [disk EXCEPT !.dtlz = damaged]
  /\ UNCHANGED run

Step ==
  \/ LoadModel \/ InputFileLen \/ ReadInput \/ ReadDtlz \/ CheckWindow \/ Resume \/ EncodeSymbol
  \/ FinishEncode \/ DecodeSymbol \/ FinishDecode \/ NextIteration \/ WriteSummary

Next ==
  \/ Start \/ Step
  \/ changes < MaxChanges /\ changes' = changes + 1 /\ (Crash \/ Replace \/ Damage)

Spec == Init /\ [][Next]_vars

-----------------------------------------------------------------------------
(***************************************************************************)
(* A file bench-file leaves behind is evidence.  A DTLZ file it wrote, in  *)
(* whatever mode, with whatever limits and however often interrupted, is   *)
(* one that detllm decompress accepts; the summary's digests are of a      *)
(* model and an input that the file it names restores, whatever the paths  *)
(* hold by now; and the counts are those of all its iterations.            *)
(***************************************************************************)
WrittenDecompresses ==
  disk.dtlz # None /\ disk.dtlz.whole =>
    /\ Decompressed(disk.dtlz.model, disk.dtlz) # None
    /\ Len(Decompressed(disk.dtlz.model, disk.dtlz).output) = disk.dtlz.orig_len

SummaryIsOfOutput ==
  disk.summary # None =>
    LET s == disk.summary
    IN  /\ s.output # None /\ s.output.whole =>
             Decompressed(s.model, s.output) = [output |-> s.input]
        /\ s.mode = "verify-dtlz" =>
             LET decoded == Decoded(s.model, s.output.payload, s.tokens, s.output.n_ctx, s.output.overlap)
             IN  /\ s.output.model = s.model /\ s.output.orig_len = Len(s.input)
                 /\ Known(decoded) /\ BytesOf(decoded) = s.input
        /\ s.mode # "verify-dtlz" => s.payload = s.iters * s.tokens

FilesAreEvidence == WrittenDecompresses /\ SummaryIsOfOutput
=============================================================================
