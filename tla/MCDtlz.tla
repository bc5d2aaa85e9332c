------------------------------- MODULE MCDtlz -------------------------------
(***************************************************************************)
(* compress and decompress over a file that is damaged, and on its own     *)
(* bench-file, which writes and verifies such files: one of the two takes  *)
(* steps, the other stays as it began.                                     *)
(***************************************************************************)
EXTENDS Dtlz

CONSTANTS
  BenchPieces, BenchByteToken, BenchEmits, BenchInputs, Jobs, MaxChanges,
  Parts   \* of "dtlz", "bench"

VARIABLES part, disk, run, changes

benchVars == <<disk, run, changes>>

Bench == INSTANCE BenchFile WITH
  Pieces <- BenchPieces, ByteToken <- BenchByteToken, Emits <- BenchEmits, Inputs <- BenchInputs

ASSUME Bench!CodecAssumption /\ Bench!BenchAssumption

\* Two bytes.  Tokens 1 and 2 are the byte fallbacks, of which the emit mask
\* hides the second; 3 is a longer piece, 4 a control token without bytes, and
\* 5 a token of one byte, which is never used, so that byte 2 is escaped.
MCPieces    == << <<1>>, <<2>>, <<1, 1>>, <<>>, <<2>> >>
MCByteToken == [b \in Bytes |-> b]
MCEmits     == {1, 3, 5}

\* All the short inputs, and longer ones: five tokens, which slide a window of
\* four, and tokens with escapes between them, which slide one of two.
MCInputs ==
  UNION { [1 .. n -> Bytes] : n \in 0 .. 3 }
    \cup { [i \in 1 .. 9 |-> 1], <<1, 2, 1, 2, 1>>, <<1, 1, 2, 1, 2, 2>> }

\* Every token of the window and its place make a difference to the table.
MCWeights(model, window) ==
  LET sum[n \in 0 .. Len(window)] ==
        IF n = 0 THEN model ELSE sum[n - 1] + n * window[n]
  IN  [t \in Tokens |-> 1 + ((sum[Len(window)] + t) % 3)]

-----------------------------------------------------------------------------
\* For bench-file, byte 2 has no emitted token and is escaped; 3 is a longer piece.
MCBenchPieces == << <<1>>, <<2>>, <<1, 1>> >>
MCBenchEmits  == {1, 3}
MCBenchInputs == { <<1, 1, 2, 1, 1, 1>>, <<1, 2, 1, 1, 1>>, <<>> }

Opts(mode, n_ctx, output, checkpoint) ==
  [mode |-> mode, n_ctx |-> n_ctx, output |-> output, checkpoint |-> checkpoint, warmup |-> ~checkpoint,
   limit_bytes |-> 0, limit_tokens |-> 0, iters |-> IF output \/ mode = "verify-dtlz" THEN 1 ELSE 2,
   every |-> IF checkpoint THEN 2 ELSE 0]

MCJobs ==
  LET short == { [job EXCEPT !.limit_tokens = 2] :
                   job \in { Opts("encode-only", 2, TRUE, TRUE), Opts("verify-dtlz", 4, FALSE, FALSE) } }
  IN  short \cup { Opts("round-trip", 2, TRUE, TRUE), Opts("round-trip", 5, TRUE, FALSE),
                   Opts("encode-only", 4, FALSE, FALSE), Opts("verify-dtlz", 2, FALSE, FALSE),
                   [Opts("round-trip", 4, FALSE, FALSE) EXCEPT !.limit_bytes = 4] }

PartsInit ==
  /\ part \in Parts
  /\ Init /\ Bench!Init
  /\ part # "dtlz" => input = <<>> /\ header.model = 0 /\ header.n_ctx = ContextLength /\ header.escapes
  /\ part # "bench" => disk.model = 0 /\ disk.input = <<>>

PartsNext ==
  /\ UNCHANGED part
  /\ \/ part = "dtlz" /\ Next /\ UNCHANGED benchVars
     \/ part = "bench" /\ Bench!Next /\ UNCHANGED vars

PartsSpec == PartsInit /\ [][PartsNext]_<<vars, benchVars, part>>

(***************************************************************************)
(* A DTLZ file that bench-file wrote is one that decompress accepts, and   *)
(* its summary is of the bytes that the file restores.                     *)
(***************************************************************************)
FilesAreEvidence == Bench!FilesAreEvidence
=============================================================================
