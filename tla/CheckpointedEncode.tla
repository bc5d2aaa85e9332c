------------------------- MODULE CheckpointedEncode -------------------------
(***************************************************************************)
(* The encode of xtask bench-file with --checkpoint: processes that encode *)
(* a file, save a checkpoint every few symbols, and resume from it when    *)
(* they are run again after a crash or an I/O error.  The checkpoint and   *)
(* the DTLZ output are written to a temporary file named after the process *)
(* and renamed into place, which replaces the old file at once.            *)
(*                                                                         *)
(* The payload is represented by what the range coder was given: for every *)
(* symbol, the symbol, the model and the context it was coded under.       *)
(***************************************************************************)
EXTENDS Integers, Sequences

CONSTANTS
  Procs,       \* processes that share a checkpoint path and an output path
  Jobs,        \* command lines they are run with: [model, input, n_ctx]
  Symbols,     \* the codec symbols of every input
  Escapes,     \* those of them that are byte escapes
  Every,       \* --checkpoint-every
  MaxFaults    \* bound: crashes and failed renames

ASSUME CheckpointAssumption ==
  /\ \A job \in Jobs :
       /\ job.n_ctx \in Nat \ {0}
       /\ LET symbols == Symbols[job.input]
          IN  symbols \in Seq({symbols[i] : i \in DOMAIN symbols})
  /\ Every \in Nat \ {0}
  /\ MaxFaults \in Nat

VARIABLES
  checkpoint,   \* the file at --checkpoint
  dtlz,         \* the file at --output-dtlz
  tmp,          \* the temporary files, by name
  proc,         \* the memory of every process
  faults        \* faults so far, for the bound

vars == <<checkpoint, dtlz, tmp, proc, faults>>

None == [file |-> "none"]    \* no such file
Torn == [file |-> "torn"]    \* a file whose writer has not finished
Off  == [pc |-> "off"]       \* a process that is not running

\* bench_file keeps a quarter of the window when it slides.
Window(n_ctx) ==
  INSTANCE ContextWindow WITH NCtx <- n_ctx, Overlap <- n_ctx \div 4

-----------------------------------------------------------------------------
(***************************************************************************)
(* What an encode that is never interrupted gives the range coder.         *)
(***************************************************************************)
IsToken(symbol) == symbol \notin Escapes

\* The tokens among the first n symbols.
TokensBefore(symbols, n) ==
  LET tokens[i \in 0 .. n] ==
        IF i = 0 THEN <<>>
        ELSE IF IsToken(symbols[i]) THEN Append(tokens[i - 1], symbols[i])
        ELSE tokens[i - 1]
  IN  tokens[n]

Coded(job, symbol, context) ==
  [model |-> job.model, symbol |-> symbol, context |-> context]

Encoding(job) ==
  LET symbols == Symbols[job.input]
  IN  [i \in 1 .. Len(symbols) |->
        Coded(job, symbols[i],
              Window(job.n_ctx)!WindowOf(TokensBefore(symbols, i - 1)))]

-----------------------------------------------------------------------------
(***************************************************************************)
(* Resuming.  validate compares everything the checkpoint was made with;   *)
(* window_start_for_encoded_prefix gives the window as it stood when the   *)
(* last of the tokens was coded, and the loop's next sync may slide it.    *)
(***************************************************************************)
\* Mutated forms: the context settings are not compared; a checkpoint of the
\* whole input is refused.
MatchesInput(ckpt, job) ==
  ckpt.job.model = job.model /\ ckpt.job.input = job.input
MatchesUnfinished(ckpt, job) ==
  ckpt.job = job /\ ckpt.done < Len(Symbols[job.input])

Matches(ckpt, job) ==
  ckpt.job = job /\ ckpt.done <= Len(Symbols[job.input])

PrefixStart(tokens, n_ctx) ==
  LET start[n \in 0 .. tokens] ==
        IF n = 0 THEN 0
        ELSE Window(n_ctx)!NextWindowStart(n - 1, start[n - 1])
  IN  start[tokens]

Resumed(job, done, enc) ==
  LET context == TokensBefore(Symbols[job.input], done)
      start   == PrefixStart(Len(context), job.n_ctx)
  IN  [pc |-> "encode", job |-> job, done |-> done, enc |-> enc,
       context |-> context, window_start |-> start,
       cached |-> SubSeq(context, start + 1, Len(context)),
       writing |-> "checkpoint"]

Init ==
  /\ checkpoint = None
  /\ dtlz = None
  /\ tmp = [p \in Procs |-> None]
  /\ proc = [p \in Procs |-> Off]
  /\ faults = 0

\* What a process has when its loop starts.
Loaded(job) ==
  IF checkpoint = None THEN Resumed(job, 0, <<>>)
  ELSE Resumed(job, checkpoint.done, checkpoint.enc)

\* The checkpoint can be parsed, it matches, and the replay does not overrun.
CanStart(job) ==
  /\ checkpoint # None => checkpoint # Torn /\ Matches(checkpoint, job)
  /\ Len(Loaded(job).cached) <= job.n_ctx

StartOver(p, job) ==   \* mutated form: the saved state is not used
  /\ proc[p] = Off
  /\ CanStart(job)
  /\ proc' = [proc EXCEPT ![p] = Resumed(job, 0, <<>>)]
  /\ UNCHANGED <<checkpoint, dtlz, tmp, faults>>

Start(p, job) ==
  /\ proc[p] = Off
  /\ CanStart(job)
  /\ proc' = [proc EXCEPT ![p] = Loaded(job)]
  /\ UNCHANGED <<checkpoint, dtlz, tmp, faults>>

\* Otherwise the process ends with an error before it has changed anything.
Refuse(p, job) ==
  /\ proc[p] = Off
  /\ ~CanStart(job)
  /\ UNCHANGED vars

-----------------------------------------------------------------------------
(***************************************************************************)
(* One iteration of the encode loop: sync, code the symbol, advance by it  *)
(* if it is a token, and decide whether to save a checkpoint.  Advancing a *)
(* full window is an error, on which the process ends.                     *)
(***************************************************************************)
Synced(m) ==
  LET next == Window(m.job.n_ctx)!NextWindowStart(Len(m.context), m.window_start)
  IN  IF next = m.window_start THEN m
      ELSE [m EXCEPT !.window_start = next,
                     !.cached = SubSeq(m.context, next + 1, Len(m.context))]

EncodeSymbol(p) ==
  LET m      == Synced(proc[p])
      symbol == Symbols[m.job.input][m.done + 1]
      coded  == [m EXCEPT !.enc = Append(m.enc, Coded(m.job, symbol, m.cached)),
                          !.done = m.done + 1,
                          !.pc = IF m.done + 1 = Len(Symbols[m.job.input])
                                    \/ (m.done + 1) % Every = 0
                                 THEN "open" ELSE "encode"]
  IN  /\ proc[p].pc = "encode"
      /\ proc[p].done < Len(Symbols[proc[p].job.input])
      /\ proc' = [proc EXCEPT ![p] =
           IF ~IsToken(symbol) THEN coded
           ELSE IF Len(m.cached) >= m.job.n_ctx THEN Off
           ELSE [coded EXCEPT !.context = Append(m.context, symbol),
                              !.cached = Append(m.cached, symbol)]]
      /\ UNCHANGED <<checkpoint, dtlz, tmp, faults>>

FinishEncodeRemoves(p) ==   \* mutated form: the checkpoint is removed too early
  /\ proc[p].pc = "encode"
  /\ proc[p].done = Len(Symbols[proc[p].job.input])
  /\ proc' = [proc EXCEPT ![p].pc = "open", ![p].writing = "dtlz"]
  /\ checkpoint' = None
  /\ UNCHANGED <<dtlz, tmp, faults>>

FinishEncode(p) ==
  /\ proc[p].pc = "encode"
  /\ proc[p].done = Len(Symbols[proc[p].job.input])
  /\ proc' = [proc EXCEPT ![p].pc = "open", ![p].writing = "dtlz"]
  /\ UNCHANGED <<checkpoint, dtlz, tmp, faults>>

-----------------------------------------------------------------------------
(***************************************************************************)
(* write_bench_file_checkpoint and write_bench_file_dtlz: fs::write of the *)
(* temporary file, which a crash may leave torn, then fs::rename.          *)
(***************************************************************************)
TmpNameShared(p) == CHOOSE q \in Procs : TRUE   \* mutated form: no process id

TmpName(p) == p

Body(m) ==
  IF m.writing = "dtlz"
  THEN [file |-> "dtlz", job |-> m.job, payload |-> m.enc]
  ELSE [file |-> "checkpoint", job |-> m.job, done |-> m.done, enc |-> m.enc]

OpenTmp(p) ==
  /\ proc[p].pc = "open"
  /\ tmp' = [tmp EXCEPT ![TmpName(p)] = Torn]
  /\ proc' = [proc EXCEPT ![p].pc = "write"]
  /\ UNCHANGED <<checkpoint, dtlz, faults>>

WriteTmp(p) ==
  /\ proc[p].pc = "write"
  /\ tmp' = [tmp EXCEPT ![TmpName(p)] = Body(proc[p])]
  /\ proc' = [proc EXCEPT ![p].pc = "rename"]
  /\ UNCHANGED <<checkpoint, dtlz, faults>>

RenameCheckpoint(p) ==
  /\ proc[p].pc = "rename" /\ proc[p].writing = "checkpoint"
  /\ checkpoint' = tmp[TmpName(p)]
  /\ tmp' = [tmp EXCEPT ![TmpName(p)] = None]
  /\ proc' = [proc EXCEPT ![p].pc = "encode"]
  /\ UNCHANGED <<dtlz, faults>>

RenameDtlz(p) ==
  /\ proc[p].pc = "rename" /\ proc[p].writing = "dtlz"
  /\ dtlz' = tmp[TmpName(p)]
  /\ tmp' = [tmp EXCEPT ![TmpName(p)] = None]
  /\ proc' = [proc EXCEPT ![p].pc = "verify"]
  /\ UNCHANGED <<checkpoint, faults>>

RenameFails(p) ==
  /\ proc[p].pc = "rename"
  /\ faults < MaxFaults
  /\ faults' = faults + 1
  /\ tmp' = [tmp EXCEPT ![TmpName(p)] = None]
  /\ proc' = [proc EXCEPT ![p] = Off]
  /\ UNCHANGED <<checkpoint, dtlz>>

(***************************************************************************)
(* The end of the run: decode the payload and compare, unless encode_only; *)
(* then remove the checkpoint, which need not be there.  The decoder runs  *)
(* the uninterrupted windows, so it restores the input from that encoding. *)
(***************************************************************************)
Verify(p) ==
  /\ proc[p].pc = "verify"
  /\ \E encode_only \in BOOLEAN :
       proc' = IF encode_only \/ proc[p].enc = Encoding(proc[p].job)
               THEN [proc EXCEPT ![p].pc = "remove"]
               ELSE [proc EXCEPT ![p] = Off]
  /\ UNCHANGED <<checkpoint, dtlz, tmp, faults>>

RemoveCheckpoint(p) ==
  /\ proc[p].pc = "remove"
  /\ checkpoint' = None
  /\ proc' = [proc EXCEPT ![p] = Off]
  /\ UNCHANGED <<dtlz, tmp, faults>>

\* The process is killed, or a write or a progress report fails.
Crash(p) ==
  /\ proc[p] # Off
  /\ faults < MaxFaults
  /\ faults' = faults + 1
  /\ proc' = [proc EXCEPT ![p] = Off]
  /\ UNCHANGED <<checkpoint, dtlz, tmp>>

Step(p) ==
  \/ EncodeSymbol(p) \/ FinishEncode(p)
  \/ OpenTmp(p) \/ WriteTmp(p) \/ RenameCheckpoint(p) \/ RenameDtlz(p)
  \/ Verify(p) \/ RemoveCheckpoint(p)

Next ==
  \E p \in Procs :
    \/ \E job \in Jobs : Start(p, job) \/ Refuse(p, job)
    \/ Step(p)
    \/ RenameFails(p)
    \/ Crash(p)

Spec == Init /\ [][Next]_vars

\* A process that runs goes on; the user runs the command again after a fault.
Fairness ==
  \A p \in Procs :
    /\ WF_vars(Step(p))
    /\ WF_vars(\E job \in Jobs : Start(p, job))

FairSpec == Spec /\ Fairness

-----------------------------------------------------------------------------
TypeOK ==
  /\ checkpoint.file \in {"none", "checkpoint"}
  /\ dtlz.file \in {"none", "dtlz"}
  /\ \A p \in Procs : tmp[p].file \in {"none", "torn", "checkpoint", "dtlz"}
  /\ \A p \in Procs :
       proc[p] = Off \/
         /\ proc[p].pc \in {"encode", "open", "write", "rename", "verify", "remove"}
         /\ proc[p].job \in Jobs
         /\ proc[p].done = Len(proc[p].enc)
         /\ Len(proc[p].cached) <= proc[p].job.n_ctx
  /\ faults \in 0 .. MaxFaults

(***************************************************************************)
(* A file at the output path is whole, and however often its encode was    *)
(* interrupted and resumed its payload is that of an encode run at once.   *)
(***************************************************************************)
OutputIsUninterrupted ==
  dtlz # None => dtlz # Torn /\ dtlz.payload = Encoding(dtlz.job)

(***************************************************************************)
(* A file at the checkpoint path is whole, and is a prefix of the encode   *)
(* of the job it names, with the count of symbols that prefix has.         *)
(***************************************************************************)
CheckpointIsPrefix ==
  checkpoint # None =>
    /\ checkpoint # Torn
    /\ checkpoint.done > 0
    /\ checkpoint.enc = SubSeq(Encoding(checkpoint.job), 1, checkpoint.done)

(***************************************************************************)
(* Completed work is not discarded: a checkpoint is removed only once the  *)
(* output of its job is in place, ...                                      *)
(***************************************************************************)
RemovedAfterOutput ==
  [][checkpoint # None /\ checkpoint' = None =>
       dtlz # None /\ dtlz.job = checkpoint.job]_vars

(***************************************************************************)
(* ... and is replaced only by one that is further on.                     *)
(***************************************************************************)
FurtherOn ==
  checkpoint # None /\ checkpoint' # None /\ checkpoint' # checkpoint =>
    checkpoint'.job = checkpoint.job /\ checkpoint'.done > checkpoint.done

(***************************************************************************)
(* No checkpoint is a dead end: run again, the job it belongs to completes *)
(* from wherever it was interrupted, after the last symbol too.            *)
(***************************************************************************)
CheckpointUsedUp == (checkpoint # None) ~> (checkpoint = None)
=============================================================================
