----------------------- MODULE MCCheckpointedEncode ------------------------
(***************************************************************************)
(* One process that is interrupted and run again, with other jobs too; and *)
(* two that are given the same paths and the same job.                     *)
(***************************************************************************)
EXTENDS CheckpointedEncode, TLC

CONSTANTS gguf, gguf2, text, text2, a, b, e, TwoProcs

VARIABLE shared

Job(model, input, n_ctx) == [model |-> model, input |-> input, n_ctx |-> n_ctx]

\* One job, and for each thing a checkpoint is compared on a job that differs.
MCJobs    == {Job(gguf, text, 4), Job(gguf2, text, 4), Job(gguf, text2, 4), Job(gguf, text, 2)}
MCOneJob  == {Job(gguf, text, 4)}
MCSymbols == (text :> <<a, b, e, a, b, a, a>>) @@ (text2 :> <<b, b, e, a, b, a, a>>)

Two == INSTANCE CheckpointedEncode WITH Procs <- TwoProcs, Jobs <- MCOneJob, Every <- 3, MaxFaults <- 1

PartsInit == (shared = FALSE /\ Init) \/ (shared = TRUE /\ Two!Init)

PartsNext ==
  /\ UNCHANGED shared
  /\ (~shared /\ Next) \/ (shared /\ Two!Next)

PartsSpec ==
  /\ PartsInit /\ [][PartsNext]_<<vars, shared>>
  /\ \A p \in Procs :
       WF_vars(~shared /\ Step(p)) /\ WF_vars(~shared /\ \E job \in Jobs : Start(p, job))
  /\ \A p \in TwoProcs :
       WF_vars(shared /\ Two!Step(p)) /\ WF_vars(shared /\ \E job \in MCOneJob : Two!Start(p, job))

(***************************************************************************)
(* A checkpoint is replaced only by one that is further on, as long as one *)
(* process writes it: the slower of two may replace the faster one's.      *)
(***************************************************************************)
ProgressKeptAlone == [][~shared => FurtherOn]_<<vars, shared>>
=============================================================================
