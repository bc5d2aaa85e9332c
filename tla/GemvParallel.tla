---------------------------- MODULE GemvParallel ----------------------------
(***************************************************************************)
(* The parallel loops of det-model/src/lib.rs: gemv_rows, which splits the *)
(* rows of a product over a thread pool, attention_all_heads, which does   *)
(* so with heads, with_rayon_pool, which keeps one pool per thread count,  *)
(* and set_thread_count, which may be called at any time.                  *)
(*                                                                         *)
(* A job is a product (one row per element of out) or an attention (one    *)
(* head per element).  The value of row r is written r; a failing row has  *)
(* an error in its place.  A pool runs the closure given to try_for_each   *)
(* on chunks in any order, at most as many at a time as it has threads, and *)
(* may leave out chunks it has not begun once one has failed.              *)
(***************************************************************************)
EXTENDS Integers, FiniteSets

CONSTANTS
  Callers,        \* threads that evaluate products
  Jobs,           \* records [kind, rows, errors, work]
  Counts,         \* thread counts that set_thread_count is given; 0 is None
  Cores,          \* available_parallelism
  MinWork,        \* MIN_PARALLEL_ATTENTION_WORK
  MaxSets         \* bound: calls of set_thread_count

\* errors is a function from the failing rows to what they fail with; work is
\* head_count * (pos + 1) * head_dim of an attention.
GemvAssumption ==
  /\ Counts \subseteq Nat /\ Cores \in Nat \ {0} /\ MinWork \in Nat
  /\ MaxSets \in Nat
  /\ \A job \in Jobs :
       /\ job.kind \in {"gemv", "attention"}
       /\ job.rows \in Nat /\ job.work \in Nat
       /\ DOMAIN job.errors \subseteq 0 .. job.rows - 1

VARIABLES
  override, sets,   \* THREAD_COUNT_OVERRIDE, and how often it was stored
  pools,            \* RAYON_POOLS: thread counts that have a pool
  mutex,            \* callers that hold the lock of RAYON_POOLS
  call              \* per caller: job, threads, out, chunks, failed, pc, result

vars == <<override, sets, pools, mutex, call>>

Rows(job) == 0 .. job.rows - 1
Lesser(a, b) == IF a < b THEN a ELSE b
DivCeil(a, b) == (a + b - 1) \div b

Begun(job) ==
  [job |-> job, threads |-> 0, out |-> [r \in Rows(job) |-> -1],
   next |-> <<>>, failed |-> {}, pc |-> "load", result |-> "none"]

Init ==
  /\ override = 0 /\ sets = 0 /\ pools = {} /\ mutex = {}
  /\ call \in [Callers -> { Begun(job) : job \in Jobs }]

SetThreadCount(n) ==
  /\ sets < MaxSets
  /\ sets' = sets + 1 /\ override' = n
  /\ UNCHANGED <<pools, mutex, call>>

-----------------------------------------------------------------------------
\* requested_thread_count, clamped to the rows.
Threads(job) ==
  LET requested == IF override # 0 THEN override ELSE Cores
  IN  Lesser(requested, IF job.rows = 0 THEN 1 ELSE job.rows)

Sequential(job, threads) ==
  \/ threads = 1 \/ job.rows < 2
  \/ job.kind = "attention" /\ job.work < MinWork

ChunkLen(job, threads) ==
  IF job.kind = "attention" THEN 1 ELSE DivCeil(job.rows, threads)

\* Mutated form: a chunk's rows are counted from the wrong place.
ChunkStartByThreads(c, k) == k * call[c].threads
ChunkStart(c, k) == k * ChunkLen(call[c].job, call[c].threads)

Chunks(c) == 0 .. DivCeil(call[c].job.rows, ChunkLen(call[c].job, call[c].threads)) - 1

Load(c) ==
  /\ call[c].pc = "load"
  /\ \E job \in {call[c].job}, threads \in {Threads(call[c].job)} :
       call' = [call EXCEPT ![c].threads = threads,
                            ![c].next = [k \in {0} |-> 0],
                            ![c].pc = IF Sequential(job, threads) THEN "rows" ELSE "lock"]
  /\ UNCHANGED <<override, sets, pools, mutex>>

\* The loop of gemv_rows_sequential, and of attention_all_heads_sequential.
SequentialRow(c) ==
  LET r   == call[c].next[0]
      job == call[c].job
  IN  /\ call[c].pc = "rows"
      /\ call' = [call EXCEPT ![c] =
            IF r = job.rows THEN [@ EXCEPT !.pc = "done", !.result = "ok"]
            ELSE IF r \in DOMAIN job.errors
            THEN [@ EXCEPT !.pc = "done", !.result = job.errors[r]]
            ELSE [@ EXCEPT !.out[r] = r, !.next[0] = r + 1]]
      /\ UNCHANGED <<override, sets, pools, mutex>>

Lock(c) ==
  /\ call[c].pc = "lock" /\ mutex = {}
  /\ mutex' = {c} /\ call' = [call EXCEPT ![c].pc = "pool"]
  /\ UNCHANGED <<override, sets, pools>>

\* Mutated form: the guard is not dropped before the pool runs the rows.
UsePoolLocked(c) ==
  /\ call[c].pc = "pool"
  /\ pools' = pools \cup {call[c].threads}
  /\ call' = [call EXCEPT ![c].next = [k \in Chunks(c) |-> -1], ![c].pc = "chunks"]
  /\ UNCHANGED <<override, sets, mutex>>

\* with_rayon_pool, under the lock: the pool of this count, or a new one.
UsePool(c) ==
  /\ call[c].pc = "pool"
  /\ pools' = pools \cup {call[c].threads}
  /\ mutex' = mutex \ {c}
  /\ call' = [call EXCEPT ![c].next = [k \in Chunks(c) |-> -1], ![c].pc = "chunks"]
  /\ UNCHANGED <<override, sets>>

BuildFails(c) ==
  /\ call[c].pc = "pool" /\ call[c].threads \notin pools
  /\ mutex' = mutex \ {c}
  /\ call' = [call EXCEPT ![c].pc = "done", ![c].result = "ThreadPanicked"]
  /\ UNCHANGED <<override, sets, pools>>

-----------------------------------------------------------------------------
(***************************************************************************)
(* The closure of try_for_each.  next[k] is the offset chunk k is at, -1   *)
(* before it is begun, and Ended when it is over.                          *)
(***************************************************************************)
Ended == -2
Running(c) == IF call[c].pc = "chunks" THEN { k \in DOMAIN call[c].next : call[c].next[k] >= 0 } ELSE {}
Busy(threads) ==
  Cardinality(UNION { {c} \X Running(c) : c \in { d \in Callers : call[d].threads = threads } })

BeginChunk(c, k) ==
  /\ call[c].pc = "chunks" /\ call[c].next[k] = -1
  /\ Busy(call[c].threads) < call[c].threads
  /\ call' = [call EXCEPT ![c].next[k] = 0]
  /\ UNCHANGED <<override, sets, pools, mutex>>

SkipChunk(c, k) ==
  /\ call[c].pc = "chunks" /\ call[c].next[k] = -1 /\ call[c].failed # {}
  /\ call' = [call EXCEPT ![c].next[k] = Ended]
  /\ UNCHANGED <<override, sets, pools, mutex>>

ChunkRow(c, k) ==
  LET job    == call[c].job
      len    == ChunkLen(job, call[c].threads)
      offset == call[c].next[k]
      dst    == k * len + offset
      r      == ChunkStart(c, k) + offset
  IN  /\ call[c].pc = "chunks" /\ offset >= 0
      /\ call' = [call EXCEPT ![c] =
            IF offset = len \/ dst >= job.rows THEN [@ EXCEPT !.next[k] = Ended]
            ELSE IF r \in DOMAIN job.errors
            THEN [@ EXCEPT !.next[k] = Ended, !.failed = call[c].failed \cup {job.errors[r]}]
            ELSE [@ EXCEPT !.out[dst] = r, !.next[k] = offset + 1]]
      /\ UNCHANGED <<override, sets, pools, mutex>>

\* try_for_each gives one of the errors.
Join(c) ==
  /\ call[c].pc = "chunks"
  /\ \A k \in DOMAIN call[c].next : call[c].next[k] = Ended
  /\ \E result \in IF call[c].failed = {} THEN {"ok"} ELSE call[c].failed :
       call' = [call EXCEPT ![c].pc = "done", ![c].result = result]
  /\ UNCHANGED <<override, sets, pools, mutex>>

CallerNext(c) ==
  \/ Load(c) \/ SequentialRow(c) \/ Lock(c) \/ UsePool(c) \/ BuildFails(c) \/ Join(c)
  \/ \E k \in DOMAIN call[c].next : BeginChunk(c, k) \/ SkipChunk(c, k) \/ ChunkRow(c, k)

Next == (\E n \in Counts : SetThreadCount(n)) \/ (\E c \in Callers : CallerNext(c))

Spec == Init /\ [][Next]_vars
\* Threads run.  Callers make one call each, so that a lock which is asked for
\* is free in the end; mutexes need not be fair.
FairSpec == Spec /\ \A c \in Callers : WF_vars(CallerNext(c))

-----------------------------------------------------------------------------
Done(c) == call[c].pc = "done" /\ call[c].result # "ThreadPanicked"
Errors(c) == { call[c].job.errors[r] : r \in DOMAIN call[c].job.errors }

\* A call succeeds exactly when no row fails, and has then written every row with
\* its own value, whatever the split, the schedule, the other callers and the
\* thread count at the time are; a failing call gives an error of one of its
\* rows, and no call ever writes anything but a row's own value.
ResultIsSequential ==
  \A c \in Callers :
    /\ \A r \in Rows(call[c].job) : call[c].out[r] \in {-1, r}
    /\ Done(c) =>
         IF Errors(c) = {}
         THEN call[c].result = "ok" /\ \A r \in Rows(call[c].job) : call[c].out[r] = r
         ELSE call[c].result \in Errors(c)

\* The lock of the pools is not held while rows are computed, and every call
\* returns, also when another one fails to build its pool or waits for workers.
CallsReturn == \A c \in Callers : <>(call[c].pc = "done")
=============================================================================
