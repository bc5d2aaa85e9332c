-------------------------- MODULE EvaluationProofs --------------------------
(***************************************************************************)
(* What is proved of the evaluation of a token: a product of a matrix does *)
(* not depend on how its rows were cut into chunks for threads; the logits *)
(* of a call are those of its tokens, whatever was computed before; and    *)
(* the product of a quantised matrix does not depend on the target.        *)
(***************************************************************************)
EXTENDS GemvParallel, ForwardPass, QuantDot, NumberLemmas, SequenceTheorems, FiniteSetTheorems

(***************************************************************************)
(* A product on several threads is that of one thread, for any number of   *)
(* callers, rows, threads and calls of set_thread_count, and any schedule. *)
(***************************************************************************)
(***************************************************************************)
(* The inductive invariant, of the call m that a caller makes.  What a     *)
(* chunk has passed is written and did not fail, and a chunk that is over  *)
(* has passed all its rows unless some chunk of the call has failed.       *)
(***************************************************************************)
Passed(m, first, last) ==
  \A r \in Rows(m.job) : first <= r /\ r < last =>
    m.out[r] = r /\ r \notin DOMAIN m.job.errors

LenOf(m) == ChunkLen(m.job, m.threads)
ChunksOf(m) == 0 .. DivCeil(m.job.rows, LenOf(m)) - 1
ErrorsOf(job) == { job.errors[r] : r \in DOMAIN job.errors }

TypeInv(m) ==
  /\ DOMAIN m = {"job", "threads", "out", "next", "failed", "pc", "result"}
  /\ m.job \in Jobs
  /\ m.out \in [Rows(m.job) -> Int]
  /\ \A r \in Rows(m.job) : m.out[r] \in {-1, r}
  /\ m.failed \subseteq ErrorsOf(m.job)
  /\ m.pc \in {"load", "rows", "lock", "pool", "chunks", "done"}

ThreadsInv(m) ==
  m.pc \in {"lock", "pool", "chunks"} =>
    m.threads \in Nat /\ m.threads > 0 /\ m.job.rows > 0

RowsInv(m) ==
  m.pc = "rows" =>
    /\ m.next \in [{0} -> Nat]
    /\ m.next[0] <= m.job.rows
    /\ Passed(m, 0, m.next[0])

ChunkInv(m, k) ==
  \/ m.next[k] = -1
  \/ m.next[k] \in 0 .. LenOf(m) /\ Passed(m, k * LenOf(m), k * LenOf(m) + m.next[k])
  \/ m.next[k] = Ended /\ m.failed # {}
  \/ m.next[k] = Ended /\ Passed(m, k * LenOf(m), k * LenOf(m) + LenOf(m))

ChunksInv(m) ==
  m.pc = "chunks" =>
    /\ m.next \in [ChunksOf(m) -> Int]
    /\ \A k \in ChunksOf(m) : ChunkInv(m, k)

DoneInv(m) ==
  m.pc = "done" /\ m.result # "ThreadPanicked" =>
    IF ErrorsOf(m.job) = {}
    THEN m.result = "ok" /\ \A r \in Rows(m.job) : m.out[r] = r
    ELSE m.result \in ErrorsOf(m.job)

CallInv(m) ==
  TypeInv(m) /\ ThreadsInv(m) /\ RowsInv(m) /\ ChunksInv(m) /\ DoneInv(m)

Inv ==
  /\ override \in Nat
  /\ call = [c \in Callers |-> call[c]]
  /\ \A c \in Callers : CallInv(call[c])

-----------------------------------------------------------------------------
LEMMA JobOf ==
  ASSUME GemvAssumption, NEW job \in Jobs
  PROVE  /\ job.rows \in Nat
         /\ job.kind \in {"gemv", "attention"}
         /\ DOMAIN job.errors \subseteq Rows(job)
  BY DEF GemvAssumption, Rows

(***************************************************************************)
(* A chunk has a row, and the chunks cover the rows: row r is in chunk     *)
(* r div size.                                                             *)
(***************************************************************************)
LEMMA DivCeilCovers ==
  ASSUME NEW n \in Nat, NEW size \in Nat, size > 0, NEW r \in 0 .. n - 1
  PROVE  \E k \in 0 .. DivCeil(n, size) - 1 : k * size <= r /\ r < k * size + size
  <1>1. r \in Nat /\ n - 1 \in Nat /\ n - 1 >= r
    OBVIOUS
  <1> DEFINE k == r \div size
             q == (n - 1) \div size
  <1>2. k \in Nat /\ r % size \in 0 .. size - 1 /\ r = size * k + (r % size)
    BY <1>1, DivMod
  <1>3. q \in Nat /\ (n - 1) % size \in 0 .. size - 1 /\ n - 1 = size * q + ((n - 1) % size)
    BY <1>1, DivMod
  <1>4. DivCeil(n, size) = q + 1
    <2>1. n + size - 1 \in Nat /\ n + size - 1 = size * (q + 1) + ((n - 1) % size)
      BY <1>3
    <2> HIDE DEF q
    <2>2. (n + size - 1) \div size = q + 1
      BY <1>3, <2>1, DivModUnique
    <2>3. QED
      BY <2>2 DEF DivCeil
  <1> HIDE DEF k, q
  <1>5. k <= q
    <2>1. SUFFICES ASSUME k > q PROVE FALSE
      BY <1>2, <1>3
    <2>2. size * (q + 1) <= size * k
      BY <1>2, <1>3, <2>1, q + 1 \in Nat, TimesMonotone
    <2>3. size * (q + 1) = size * q + size
      BY <1>3
    <2>4. QED
      BY <1>1, <1>2, <1>3, <2>2, <2>3
  <1>6. k * size = size * k /\ size * k \in Nat
    BY <1>2
  <1>7. k \in 0 .. DivCeil(n, size) - 1
    BY <1>2, <1>3, <1>4, <1>5
  <1>8. k * size <= r /\ r < k * size + size
    <2>1. PICK kc \in Nat : kc = size * k
      BY <1>6
    <2>2. k * size = kc /\ r = kc + (r % size)
      BY <1>2, <1>6, <2>1
    <2>3. r % size >= 0 /\ r % size < size /\ r % size \in Nat
      BY <1>2
    <2>4. QED
      BY <2>2, <2>3
  <1>9. QED
    BY <1>7, <1>8

LEMMA ChunkLenPositive ==
  ASSUME GemvAssumption, NEW job \in Jobs, job.rows > 0,
         NEW threads \in Nat, threads > 0
  PROVE  ChunkLen(job, threads) \in Nat /\ ChunkLen(job, threads) > 0
  <1>1. job.rows \in Nat /\ job.rows > 0
    BY JobOf
  <1> DEFINE a == job.rows + threads - 1
  <1>2. a \in Nat /\ a >= threads
    BY <1>1
  <1> HIDE DEF a
  <1>3. a \div threads \in Nat /\ a % threads \in 0 .. threads - 1
        /\ a = threads * (a \div threads) + (a % threads)
    BY <1>2, DivMod
  <1>4. a \div threads # 0
    BY <1>2, <1>3
  <1>5. QED
    BY <1>3, <1>4 DEF ChunkLen, DivCeil, a

-----------------------------------------------------------------------------
(***************************************************************************)
(* Every step preserves the invariant.  A step changes one call, which has *)
(* written more rows than before or as many.                               *)
(***************************************************************************)
LEMMA CallStep ==
  ASSUME Inv, NEW c \in Callers, NEW m, call' = [call EXCEPT ![c] = m],
         CallInv(m), override' = override
  PROVE  Inv'
  BY DEF Inv

LEMMA InitInv == GemvAssumption /\ Init => Inv
  <1> SUFFICES ASSUME GemvAssumption, Init PROVE Inv
    OBVIOUS
  <1>1. call \in [Callers -> { Begun(job) : job \in Jobs }] /\ override = 0
    BY DEF Init
  <1>2. ASSUME NEW c \in Callers PROVE CallInv(call[c])
    <2>1. PICK job \in Jobs : call[c] = Begun(job)
      BY <1>1
    <2>2. PICK m : m = call[c]
      OBVIOUS
    <2>3. /\ DOMAIN m = {"job", "threads", "out", "next", "failed", "pc", "result"}
          /\ m.job = job /\ m.out = [r \in Rows(job) |-> -1] /\ m.failed = {} /\ m.pc = "load"
      BY <2>1, <2>2 DEF Begun
    <2>4. TypeInv(m)
      BY <2>3 DEF TypeInv
    <2>5. QED
      BY <2>2, <2>3, <2>4 DEF CallInv, ThreadsInv, RowsInv, ChunksInv, DoneInv
  <1>3. QED
    BY <1>1, <1>2 DEF Inv

LEMMA LoadInv ==
  ASSUME GemvAssumption, Inv, NEW c \in Callers, Load(c)
  PROVE  Inv'
  <1> DEFINE m == call[c]
             threads == Threads(m.job)
             pc == IF Sequential(m.job, threads) THEN "rows" ELSE "lock"
  <1>1. /\ CallInv(m) /\ m.pc = "load" /\ override \in Nat /\ m.job \in Jobs
    BY DEF Inv, Load, CallInv, TypeInv
  <1>2. PICK n : n = [m EXCEPT !.threads = threads, !.next = [k \in {0} |-> 0], !.pc = pc]
    OBVIOUS
  <1>3. call' = [call EXCEPT ![c] = n] /\ override' = override
    BY <1>2 DEF Load
  <1>4. threads \in Nat /\ threads > 0
    BY <1>1, JobOf DEF Threads, Lesser, GemvAssumption
  <1>5. pc = "lock" => m.job.rows > 0
    BY <1>1, JobOf DEF Sequential
  <1> HIDE DEF m, threads, pc
  <1>6. DOMAIN m = {"job", "threads", "out", "next", "failed", "pc", "result"}
    BY <1>1 DEF CallInv, TypeInv
  <1>7. /\ DOMAIN n = DOMAIN m /\ n.job = m.job /\ n.out = m.out /\ n.failed = m.failed
        /\ n.threads = threads /\ n.next = [k \in {0} |-> 0] /\ n.pc = pc
    BY <1>2, <1>6
  <1>8. pc \in {"rows", "lock"}
    BY DEF pc
  <1>9. TypeInv(n)
    BY <1>1, <1>7, <1>8 DEF CallInv, TypeInv
  <1>10. ThreadsInv(n)
    BY <1>4, <1>5, <1>7, <1>8 DEF ThreadsInv
  <1>11. RowsInv(n)
    <2>1. 0 <= m.job.rows
      BY <1>1, JobOf
    <2>2. n.next[0] = 0 /\ n.next \in [{0} -> Nat]
      BY <1>7
    <2>3. QED
      BY <1>7, <2>1, <2>2 DEF RowsInv, Passed, Rows
  <1>12. CallInv(n)
    BY <1>7, <1>8, <1>9, <1>10, <1>11 DEF CallInv, ChunksInv, DoneInv
  <1>13. QED
    BY <1>3, <1>12, CallStep

LEMMA SequentialInv ==
  ASSUME GemvAssumption, Inv, NEW c \in Callers, SequentialRow(c)
  PROVE  Inv'
  <1> DEFINE r == call[c].next[0]
  <1>0. PICK m : m = call[c]
    OBVIOUS
  <1>1. /\ CallInv(m) /\ m.pc = "rows" /\ m.job \in Jobs /\ m.job.rows \in Nat
        /\ TypeInv(m) /\ r = m.next[0] /\ m.next \in [{0} -> Nat]
        /\ r \in 0 .. m.job.rows /\ Passed(m, 0, r)
    BY <1>0, JobOf DEF Inv, SequentialRow, CallInv, TypeInv, RowsInv
  <1>2. DOMAIN m = {"job", "threads", "out", "next", "failed", "pc", "result"}
    BY <1>1 DEF TypeInv
  <1>3. call' = [call EXCEPT ![c] =
            IF r = m.job.rows THEN [m EXCEPT !.pc = "done", !.result = "ok"]
            ELSE IF r \in DOMAIN m.job.errors
            THEN [m EXCEPT !.pc = "done", !.result = m.job.errors[r]]
            ELSE [m EXCEPT !.out[r] = r, !.next[0] = r + 1]]
    BY <1>0 DEF SequentialRow
  <1>4. override' = override
    BY DEF SequentialRow
  <1> HIDE DEF r
  <1>5. CASE r = m.job.rows
    <2>1. PICK n : n = [m EXCEPT !.pc = "done", !.result = "ok"]
      OBVIOUS
    <2>2. /\ DOMAIN n = DOMAIN m /\ n.job = m.job /\ n.out = m.out /\ n.failed = m.failed
          /\ n.pc = "done" /\ n.result = "ok"
      BY <1>2, <2>1
    <2>3. /\ \A i \in Rows(m.job) : m.out[i] = i /\ i \notin DOMAIN m.job.errors
          /\ DOMAIN m.job.errors \subseteq Rows(m.job)
      BY <1>1, <1>5, JobOf DEF Passed, Rows
    <2>4. ErrorsOf(m.job) = {}
      BY <2>3 DEF ErrorsOf
    <2>5. CallInv(n)
      BY <1>1, <2>2, <2>3, <2>4 DEF CallInv, TypeInv, ThreadsInv, RowsInv, ChunksInv, DoneInv
    <2>6. call' = [call EXCEPT ![c] = n]
      BY <1>3, <1>5, <2>1
    <2>7. QED
      BY <1>4, <2>5, <2>6, CallStep
  <1>6. CASE r # m.job.rows /\ r \in DOMAIN m.job.errors
    <2>1. PICK n : n = [m EXCEPT !.pc = "done", !.result = m.job.errors[r]]
      OBVIOUS
    <2>2. /\ DOMAIN n = DOMAIN m /\ n.job = m.job /\ n.out = m.out /\ n.failed = m.failed
          /\ n.pc = "done" /\ n.result = m.job.errors[r]
      BY <1>2, <2>1
    <2>3. n.result \in ErrorsOf(m.job)
      BY <1>6, <2>2 DEF ErrorsOf
    <2>4. CallInv(n)
      BY <1>1, <2>2, <2>3 DEF CallInv, TypeInv, ThreadsInv, RowsInv, ChunksInv, DoneInv
    <2>5. call' = [call EXCEPT ![c] = n]
      BY <1>3, <1>6, <2>1
    <2>6. QED
      BY <1>4, <2>4, <2>5, CallStep
  <1>7. CASE r # m.job.rows /\ r \notin DOMAIN m.job.errors
    <2>1. PICK n : n = [m EXCEPT !.out[r] = r, !.next[0] = r + 1]
      OBVIOUS
    <2>2. /\ DOMAIN n = DOMAIN m /\ n.job = m.job /\ n.failed = m.failed /\ n.pc = m.pc
          /\ n.out = [m.out EXCEPT ![r] = r] /\ n.next = [m.next EXCEPT ![0] = r + 1]
      BY <1>2, <2>1
    <2>3. r \in Rows(m.job) /\ m.out \in [Rows(m.job) -> Int]
      BY <1>1, <1>7 DEF Rows, TypeInv
    <2>4. /\ n.out \in [Rows(m.job) -> Int]
          /\ \A i \in Rows(m.job) : n.out[i] = IF i = r THEN r ELSE m.out[i]
          /\ n.next \in [{0} -> Nat] /\ n.next[0] = r + 1
      BY <1>1, <2>2, <2>3 DEF Rows
    <2>5. TypeInv(n)
      BY <1>1, <2>2, <2>3, <2>4 DEF TypeInv
    <2>6. Passed(n, 0, r + 1) /\ r + 1 <= m.job.rows
      BY <1>1, <1>7, <2>2, <2>3, <2>4 DEF Passed, Rows
    <2>7. CallInv(n)
      BY <1>1, <2>2, <2>4, <2>5, <2>6 DEF CallInv, ThreadsInv, RowsInv, ChunksInv, DoneInv
    <2>8. call' = [call EXCEPT ![c] = n]
      BY <1>3, <1>7, <2>1
    <2>9. QED
      BY <1>4, <2>7, <2>8, CallStep
  <1>8. QED
    BY <1>5, <1>6, <1>7

\* What is known of a call that runs chunks.
LEMMA ChunksOfCall ==
  ASSUME GemvAssumption, Inv, NEW c \in Callers, NEW m, m = call[c],
         m.pc \in {"pool", "chunks"}
  PROVE  /\ TypeInv(m) /\ m.job \in Jobs /\ m.job.rows \in Nat
         /\ DOMAIN m = {"job", "threads", "out", "next", "failed", "pc", "result"}
         /\ m.threads \in Nat /\ m.threads > 0 /\ m.job.rows > 0
         /\ LenOf(m) \in Nat /\ LenOf(m) > 0
         /\ Chunks(c) = ChunksOf(m)
         /\ \A k : ChunkStart(c, k) = k * LenOf(m)
         /\ m.pc = "chunks" => m.next \in [ChunksOf(m) -> Int]
         /\ m.pc = "chunks" => \A k \in ChunksOf(m) : ChunkInv(m, k)
  <1>1. CallInv(m)
    BY DEF Inv
  <1>2. /\ TypeInv(m) /\ m.job \in Jobs
        /\ DOMAIN m = {"job", "threads", "out", "next", "failed", "pc", "result"}
        /\ m.threads \in Nat /\ m.threads > 0 /\ m.job.rows > 0
    BY <1>1 DEF CallInv, TypeInv, ThreadsInv
  <1>3. /\ m.job.rows \in Nat
        /\ LenOf(m) \in Nat /\ LenOf(m) > 0
    BY <1>2, JobOf, ChunkLenPositive DEF LenOf
  <1>4. Chunks(c) = ChunksOf(m) /\ \A k : ChunkStart(c, k) = k * LenOf(m)
    BY DEF Chunks, ChunksOf, LenOf, ChunkStart
  <1>5. m.pc = "chunks" => m.next \in [ChunksOf(m) -> Int] /\ \A k \in ChunksOf(m) : ChunkInv(m, k)
    BY <1>1 DEF CallInv, ChunksInv
  <1>6. QED
    BY <1>2, <1>3, <1>4, <1>5

LEMMA PoolInv ==
  ASSUME GemvAssumption, Inv, NEW c \in Callers,
         Lock(c) \/ UsePool(c) \/ BuildFails(c)
  PROVE  Inv'
  <1>0. PICK m : m = call[c]
    OBVIOUS
  <1>1. /\ CallInv(m) /\ TypeInv(m) /\ override' = override
        /\ DOMAIN m = {"job", "threads", "out", "next", "failed", "pc", "result"}
    BY <1>0 DEF Inv, CallInv, TypeInv, Lock, UsePool, BuildFails
  <1>2. CASE Lock(c)
    <2>1. PICK n : n = [m EXCEPT !.pc = "pool"]
      OBVIOUS
    <2>2. /\ DOMAIN n = DOMAIN m /\ n.job = m.job /\ n.out = m.out /\ n.failed = m.failed
          /\ n.threads = m.threads /\ n.pc = "pool"
      BY <1>1, <2>1
    <2>3. m.pc = "lock" /\ call' = [call EXCEPT ![c] = n]
      BY <1>0, <1>2, <2>1 DEF Lock
    <2>4. CallInv(n)
      BY <1>1, <2>2, <2>3 DEF CallInv, TypeInv, ThreadsInv, RowsInv, ChunksInv, DoneInv
    <2>5. QED
      BY <1>1, <2>3, <2>4, CallStep
  <1>3. CASE UsePool(c)
    <2>1. PICK n : n = [m EXCEPT !.next = [k \in Chunks(c) |-> -1], !.pc = "chunks"]
      OBVIOUS
    <2>2. /\ DOMAIN n = DOMAIN m /\ n.job = m.job /\ n.out = m.out /\ n.failed = m.failed
          /\ n.threads = m.threads /\ n.pc = "chunks" /\ n.next = [k \in Chunks(c) |-> -1]
      BY <1>1, <2>1
    <2>3. m.pc = "pool" /\ call' = [call EXCEPT ![c] = n]
      BY <1>0, <1>3, <2>1 DEF UsePool
    <2>4. Chunks(c) = ChunksOf(m) /\ ChunksOf(n) = ChunksOf(m)
      BY <1>0, <2>2, <2>3, ChunksOfCall DEF ChunksOf, LenOf
    <2>5. ChunksInv(n)
      BY <2>2, <2>4 DEF ChunksInv, ChunkInv
    <2>6. CallInv(n)
      BY <1>1, <2>2, <2>3, <2>5 DEF CallInv, TypeInv, ThreadsInv, RowsInv, DoneInv
    <2>7. QED
      BY <1>1, <2>3, <2>6, CallStep
  <1>4. CASE BuildFails(c)
    <2>1. PICK n : n = [m EXCEPT !.pc = "done", !.result = "ThreadPanicked"]
      OBVIOUS
    <2>2. /\ DOMAIN n = DOMAIN m /\ n.job = m.job /\ n.out = m.out /\ n.failed = m.failed
          /\ n.pc = "done" /\ n.result = "ThreadPanicked"
      BY <1>1, <2>1
    <2>3. call' = [call EXCEPT ![c] = n]
      BY <1>0, <1>4, <2>1 DEF BuildFails
    <2>4. CallInv(n)
      BY <1>1, <2>2 DEF CallInv, TypeInv, ThreadsInv, RowsInv, ChunksInv, DoneInv
    <2>5. QED
      BY <1>1, <2>3, <2>4, CallStep
  <1>5. QED
    BY <1>2, <1>3, <1>4

\* A step of one chunk, which keeps what has been written.
ChunkTurn(c, k, m, n, at) ==
  /\ m = call[c] /\ m.pc = "chunks" /\ k \in DOMAIN m.next
  /\ call' = [call EXCEPT ![c] = n]
  /\ override' = override
  /\ DOMAIN n = DOMAIN m /\ n.job = m.job /\ n.threads = m.threads /\ n.pc = m.pc
  /\ n.out \in [Rows(m.job) -> Int]
  /\ \A r \in Rows(m.job) : n.out[r] = m.out[r] \/ n.out[r] = r
  /\ m.failed \subseteq n.failed /\ n.failed \subseteq ErrorsOf(m.job)
  /\ at \in Int /\ n.next = [m.next EXCEPT ![k] = at]
  /\ ChunkInv(n, k)

LEMMA ChunkStep ==
  ASSUME GemvAssumption, Inv, NEW c \in Callers, NEW m, NEW k, NEW n, NEW at,
         ChunkTurn(c, k, m, n, at)
  PROVE  Inv'
  <1>0. /\ m = call[c] /\ m.pc = "chunks" /\ k \in DOMAIN m.next
        /\ call' = [call EXCEPT ![c] = n] /\ override' = override
        /\ DOMAIN n = DOMAIN m /\ n.job = m.job /\ n.threads = m.threads /\ n.pc = m.pc
        /\ n.out \in [Rows(m.job) -> Int]
        /\ \A r \in Rows(m.job) : n.out[r] = m.out[r] \/ n.out[r] = r
        /\ m.failed \subseteq n.failed /\ n.failed \subseteq ErrorsOf(m.job)
        /\ at \in Int /\ n.next = [m.next EXCEPT ![k] = at] /\ ChunkInv(n, k)
    BY DEF ChunkTurn
  <1>1. /\ TypeInv(m) /\ LenOf(n) = LenOf(m) /\ ChunksOf(n) = ChunksOf(m)
        /\ m.next \in [ChunksOf(m) -> Int] /\ \A j \in ChunksOf(m) : ChunkInv(m, j)
        /\ m.threads \in Nat /\ m.threads > 0 /\ m.job.rows > 0
    BY <1>0, ChunksOfCall DEF LenOf, ChunksOf
  <1>2. TypeInv(n)
    BY <1>0, <1>1 DEF TypeInv
  <1>3. k \in ChunksOf(m) /\ n.next \in [ChunksOf(m) -> Int]
        /\ \A j \in ChunksOf(m) : n.next[j] = IF j = k THEN at ELSE m.next[j]
    BY <1>0, <1>1
  <1>4. ASSUME NEW i, NEW j, Passed(m, i, j) PROVE Passed(n, i, j)
    BY <1>0, <1>4 DEF Passed
  <1>5. ASSUME NEW j \in ChunksOf(m), j # k PROVE ChunkInv(n, j)
    <2>1. n.next[j] = m.next[j] /\ ChunkInv(m, j)
      BY <1>0, <1>1, <1>3, <1>5
    <2> HIDE DEF Passed
    <2>2. QED
      BY <1>0, <1>1, <1>4, <2>1 DEF ChunkInv
  <1>6. ChunksInv(n)
    BY <1>0, <1>1, <1>3, <1>5 DEF ChunksInv
  <1>7. CallInv(n)
    BY <1>0, <1>1, <1>2, <1>6 DEF CallInv, ThreadsInv, RowsInv, DoneInv
  <1>8. QED
    BY <1>0, <1>7, CallStep

LEMMA ChunkTurnInv ==
  ASSUME GemvAssumption, Inv, NEW c \in Callers, NEW k \in DOMAIN call[c].next,
         BeginChunk(c, k) \/ SkipChunk(c, k)
  PROVE  Inv'
  <1>0. PICK m : m = call[c]
    OBVIOUS
  <1>1. PICK at \in Int :
          /\ call' = [call EXCEPT ![c].next[k] = at]
          /\ at = 0 \/ (at = Ended /\ m.failed # {})
    BY <1>0 DEF BeginChunk, SkipChunk, Ended
  <1>2. m.pc = "chunks" /\ override' = override
    BY <1>0 DEF BeginChunk, SkipChunk
  <1>3. PICK n : n = [m EXCEPT !.next[k] = at]
    OBVIOUS
  <1>4. /\ TypeInv(m) /\ LenOf(m) \in Nat /\ LenOf(m) > 0
        /\ DOMAIN m = {"job", "threads", "out", "next", "failed", "pc", "result"}
        /\ m.next \in [ChunksOf(m) -> Int] /\ k \in ChunksOf(m)
    BY <1>0, <1>2, ChunksOfCall
  <1>5. /\ DOMAIN n = DOMAIN m /\ n.job = m.job /\ n.threads = m.threads /\ n.pc = m.pc
        /\ n.out = m.out /\ n.failed = m.failed /\ n.next = [m.next EXCEPT ![k] = at]
    BY <1>3, <1>4
  <1>6. n.next[k] = at /\ LenOf(n) = LenOf(m)
    BY <1>4, <1>5 DEF LenOf
  <1>7. CASE at = 0
    <2>1. k * LenOf(m) \in Int /\ 0 \in 0 .. LenOf(m)
      BY <1>4 DEF ChunksOf
    <2>2. Passed(n, k * LenOf(m), k * LenOf(m) + 0)
      BY <2>1, <1>4 DEF Passed, Rows
    <2>3. ChunkInv(n, k)
      BY <1>6, <1>7, <2>1, <2>2 DEF ChunkInv
    <2>4. call' = [call EXCEPT ![c] = n]
      BY <1>0, <1>1, <1>3
    <2>5. QED
      <3>1. ChunkTurn(c, k, m, n, at)
        BY <1>0, <1>2, <1>4, <1>5, <2>3, <2>4 DEF ChunkTurn, TypeInv
      <3>2. QED
        BY <3>1, ChunkStep
  <1>8. CASE at = Ended /\ m.failed # {}
    <2>1. ChunkInv(n, k)
      BY <1>5, <1>6, <1>8 DEF ChunkInv
    <2>2. call' = [call EXCEPT ![c] = n]
      BY <1>0, <1>1, <1>3
    <2>3. QED
      <3>1. ChunkTurn(c, k, m, n, at)
        BY <1>0, <1>2, <1>4, <1>5, <2>1, <2>2 DEF ChunkTurn, TypeInv
      <3>2. QED
        BY <3>1, ChunkStep
  <1>9. QED
    BY <1>1, <1>7, <1>8

(***************************************************************************)
(* The rows of a chunk are at its start, where they are written too, so    *)
(* that what it passes is the next row of the product.                     *)
(***************************************************************************)
LEMMA ChunkRowInv ==
  ASSUME GemvAssumption, Inv, NEW c \in Callers, NEW k \in DOMAIN call[c].next,
         ChunkRow(c, k)
  PROVE  Inv'
  <1> DEFINE m == call[c]
             offset == m.next[k]
             r == k * LenOf(m) + offset
  <1>0. m = call[c]
    OBVIOUS
  <1>1. m.pc = "chunks" /\ offset >= 0 /\ override' = override
    BY <1>0 DEF ChunkRow
  <1>2. /\ TypeInv(m) /\ m.job \in Jobs /\ m.job.rows \in Nat
        /\ DOMAIN m = {"job", "threads", "out", "next", "failed", "pc", "result"}
        /\ LenOf(m) \in Nat /\ LenOf(m) > 0
        /\ ChunkStart(c, k) = k * LenOf(m)
        /\ m.next \in [ChunksOf(m) -> Int] /\ k \in ChunksOf(m)
        /\ ChunkInv(m, k)
    BY <1>0, <1>1, ChunksOfCall
  <1>3. /\ offset \in 0 .. LenOf(m)
        /\ Passed(m, k * LenOf(m), k * LenOf(m) + offset)
    BY <1>1, <1>2 DEF ChunkInv, Ended
  <1>4. call' = [call EXCEPT ![c] =
            IF offset = LenOf(m) \/ r >= m.job.rows THEN [m EXCEPT !.next[k] = Ended]
            ELSE IF r \in DOMAIN m.job.errors
            THEN [m EXCEPT !.next[k] = Ended, !.failed = m.failed \cup {m.job.errors[r]}]
            ELSE [m EXCEPT !.out[r] = r, !.next[k] = offset + 1]]
    <2> DEFINE dst == k * ChunkLen(call[c].job, call[c].threads) + call[c].next[k]
               row == ChunkStart(c, k) + call[c].next[k]
               Moved(i, j) ==
                 [call EXCEPT ![c] =
                    IF call[c].next[k] = ChunkLen(call[c].job, call[c].threads)
                         \/ i >= call[c].job.rows THEN [call[c] EXCEPT !.next[k] = Ended]
                    ELSE IF j \in DOMAIN call[c].job.errors
                    THEN [call[c] EXCEPT !.next[k] = Ended, !.failed = call[c].failed \cup {call[c].job.errors[j]}]
                    ELSE [call[c] EXCEPT !.out[i] = j, !.next[k] = call[c].next[k] + 1]]
    <2>1. call' = Moved(dst, row)
      BY DEF ChunkRow
    <2>2. dst = r /\ row = r
      BY <1>0, <1>2 DEF LenOf
    <2> HIDE DEF dst, row, r, Moved
    <2>3. call' = Moved(r, r)
      BY <2>1, <2>2
    <2>4. Moved(r, r) = [call EXCEPT ![c] =
            IF offset = LenOf(m) \/ r >= m.job.rows THEN [m EXCEPT !.next[k] = Ended]
            ELSE IF r \in DOMAIN m.job.errors
            THEN [m EXCEPT !.next[k] = Ended, !.failed = m.failed \cup {m.job.errors[r]}]
            ELSE [m EXCEPT !.out[r] = r, !.next[k] = offset + 1]]
      BY DEF Moved, LenOf
    <2>5. QED
      BY <2>3, <2>4
  <1> HIDE DEF m
  <1>5. k \in Nat /\ k * LenOf(m) \in Nat /\ r \in Nat
    BY <1>2, <1>3, TimesMonotone DEF ChunksOf
  <1>6. m.out \in [Rows(m.job) -> Int] /\ m.failed \subseteq ErrorsOf(m.job)
    BY <1>2 DEF TypeInv
  <1>7. CASE offset = LenOf(m) \/ r >= m.job.rows
    <2>1. PICK n : n = [m EXCEPT !.next[k] = Ended]
      OBVIOUS
    <2>2. /\ DOMAIN n = DOMAIN m /\ n.job = m.job /\ n.threads = m.threads /\ n.pc = m.pc
          /\ n.out = m.out /\ n.failed = m.failed /\ n.next = [m.next EXCEPT ![k] = Ended]
      BY <1>2, <2>1
    <2>3. n.next[k] = Ended /\ LenOf(n) = LenOf(m)
      BY <1>2, <2>2 DEF LenOf
    <2>4. Passed(n, k * LenOf(m), k * LenOf(m) + LenOf(m))
      BY <1>2, <1>3, <1>5, <1>7, <2>2 DEF Passed, Rows
    <2>5. ChunkInv(n, k)
      BY <2>3, <2>4 DEF ChunkInv
    <2> HIDE DEF r, offset
    <2>6. call' = [call EXCEPT ![c] = n]
      BY <1>4, <1>7, <2>1
    <2>7. Ended \in Int
      BY DEF Ended
    <2>8. QED
      <3>1. ChunkTurn(c, k, m, n, Ended)
        BY <1>0, <1>1, <1>2, <1>6, <2>2, <2>5, <2>6, <2>7 DEF ChunkTurn
      <3>2. QED
        BY <3>1, ChunkStep
  <1>8. CASE ~(offset = LenOf(m) \/ r >= m.job.rows) /\ r \in DOMAIN m.job.errors
    <2>1. PICK n : n = [m EXCEPT !.next[k] = Ended, !.failed = m.failed \cup {m.job.errors[r]}]
      OBVIOUS
    <2>2. /\ DOMAIN n = DOMAIN m /\ n.job = m.job /\ n.threads = m.threads /\ n.pc = m.pc
          /\ n.out = m.out /\ n.failed = m.failed \cup {m.job.errors[r]}
          /\ n.next = [m.next EXCEPT ![k] = Ended]
      BY <1>2, <2>1
    <2>3. n.next[k] = Ended /\ n.failed # {} /\ n.failed \subseteq ErrorsOf(m.job)
      BY <1>2, <1>6, <1>8, <2>2 DEF ErrorsOf
    <2>4. ChunkInv(n, k)
      BY <2>3 DEF ChunkInv
    <2>5. call' = [call EXCEPT ![c] = n] /\ Ended \in Int
      BY <1>4, <1>8, <2>1 DEF Ended
    <2>6. QED
      <3>1. ChunkTurn(c, k, m, n, Ended)
        BY <1>0, <1>1, <1>2, <1>6, <2>2, <2>3, <2>4, <2>5 DEF ChunkTurn
      <3>2. QED
        BY <3>1, ChunkStep
  <1>9. CASE ~(offset = LenOf(m) \/ r >= m.job.rows) /\ r \notin DOMAIN m.job.errors
    <2>1. PICK n : n = [m EXCEPT !.out[r] = r, !.next[k] = offset + 1]
      OBVIOUS
    <2>2. /\ DOMAIN n = DOMAIN m /\ n.job = m.job /\ n.threads = m.threads /\ n.pc = m.pc
          /\ n.out = [m.out EXCEPT ![r] = r] /\ n.failed = m.failed
          /\ n.next = [m.next EXCEPT ![k] = offset + 1]
      BY <1>2, <2>1
    <2>3. r \in Rows(m.job) /\ offset + 1 \in 0 .. LenOf(m) /\ offset + 1 \in Int
      BY <1>2, <1>3, <1>5, <1>9 DEF Rows
    <2> HIDE DEF r
    <2>4. /\ n.out \in [Rows(m.job) -> Int]
          /\ \A i \in Rows(m.job) : n.out[i] = IF i = r THEN r ELSE m.out[i]
      BY <1>6, <2>2, <2>3, \A i \in Rows(m.job) : i \in Int DEF Rows
    <2>5. n.next[k] = offset + 1 /\ LenOf(n) = LenOf(m)
      BY <1>2, <2>2 DEF LenOf
    <2>6. Passed(n, k * LenOf(m), k * LenOf(m) + (offset + 1))
      <3> SUFFICES ASSUME NEW i \in Rows(m.job), k * LenOf(m) <= i, i < k * LenOf(m) + (offset + 1)
                   PROVE  n.out[i] = i /\ i \notin DOMAIN m.job.errors
        BY <2>2 DEF Passed
      <3>1. i \in Nat
        BY <1>2 DEF Rows
      <3>2. i < k * LenOf(m) + offset \/ i = r
        BY <1>3, <1>5, <3>1 DEF r
      <3>3. QED
        BY <1>3, <1>9, <2>4, <3>2 DEF Passed
    <2>7. ChunkInv(n, k)
      BY <2>3, <2>5, <2>6 DEF ChunkInv
    <2>8. call' = [call EXCEPT ![c] = n]
      BY <1>4, <1>9, <2>1
    <2> DEFINE at == offset + 1
    <2>9. at \in Int
      BY <2>3
    <2>10. /\ \A i \in Rows(m.job) : n.out[i] = m.out[i] \/ n.out[i] = i
           /\ n.next = [m.next EXCEPT ![k] = at]
           /\ n.out \in [Rows(m.job) -> Int]
           /\ m.failed \subseteq n.failed /\ n.failed \subseteq ErrorsOf(m.job)
           /\ k \in DOMAIN m.next
      BY <1>0, <1>6, <2>2, <2>4, <2>9
    <2> HIDE DEF offset, at
    <2>11. QED
      <3>1. ChunkTurn(c, k, m, n, at)
        BY <1>0, <1>1, <1>2, <2>2, <2>7, <2>8, <2>9, <2>10 DEF ChunkTurn
      <3>2. QED
        BY <3>1, ChunkStep
  <1>10. QED
    BY <1>7, <1>8, <1>9

\* All chunks are over and none has failed: together they have passed all rows.
LEMMA JoinInv ==
  ASSUME GemvAssumption, Inv, NEW c \in Callers, Join(c)
  PROVE  Inv'
  <1>0. PICK m : m = call[c]
    OBVIOUS
  <1>1. PICK result \in (IF m.failed = {} THEN {"ok"} ELSE m.failed) :
          call' = [call EXCEPT ![c].pc = "done", ![c].result = result]
    BY <1>0 DEF Join
  <1>2. m.pc = "chunks" /\ override' = override /\ \A k \in DOMAIN m.next : m.next[k] = Ended
    BY <1>0 DEF Join
  <1>3. /\ TypeInv(m) /\ m.job \in Jobs /\ m.job.rows \in Nat
        /\ DOMAIN m = {"job", "threads", "out", "next", "failed", "pc", "result"}
        /\ LenOf(m) \in Nat /\ LenOf(m) > 0
        /\ m.next \in [ChunksOf(m) -> Int]
        /\ \A k \in ChunksOf(m) : ChunkInv(m, k)
    BY <1>0, <1>2, ChunksOfCall
  <1>4. PICK n : n = [m EXCEPT !.pc = "done", !.result = result]
    OBVIOUS
  <1>5. /\ DOMAIN n = DOMAIN m /\ n.job = m.job /\ n.out = m.out /\ n.failed = m.failed
        /\ n.pc = "done" /\ n.result = result
    BY <1>3, <1>4
  <1>6. ASSUME m.failed = {}, NEW r \in Rows(m.job)
        PROVE  m.out[r] = r /\ r \notin DOMAIN m.job.errors
    <2>1. r \in 0 .. m.job.rows - 1
      BY DEF Rows
    <2>2. PICK k \in 0 .. DivCeil(m.job.rows, LenOf(m)) - 1 :
            k * LenOf(m) <= r /\ r < k * LenOf(m) + LenOf(m)
      BY <1>3, <2>1, DivCeilCovers
    <2>3. k \in ChunksOf(m)
      BY DEF ChunksOf
    <2>4. m.next[k] = Ended /\ ChunkInv(m, k)
      BY <1>2, <1>3, <2>3
    <2>5. Passed(m, k * LenOf(m), k * LenOf(m) + LenOf(m))
      BY <1>3, <1>6, <2>4 DEF ChunkInv, Ended
    <2>6. QED
      BY <2>2, <2>5 DEF Passed
  <1>7. DoneInv(n)
    <2>1. CASE m.failed = {}
      <3>1. ErrorsOf(m.job) = {}
        BY <1>3, <1>6, <2>1, JobOf DEF ErrorsOf
      <3>2. QED
        BY <1>1, <1>5, <1>6, <2>1, <3>1 DEF DoneInv
    <2>2. CASE m.failed # {}
      BY <1>1, <1>3, <1>5, <2>2 DEF DoneInv, TypeInv
    <2>3. QED
      BY <2>1, <2>2
  <1>8. CallInv(n)
    BY <1>3, <1>5, <1>7 DEF CallInv, TypeInv, ThreadsInv, RowsInv, ChunksInv
  <1>9. call' = [call EXCEPT ![c] = n]
    BY <1>0, <1>1, <1>4
  <1>10. QED
    BY <1>2, <1>8, <1>9, CallStep

LEMMA StepInv == GemvAssumption /\ Inv /\ [Next]_vars => Inv'
  <1> SUFFICES ASSUME GemvAssumption, Inv, [Next]_vars PROVE Inv'
    OBVIOUS
  <1>1. ASSUME NEW n \in Counts, SetThreadCount(n) PROVE Inv'
    BY <1>1 DEF Inv, SetThreadCount, GemvAssumption
  <1>2. ASSUME NEW c \in Callers, CallerNext(c) PROVE Inv'
    BY <1>2, LoadInv, SequentialInv, PoolInv, ChunkTurnInv, ChunkRowInv, JoinInv DEF CallerNext
  <1>3. ASSUME UNCHANGED vars PROVE Inv'
    BY <1>3 DEF vars, Inv
  <1>4. QED
    BY <1>1, <1>2, <1>3 DEF Next

(***************************************************************************)
(* A product or an attention over several threads gives the rows, or one   *)
(* of the errors, that one thread would give (gemv_rows,                   *)
(* attention_all_heads).                                                   *)
(***************************************************************************)
THEOREM ParallelIsSequential ==
  ASSUME GemvAssumption
  PROVE  Spec => []ResultIsSequential
  <1>1. Inv => ResultIsSequential
    <2> SUFFICES ASSUME Inv, NEW c \in Callers
                 PROVE  /\ \A r \in Rows(call[c].job) : call[c].out[r] \in {-1, r}
                        /\ Done(c) =>
                             IF Errors(c) = {}
                             THEN call[c].result = "ok" /\ \A r \in Rows(call[c].job) : call[c].out[r] = r
                             ELSE call[c].result \in Errors(c)
      BY DEF ResultIsSequential
    <2>1. TypeInv(call[c]) /\ DoneInv(call[c]) /\ Errors(c) = ErrorsOf(call[c].job)
      BY DEF Inv, CallInv, Errors, ErrorsOf
    <2>2. QED
      BY <2>1 DEF TypeInv, DoneInv, Done
  <1>2. QED
    BY <1>1, InitInv, StepInv, PTL DEF Spec

-----------------------------------------------------------------------------
(***************************************************************************)
(* The logits of a call are those of the tokens up to its own, for every   *)
(* number of layers and heads, every choice of the matrices' formats and   *)
(* every sequence of calls.                                                *)
(*                                                                         *)
(* What a layer knows between two of its steps is a set of pairs: a buffer *)
(* and the name of the value it holds, or "cache" and "kv" when the layer  *)
(* has stored this position.  A list of steps takes one such set to        *)
(* another if there is one for each place between two steps: lists compose *)
(* as the formats of the matrices compose them.                            *)
(***************************************************************************)
Meanings ==
  { "x", "h1", "q0", "q1", "q2", "k0", "k1", "k2", "v0", "v1", "kv", "attn", "o", "x1", "h2", "gate", "up", "ff", "d",
    "x2", "h3", "logits" }
Facts == (Names \cup {"cache"}) \X Meanings
Ops == [op : {"compute"}, reads : SUBSET Facts, out : Names, gives : Meanings]
         \cup [op : {"store", "attention"}]

\* What stays known when a step writes the buffer out.
Written(K, into, gives) == {r \in K : r[1] # into} \cup {<<into, gives>>}

Takes(K, s, L) ==
  CASE s.op = "compute"   -> /\ s.reads \subseteq K /\ L \subseteq Written(K, s.out, s.gives)
                             /\ \A r \in s.reads : r[1] \in Names /\ r[2] # "x2"
    [] s.op = "store"     -> <<"k", "k2">> \in K /\ <<"v", "v1">> \in K /\ L \subseteq K \cup {<<"cache", "kv">>}
    [] s.op = "attention" -> <<"q", "q2">> \in K /\ <<"cache", "kv">> \in K /\ L \subseteq Written(K, "attn", "attn")

IsFlow(f, s, K, L) ==
  /\ f \in [1 .. Len(s) + 1 -> SUBSET Facts]
  /\ f[1] \subseteq K /\ L \subseteq f[Len(s) + 1]
  /\ \A i \in 1 .. Len(s) : Takes(f[i], s[i], f[i + 1])

Flows(s, K, L) == s \in Seq(Ops) /\ \E f : IsFlow(f, s, K, L)

LEMMA TakesLess ==
  ASSUME NEW K, NEW s, NEW L, NEW M, s \in Ops, Takes(K, s, L), M \subseteq L
  PROVE  Takes(K, s, M)
<1>1. CASE s.op = "compute"
  BY <1>1 DEF Takes
<1>2. CASE s.op = "store"
  BY <1>2 DEF Takes
<1>3. CASE s.op = "attention"
  BY <1>3 DEF Takes
<1> QED
  BY <1>1, <1>2, <1>3 DEF Ops

LEMMA NothingFlows ==
  ASSUME NEW K \in SUBSET Facts, NEW L, L \subseteq K
  PROVE  Flows(<<>>, K, L)
<1> DEFINE f == [i \in 1 .. Len(<<>>) + 1 |-> K]
<1>1. <<>> \in Seq(Ops) /\ Len(<<>>) = 0
  OBVIOUS
<1>2. f[1] = K /\ f[Len(<<>>) + 1] = K /\ f \in [1 .. Len(<<>>) + 1 -> SUBSET Facts] /\ 1 .. Len(<<>>) = {}
  BY <1>1
<1> HIDE DEF f
<1>3. IsFlow(f, <<>>, K, L)
  BY <1>2 DEF IsFlow
<1> QED
  BY <1>1, <1>3 DEF Flows

LEMMA OneFlows ==
  ASSUME NEW K \in SUBSET Facts, NEW L \in SUBSET Facts, NEW s \in Ops, Takes(K, s, L)
  PROVE  Flows(<<s>>, K, L)
<1> DEFINE f == [i \in 1 .. 2 |-> IF i = 1 THEN K ELSE L]
<1>1. <<s>> \in Seq(Ops) /\ Len(<<s>>) = 1 /\ <<s>>[1] = s
  OBVIOUS
<1>2. f[1] = K /\ f[2] = L /\ f \in [1 .. 2 -> SUBSET Facts]
  OBVIOUS
<1> HIDE DEF f
<1>3. Len(<<s>>) + 1 = 2 /\ \A i \in 1 .. Len(<<s>>) : i = 1 /\ i + 1 = 2
  BY <1>1
<1>4. \A i \in 1 .. Len(<<s>>) : Takes(f[i], <<s>>[i], f[i + 1])
  BY <1>1, <1>2, <1>3
<1>5. IsFlow(f, <<s>>, K, L)
  BY <1>2, <1>3, <1>4 DEF IsFlow
<1> QED
  BY <1>1, <1>5 DEF Flows

LEMMA FlowsJoin ==
  ASSUME NEW s, NEW t, NEW K, NEW L, NEW M, Flows(s, K, L), Flows(t, L, M)
  PROVE  Flows(s \o t, K, M)
<1>1. PICK f : IsFlow(f, s, K, L)
  BY DEF Flows
<1>2. PICK g : IsFlow(g, t, L, M)
  BY DEF Flows
<1>3. s \in Seq(Ops) /\ t \in Seq(Ops)
  BY DEF Flows
<1> DEFINE m == Len(s)
           n == Len(t)
           h == [i \in 1 .. m + n + 1 |-> IF i <= m THEN f[i] ELSE g[i - m]]
<1>4. m \in Nat /\ n \in Nat
  BY <1>3
<1>5. /\ s \o t \in Seq(Ops) /\ Len(s \o t) = m + n
      /\ \A i \in 1 .. m : (s \o t)[i] = s[i]
      /\ \A i \in m + 1 .. m + n : (s \o t)[i] = t[i - m]
  BY <1>3
<1>6. /\ f \in [1 .. m + 1 -> SUBSET Facts] /\ f[1] \subseteq K /\ L \subseteq f[m + 1]
      /\ \A i \in 1 .. m : Takes(f[i], s[i], f[i + 1])
  BY <1>1 DEF IsFlow
<1>7. /\ g \in [1 .. n + 1 -> SUBSET Facts] /\ g[1] \subseteq L /\ M \subseteq g[n + 1]
      /\ \A i \in 1 .. n : Takes(g[i], t[i], g[i + 1])
  BY <1>2 DEF IsFlow
<1>8. \A i \in 1 .. m : s[i] \in Ops
  BY <1>3
<1> HIDE DEF m, n
<1>9. h \in [1 .. m + n + 1 -> SUBSET Facts]
  <2>1. ASSUME NEW i \in 1 .. m + n + 1 PROVE h[i] \in SUBSET Facts
    <3>1. i <= m => i \in 1 .. m + 1
      BY <1>4
    <3>2. ~(i <= m) => i - m \in 1 .. n + 1
      BY <1>4
    <3> QED
      BY <3>1, <3>2, <1>6, <1>7
  <2> QED
    BY <2>1
<1>10. /\ \A i \in 1 .. m : h[i] = f[i]
       /\ \A i \in m + 1 .. m + n + 1 : h[i] = g[i - m]
  BY <1>4
<1> HIDE DEF h
<1>11. h[1] \subseteq K
  <2>1. CASE m = 0
    BY <2>1, <1>4, <1>6, <1>7, <1>10
  <2>2. CASE m > 0
    BY <2>2, <1>4, <1>6, <1>10
  <2> QED
    BY <2>1, <2>2, <1>4
<1>12. M \subseteq h[m + n + 1]
  BY <1>4, <1>7, <1>10
<1>13. ASSUME NEW i \in 1 .. m + n PROVE Takes(h[i], (s \o t)[i], h[i + 1])
  <2>1. CASE i < m
    <3>1. i \in 1 .. m /\ i + 1 \in 1 .. m
      BY <2>1, <1>4
    <3>2. h[i] = f[i] /\ h[i + 1] = f[i + 1] /\ (s \o t)[i] = s[i]
      BY ONLY <3>1, <1>5, <1>10, Zenon
    <3> QED
      BY <3>1, <3>2, <1>6
  <2>2. CASE i = m
    <3>1. i \in 1 .. m /\ h[i] = f[i] /\ (s \o t)[i] = s[i] /\ h[i + 1] = g[1]
      <4>1. m + 1 \in m + 1 .. m + n + 1 /\ m + 1 - m = 1 /\ m \in 1 .. m
        BY <2>2, <1>4
      <4> QED
        BY <4>1, <2>2, <1>5, <1>10
    <3>2. Takes(f[i], s[i], f[i + 1]) /\ g[1] \subseteq f[i + 1] /\ s[i] \in Ops
      BY <3>1, <2>2, <1>6, <1>7, <1>8
    <3> QED
      BY <3>1, <3>2, TakesLess
  <2>3. CASE i > m
    <3>1. PICK j \in 1 .. n : j = i - m
      BY <2>3, <1>4
    <3>2. i \in m + 1 .. m + n /\ i \in m + 1 .. m + n + 1 /\ i + 1 \in m + 1 .. m + n + 1 /\ i + 1 - m = j + 1
      BY <2>3, <3>1, <1>4
    <3>3. h[i] = g[j] /\ (s \o t)[i] = t[j]
      BY <3>1, <3>2, <1>5, <1>10
    <3>4. h[i + 1] = g[j + 1]
      <4>1. PICK k \in m + 1 .. m + n + 1 : k = i + 1 /\ k - m = j + 1
        BY <3>2, <1>4
      <4>2. h[k] = g[k - m]
        BY <1>10
      <4> QED
        BY <4>1, <4>2
    <3> QED
      BY <3>1, <3>3, <3>4, <1>7
  <2>4. i < m \/ i = m \/ i > m
    BY <1>4
  <2> QED
    BY <2>1, <2>2, <2>3, <2>4
<1>14. IsFlow(h, s \o t, K, M)
  BY <1>5, <1>9, <1>11, <1>12, <1>13 DEF IsFlow
<1> QED
  BY <1>5, <1>14 DEF Flows

LEMMA FactAdded ==
  ASSUME NEW K \in SUBSET Facts, NEW b \in Names \cup {"cache"}, NEW name \in Meanings
  PROVE  K \cup {<<b, name>>} \in SUBSET Facts
<1>1. <<b, name>> \in Facts
  BY DEF Facts
<1> QED
  BY <1>1

LEMMA TwoFlow ==
  ASSUME NEW K \in SUBSET Facts, NEW L \in SUBSET Facts, NEW M \in SUBSET Facts, NEW s \in Ops, NEW t \in Ops,
         Takes(K, s, L), Takes(L, t, M)
  PROVE  Flows(<<s, t>>, K, M)
<1>1. Flows(<<s>> \o <<t>>, K, M)
  BY OneFlows, FlowsJoin
<1>2. <<s>> \o <<t>> = <<s, t>>
  <2>1. <<s>> \in Seq(Ops) /\ <<t>> \in Seq(Ops) /\ <<s, t>> \in Seq(Ops)
    OBVIOUS
  <2>2. Len(<<s>>) = 1 /\ Len(<<t>>) = 1 /\ Len(<<s, t>>) = 2
    OBVIOUS
  <2>3. /\ Len(<<s>> \o <<t>>) = 2 /\ <<s>> \o <<t>> \in Seq(Ops)
        /\ \A i \in 1 .. 2 : (<<s>> \o <<t>>)[i] = IF i = 1 THEN s ELSE t
    BY <2>1, <2>2
  <2>4. \A i \in 1 .. 2 : <<s, t>>[i] = IF i = 1 THEN s ELSE t
    OBVIOUS
  <2>5. PICK u, v : u = <<s>> \o <<t>> /\ v = <<s, t>>
    OBVIOUS
  <2>6. u \in Seq(Ops) /\ v \in Seq(Ops) /\ Len(u) = Len(v) /\ Len(u) = 2 /\ \A i \in 1 .. 2 : u[i] = v[i]
    BY ONLY <2>1, <2>2, <2>3, <2>4, <2>5
  <2>7. u = v
    BY ONLY <2>6, SeqEqual
  <2> QED
    BY <2>5, <2>7
<1> QED
  BY <1>1, <1>2

LEMMA StepTakes ==
  ASSUME NEW K \in SUBSET Facts, NEW L, NEW reads, NEW into \in Names, NEW gives \in Meanings,
         reads \subseteq K, \A r \in reads : r[1] \in Names /\ r[2] # "x2",
         L \subseteq Written(K, into, gives)
  PROVE  Step(reads, into, gives) \in Ops /\ Takes(K, Step(reads, into, gives), L)
<1>1. /\ Step(reads, into, gives).op = "compute" /\ Step(reads, into, gives).reads = reads
      /\ Step(reads, into, gives).out = into /\ Step(reads, into, gives).gives = gives
  BY DEF Step
<1>2. Takes(K, Step(reads, into, gives), L)
  BY <1>1 DEF Takes
<1>3. Step(reads, into, gives) \in Ops
  BY DEF Step, Ops
<1> QED
  BY <1>2, <1>3

LEMMA StepFlows ==
  ASSUME NEW K \in SUBSET Facts, NEW L \in SUBSET Facts, NEW b \in Names, NEW name \in Meanings, NEW into \in Names,
         NEW gives \in Meanings, <<b, name>> \in K, name # "x2", L \subseteq Written(K, into, gives)
  PROVE  Flows(<<Step(Reads(b, name), into, gives)>>, K, L)
<1>1. Reads(b, name) \subseteq K /\ \A r \in Reads(b, name) : r[1] \in Names /\ r[2] # "x2"
  BY DEF Reads
<1> QED
  BY <1>1, StepTakes, OneFlows

\* The quantised copy that the products of a group read, if one of them does.
Copies(name, group) == IF \E m \in group : format[m] = "Q8A" THEN {<<"q8a", name>>} ELSE {}
NoCopy(K) == \A r \in K : r[1] # "q8k"
NoCopies(K) == \A r \in K : r[1] # "q8a" /\ r[1] # "q8k"

LEMMA SharedFlows ==
  ASSUME NEW K \in SUBSET Facts, NEW b \in Names, NEW name \in Meanings, NEW group,
         <<b, name>> \in K, name # "x2", NoCopies(K)
  PROVE  Flows(Shared(b, name, group), K, K \cup Copies(name, group))
<1>1. CASE \E m \in group : format[m] = "Q8A"
  <2>1. Shared(b, name, group) = <<Step(Reads(b, name), "q8a", name)>> /\ Copies(name, group) = {<<"q8a", name>>}
    BY <1>1 DEF Shared, Copies
  <2>2. K \cup {<<"q8a", name>>} \subseteq Written(K, "q8a", name)
    BY DEF Written, NoCopies
  <2>3. "q8a" \in Names /\ K \cup {<<"q8a", name>>} \in SUBSET Facts
    <3>1. "q8a" \in Names
      BY DEF Names
    <3> QED
      BY <3>1, FactAdded DEF Names
  <2>4. Flows(<<Step(Reads(b, name), "q8a", name)>>, K, K \cup {<<"q8a", name>>})
    BY <2>2, <2>3, StepFlows
  <2> QED
    BY <2>1, <2>4
<1>2. CASE ~ \E m \in group : format[m] = "Q8A"
  <2>1. Shared(b, name, group) = <<>> /\ K \cup Copies(name, group) = K
    BY <1>2 DEF Shared, Copies
  <2> QED
    BY <2>1, NothingFlows
<1> QED
  BY <1>1, <1>2

LEMMA ProductFlows ==
  ASSUME format \in Formats, NEW K \in SUBSET Facts, NEW L \in SUBSET Facts, NEW b \in Names, NEW name \in Meanings,
         NEW m \in Matrices, NEW into \in Names, NEW gives \in Meanings,
         <<b, name>> \in K, name # "x2", format[m] = "Q8A" => <<"q8a", name>> \in K, NoCopy(K),
         L \subseteq Written(K, into, gives)
  PROVE  Flows(Product(b, name, m, into, gives), K, L)
<1>1. format[m] \in {"F32", "Q8A", "Q6K"}
  BY ForwardAssumption
<1>2. CASE format[m] = "F32"
  <2>1. Product(b, name, m, into, gives) = <<Step(Reads(b, name), into, gives)>>
    BY <1>2 DEF Product
  <2> QED
    BY <2>1, StepFlows
<1>3. CASE format[m] = "Q8A"
  <2>1. Product(b, name, m, into, gives) = <<Step(Reads("q8a", name), into, gives)>>
    BY <1>3 DEF Product
  <2>2. "q8a" \in Names
    BY DEF Names
  <2> QED
    BY <2>1, <2>2, <1>3, StepFlows
<1>4. CASE format[m] = "Q6K"
  <2> DEFINE M == K \cup {<<"q8k", name>>}
             s == Step(Reads(b, name), "q8k", name)
             t == Step(Reads("q8k", name), into, gives)
  <2>1. Product(b, name, m, into, gives) = <<s, t>>
    BY <1>4 DEF Product
  <2>2. "q8k" \in Names /\ M \in SUBSET Facts
    <3>1. "q8k" \in Names
      BY DEF Names
    <3> QED
      BY <3>1, FactAdded DEF Names
  <2>3. M \subseteq Written(K, "q8k", name)
    BY DEF Written, NoCopy
  <2>4. L \subseteq Written(M, into, gives)
    BY DEF Written
  <2>5. Reads(b, name) \subseteq K /\ \A r \in Reads(b, name) : r[1] \in Names /\ r[2] # "x2"
    BY DEF Reads
  <2>6. Reads("q8k", name) \subseteq M /\ \A r \in Reads("q8k", name) : r[1] \in Names /\ r[2] # "x2"
    BY <2>2 DEF Reads
  <2> HIDE DEF M
  <2>7. s \in Ops /\ Takes(K, s, M)
    BY <2>2, <2>3, <2>5, StepTakes
  <2>8. t \in Ops /\ Takes(M, t, L)
    BY <2>2, <2>4, <2>6, StepTakes
  <2> HIDE DEF s, t
  <2> QED
    BY <2>1, <2>2, <2>7, <2>8, TwoFlow
<1> QED
  BY <1>1, <1>2, <1>3, <1>4

LEMMA OwnProductFlows ==
  ASSUME format \in Formats, NEW K \in SUBSET Facts, NEW L \in SUBSET Facts, NEW b \in Names, NEW name \in Meanings,
         NEW m \in Matrices, NEW into \in Names, NEW gives \in Meanings,
         <<b, name>> \in K, name # "x2", NoCopies(K), L \subseteq Written(K, into, gives)
  PROVE  Flows(OwnProduct(b, name, m, into, gives), K, L)
<1> DEFINE M == K \cup Copies(name, {m})
<1>1. Own(b, name, m) = Shared(b, name, {m})
  BY DEF Own, Shared
<1>2. Flows(Own(b, name, m), K, M)
  BY <1>1, SharedFlows
<1>3. M \in SUBSET Facts /\ NoCopy(M) /\ (format[m] = "Q8A" => <<"q8a", name>> \in M) /\ <<b, name>> \in M
  <2>1. M \in SUBSET Facts
    <3>1. "q8a" \in Names
      BY DEF Names
    <3> QED
      BY <3>1, FactAdded DEF Copies
  <2>2. NoCopy(M)
    BY DEF Copies, NoCopy, NoCopies
  <2> QED
    BY <2>1, <2>2 DEF Copies
<1>4. L \subseteq Written(M, into, gives)
  BY DEF Written
<1> HIDE DEF M
<1>5. Flows(Product(b, name, m, into, gives), M, L)
  BY <1>3, <1>4, ProductFlows
<1> QED
  BY <1>2, <1>5, FlowsJoin DEF OwnProduct

LEMMA Spelled ==
  /\ "x" \in Names /\ "h" \in Names /\ "q" \in Names /\ "k" \in Names /\ "v" \in Names /\ "attn" \in Names /\ "tmp_d" \in Names /\ "gate" \in Names /\ "up" \in Names /\ "ff" \in Names /\ "q8a" \in Names /\ "q8k" \in Names /\ "logits" \in Names
  /\ "x" \in Meanings /\ "h1" \in Meanings /\ "q0" \in Meanings /\ "q1" \in Meanings /\ "q2" \in Meanings /\ "k0" \in Meanings /\ "k1" \in Meanings /\ "k2" \in Meanings /\ "v0" \in Meanings /\ "v1" \in Meanings /\ "kv" \in Meanings /\ "attn" \in Meanings /\ "o" \in Meanings /\ "x1" \in Meanings /\ "h2" \in Meanings /\ "gate" \in Meanings /\ "up" \in Meanings /\ "ff" \in Meanings /\ "d" \in Meanings /\ "x2" \in Meanings /\ "h3" \in Meanings /\ "logits" \in Meanings
  /\ "wq" \in Matrices /\ "wk" \in Matrices /\ "wv" \in Matrices /\ "wo" \in Matrices /\ "w_gate" \in Matrices /\ "w_up" \in Matrices /\ "w_down" \in Matrices /\ "output" \in Matrices
  BY DEF Names, Meanings, Matrices

(***************************************************************************)
(* A layer takes x to x2, and the output head takes x to the logits.       *)
(***************************************************************************)
LEMMA LayerFlows ==
  ASSUME format \in Formats
  PROVE  Flows(LayerSteps, {<<"x", "x">>}, {<<"cache", "kv">>, <<"x", "x2">>})
<1> DEFINE A == Copies("h1", {"wq", "wk", "wv"})
           Shared2 == Copies("h2", {"w_gate", "w_up"})
           K0 == {<<"x", "x">>}
           K1 == {<<"x", "x">>, <<"h", "h1">>}
           K2 == {<<"x", "x">>, <<"h", "h1">>} \cup A
           K3 == {<<"x", "x">>, <<"h", "h1">>, <<"q", "q0">>} \cup A
           K4 == {<<"x", "x">>, <<"h", "h1">>, <<"q", "q1">>} \cup A
           K5 == {<<"x", "x">>, <<"h", "h1">>, <<"q", "q1">>, <<"k", "k0">>} \cup A
           K6 == {<<"x", "x">>, <<"h", "h1">>, <<"q", "q1">>, <<"k", "k1">>} \cup A
           K7 == {<<"x", "x">>, <<"q", "q1">>, <<"k", "k1">>, <<"v", "v0">>}
           K8 == {<<"x", "x">>, <<"q", "q1">>, <<"k", "k1">>, <<"v", "v1">>}
           K9 == {<<"x", "x">>, <<"q", "q2">>, <<"k", "k2">>, <<"v", "v1">>}
           K10 == {<<"cache", "kv">>, <<"x", "x">>, <<"attn", "attn">>}
           K11 == {<<"cache", "kv">>, <<"x", "x">>, <<"tmp_d", "o">>}
           K12 == {<<"cache", "kv">>, <<"x", "x1">>, <<"h", "h2">>}
           K13 == {<<"cache", "kv">>, <<"x", "x1">>, <<"h", "h2">>} \cup Shared2
           K14 == {<<"cache", "kv">>, <<"x", "x1">>, <<"h", "h2">>, <<"gate", "gate">>} \cup Shared2
           K15 == {<<"cache", "kv">>, <<"x", "x1">>, <<"gate", "gate">>, <<"up", "up">>}
           K16 == {<<"cache", "kv">>, <<"x", "x1">>, <<"ff", "ff">>}
           K17 == {<<"cache", "kv">>, <<"x", "x1">>, <<"tmp_d", "d">>}
           K18 == {<<"cache", "kv">>, <<"x", "x2">>}
           M9 == {<<"x", "x">>, <<"q", "q2">>, <<"k", "k1">>, <<"v", "v1">>}
           M10 == {<<"x", "x">>, <<"q", "q2">>, <<"k", "k2">>, <<"v", "v1">>, <<"cache", "kv">>}
           M12 == {<<"cache", "kv">>, <<"x", "x1">>}
           P1 == <<Step(Reads("x", "x"), "h", "h1")>>
           P2 == Shared("h", "h1", {"wq", "wk", "wv"})
           P3 == Product("h", "h1", "wq", "q", "q0")
           P4 == <<Step(Reads("q", "q0"), "q", "q1")>>
           P5 == Product("h", "h1", "wk", "k", "k0")
           P6 == <<Step(Reads("k", "k0"), "k", "k1")>>
           P7 == Product("h", "h1", "wv", "v", "v0")
           P8 == <<Step(Reads("v", "v0"), "v", "v1")>>
           P9 == <<Step(Reads("q", "q1"), "q", "q2"), Step(Reads("k", "k1"), "k", "k2")>>
           P10 == <<[op |-> "store"], [op |-> "attention"]>>
           P11 == OwnProduct("attn", "attn", "wo", "tmp_d", "o")
           P12 == <<Step(Reads("x", "x") \cup Reads("tmp_d", "o"), "x", "x1"), Step(Reads("x", "x1"), "h", "h2")>>
           P13 == Shared("h", "h2", {"w_gate", "w_up"})
           P14 == Product("h", "h2", "w_gate", "gate", "gate")
           P15 == Product("h", "h2", "w_up", "up", "up")
           P16 == <<Step(Reads("gate", "gate") \cup Reads("up", "up"), "ff", "ff")>>
           P17 == OwnProduct("ff", "ff", "w_down", "tmp_d", "d")
           P18 == <<Step(Reads("x", "x1") \cup Reads("tmp_d", "d"), "x", "x2")>>
<1>1. A \subseteq {<<"q8a", "h1">>} /\ Shared2 \subseteq {<<"q8a", "h2">>}
  BY DEF Copies
<1>2. /\ \A m \in {"wq", "wk", "wv"} : format[m] = "Q8A" => <<"q8a", "h1">> \in A
      /\ \A m \in {"w_gate", "w_up"} : format[m] = "Q8A" => <<"q8a", "h2">> \in Shared2
  BY DEF Copies
<1> HIDE DEF A, Shared2
<1>k. /\ K0 \in SUBSET Facts /\ K1 \in SUBSET Facts /\ K2 \in SUBSET Facts /\ K3 \in SUBSET Facts
      /\ K4 \in SUBSET Facts /\ K5 \in SUBSET Facts /\ K6 \in SUBSET Facts /\ K7 \in SUBSET Facts
      /\ K8 \in SUBSET Facts /\ K9 \in SUBSET Facts /\ K10 \in SUBSET Facts /\ K11 \in SUBSET Facts
      /\ K12 \in SUBSET Facts /\ K13 \in SUBSET Facts /\ K14 \in SUBSET Facts /\ K15 \in SUBSET Facts
      /\ K16 \in SUBSET Facts /\ K17 \in SUBSET Facts /\ K18 \in SUBSET Facts
      /\ M9 \in SUBSET Facts /\ M10 \in SUBSET Facts /\ M12 \in SUBSET Facts
  BY <1>1, Spelled DEF Facts
<1> HIDE DEF K0, K1, K2, K3, K4, K5, K6, K7, K8, K9, K10, K11, K12, K13, K14, K15, K16, K17, K18, M9, M10, M12
<1>p1. Flows(P1, K0, K1)
  <2>1. <<"x", "x">> \in K0 /\ K1 \subseteq Written(K0, "h", "h1")
    BY <1>1 DEF K0, K1, Written
  <2> QED
    BY <2>1, <1>k, Spelled, StepFlows
<1>p2. Flows(P2, K1, K2)
  <2>1. <<"h", "h1">> \in K1 /\ NoCopies(K1) /\ K2 = K1 \cup A
    BY DEF K1, K2, NoCopies
  <2> QED
    BY <2>1, <1>k, Spelled, SharedFlows DEF A
<1>p3. Flows(P3, K2, K3)
  <2>1. /\ <<"h", "h1">> \in K2 /\ NoCopy(K2) /\ K3 \subseteq Written(K2, "q", "q0")
        /\ format["wq"] = "Q8A" => <<"q8a", "h1">> \in K2
    BY <1>1, <1>2 DEF K2, K3, NoCopy, Written
  <2> QED
    BY <2>1, <1>k, Spelled, ProductFlows
<1>p4. Flows(P4, K3, K4)
  <2>1. <<"q", "q0">> \in K3 /\ K4 \subseteq Written(K3, "q", "q1")
    BY <1>1 DEF K3, K4, Written
  <2> QED
    BY <2>1, <1>k, Spelled, StepFlows
<1>p5. Flows(P5, K4, K5)
  <2>1. /\ <<"h", "h1">> \in K4 /\ NoCopy(K4) /\ K5 \subseteq Written(K4, "k", "k0")
        /\ format["wk"] = "Q8A" => <<"q8a", "h1">> \in K4
    BY <1>1, <1>2 DEF K4, K5, NoCopy, Written
  <2> QED
    BY <2>1, <1>k, Spelled, ProductFlows
<1>p6. Flows(P6, K5, K6)
  <2>1. <<"k", "k0">> \in K5 /\ K6 \subseteq Written(K5, "k", "k1")
    BY <1>1 DEF K5, K6, Written
  <2> QED
    BY <2>1, <1>k, Spelled, StepFlows
<1>p7. Flows(P7, K6, K7)
  <2>1. /\ <<"h", "h1">> \in K6 /\ NoCopy(K6) /\ K7 \subseteq Written(K6, "v", "v0")
        /\ format["wv"] = "Q8A" => <<"q8a", "h1">> \in K6
    BY <1>1, <1>2 DEF K6, K7, NoCopy, Written
  <2> QED
    BY <2>1, <1>k, Spelled, ProductFlows
<1>p8. Flows(P8, K7, K8)
  <2>1. <<"v", "v0">> \in K7 /\ K8 \subseteq Written(K7, "v", "v1")
    BY <1>1 DEF K7, K8, Written
  <2> QED
    BY <2>1, <1>k, Spelled, StepFlows
<1>p9. Flows(P9, K8, K9)
  <2>1. <<"q", "q1">> \in K8 /\ M9 \subseteq Written(K8, "q", "q2")
    BY <1>1 DEF K8, M9, Written
  <2>2. <<"k", "k1">> \in M9 /\ K9 \subseteq Written(M9, "k", "k2")
    BY <1>1 DEF M9, K9, Written
  <2>3. Reads("q", "q1") \subseteq K8 /\ \A r \in Reads("q", "q1") : r[1] \in Names /\ r[2] # "x2"
    BY <2>1, Spelled DEF Reads
  <2>4. Reads("k", "k1") \subseteq M9 /\ \A r \in Reads("k", "k1") : r[1] \in Names /\ r[2] # "x2"
    BY <2>2, Spelled DEF Reads
  <2>5. Step(Reads("q", "q1"), "q", "q2") \in Ops /\ Takes(K8, Step(Reads("q", "q1"), "q", "q2"), M9)
    BY <2>1, <2>3, <1>k, Spelled, StepTakes
  <2>6. Step(Reads("k", "k1"), "k", "k2") \in Ops /\ Takes(M9, Step(Reads("k", "k1"), "k", "k2"), K9)
    BY <2>2, <2>4, <1>k, Spelled, StepTakes
  <2> QED
    BY <2>5, <2>6, <1>k, TwoFlow
<1>p10. Flows(P10, K9, K10)
  <2>1. <<"k", "k2">> \in K9 /\ <<"v", "v1">> \in K9 /\ M10 \subseteq K9 \cup {<<"cache", "kv">>}
    BY DEF K9, M10
  <2>2. <<"q", "q2">> \in M10 /\ <<"cache", "kv">> \in M10 /\ K10 \subseteq Written(M10, "attn", "attn")
    BY DEF M10, K10, Written
  <2>3. [op |-> "store"] \in Ops /\ [op |-> "attention"] \in Ops
    BY DEF Ops
  <2>4. Takes(K9, [op |-> "store"], M10)
    BY <2>1 DEF Takes
  <2>5. Takes(M10, [op |-> "attention"], K10)
    BY <2>2 DEF Takes
  <2> QED
    BY <2>3, <2>4, <2>5, <1>k, TwoFlow
<1>p11. Flows(P11, K10, K11)
  <2>1. <<"attn", "attn">> \in K10 /\ NoCopies(K10) /\ K11 \subseteq Written(K10, "tmp_d", "o")
    BY DEF K10, K11, NoCopies, Written
  <2> QED
    BY <2>1, <1>k, Spelled, OwnProductFlows
<1>p12. Flows(P12, K11, K12)
  <2>1. <<"x", "x">> \in K11 /\ <<"tmp_d", "o">> \in K11 /\ M12 \subseteq Written(K11, "x", "x1")
    BY <1>1 DEF K11, M12, Written
  <2>2. <<"x", "x1">> \in M12 /\ K12 \subseteq Written(M12, "h", "h2")
    BY <1>1 DEF M12, K12, Written
  <2>3. Reads("x", "x") \cup Reads("tmp_d", "o") \subseteq K11 /\ \A r \in Reads("x", "x") \cup Reads("tmp_d", "o") : r[1] \in Names /\ r[2] # "x2"
    BY <2>1, Spelled DEF Reads
  <2>4. Reads("x", "x1") \subseteq M12 /\ \A r \in Reads("x", "x1") : r[1] \in Names /\ r[2] # "x2"
    BY <2>2, Spelled DEF Reads
  <2>5. Step(Reads("x", "x") \cup Reads("tmp_d", "o"), "x", "x1") \in Ops /\ Takes(K11, Step(Reads("x", "x") \cup Reads("tmp_d", "o"), "x", "x1"), M12)
    BY <2>1, <2>3, <1>k, Spelled, StepTakes
  <2>6. Step(Reads("x", "x1"), "h", "h2") \in Ops /\ Takes(M12, Step(Reads("x", "x1"), "h", "h2"), K12)
    BY <2>2, <2>4, <1>k, Spelled, StepTakes
  <2> QED
    BY <2>5, <2>6, <1>k, TwoFlow
<1>p13. Flows(P13, K12, K13)
  <2>1. <<"h", "h2">> \in K12 /\ NoCopies(K12) /\ K13 = K12 \cup Shared2
    BY DEF K12, K13, NoCopies
  <2> QED
    BY <2>1, <1>k, Spelled, SharedFlows DEF Shared2
<1>p14. Flows(P14, K13, K14)
  <2>1. /\ <<"h", "h2">> \in K13 /\ NoCopy(K13) /\ K14 \subseteq Written(K13, "gate", "gate")
        /\ format["w_gate"] = "Q8A" => <<"q8a", "h2">> \in K13
    BY <1>1, <1>2 DEF K13, K14, NoCopy, Written
  <2> QED
    BY <2>1, <1>k, Spelled, ProductFlows
<1>p15. Flows(P15, K14, K15)
  <2>1. /\ <<"h", "h2">> \in K14 /\ NoCopy(K14) /\ K15 \subseteq Written(K14, "up", "up")
        /\ format["w_up"] = "Q8A" => <<"q8a", "h2">> \in K14
    BY <1>1, <1>2 DEF K14, K15, NoCopy, Written
  <2> QED
    BY <2>1, <1>k, Spelled, ProductFlows
<1>p16. Flows(P16, K15, K16)
  <2>1. <<"gate", "gate">> \in K15 /\ <<"up", "up">> \in K15 /\ K16 \subseteq Written(K15, "ff", "ff")
    BY DEF K15, K16, Written
  <2>2. Reads("gate", "gate") \cup Reads("up", "up") \subseteq K15 /\ \A r \in Reads("gate", "gate") \cup Reads("up", "up") : r[1] \in Names /\ r[2] # "x2"
    BY <2>1, Spelled DEF Reads
  <2> QED
    BY <2>1, <2>2, <1>k, Spelled, StepTakes, OneFlows
<1>p17. Flows(P17, K16, K17)
  <2>1. <<"ff", "ff">> \in K16 /\ NoCopies(K16) /\ K17 \subseteq Written(K16, "tmp_d", "d")
    BY DEF K16, K17, NoCopies, Written
  <2> QED
    BY <2>1, <1>k, Spelled, OwnProductFlows
<1>p18. Flows(P18, K17, K18)
  <2>1. <<"x", "x1">> \in K17 /\ <<"tmp_d", "d">> \in K17 /\ K18 \subseteq Written(K17, "x", "x2")
    BY DEF K17, K18, Written
  <2>2. Reads("x", "x1") \cup Reads("tmp_d", "d") \subseteq K17 /\ \A r \in Reads("x", "x1") \cup Reads("tmp_d", "d") : r[1] \in Names /\ r[2] # "x2"
    BY <2>1, Spelled DEF Reads
  <2> QED
    BY <2>1, <2>2, <1>k, Spelled, StepTakes, OneFlows
<1> DEFINE Q2 == P1 \o P2
           Q3 == Q2 \o P3
           Q4 == Q3 \o P4
           Q5 == Q4 \o P5
           Q6 == Q5 \o P6
           Q7 == Q6 \o P7
           Q8 == Q7 \o P8
           Q9 == Q8 \o P9
           Q10 == Q9 \o P10
           Q11 == Q10 \o P11
           Q12 == Q11 \o P12
           Q13 == Q12 \o P13
           Q14 == Q13 \o P14
           Q15 == Q14 \o P15
           Q16 == Q15 \o P16
           Q17 == Q16 \o P17
           Q18 == Q17 \o P18
<1> HIDE DEF P1, P2, P3, P4, P5, P6, P7, P8, P9, P10, P11, P12, P13, P14, P15, P16, P17, P18
<1>j2. Flows(Q2, K0, K2)
  BY <1>p1, <1>p2, FlowsJoin
<1> HIDE DEF Q2
<1>j3. Flows(Q3, K0, K3)
  BY <1>j2, <1>p3, FlowsJoin
<1> HIDE DEF Q3
<1>j4. Flows(Q4, K0, K4)
  BY <1>j3, <1>p4, FlowsJoin
<1> HIDE DEF Q4
<1>j5. Flows(Q5, K0, K5)
  BY <1>j4, <1>p5, FlowsJoin
<1> HIDE DEF Q5
<1>j6. Flows(Q6, K0, K6)
  BY <1>j5, <1>p6, FlowsJoin
<1> HIDE DEF Q6
<1>j7. Flows(Q7, K0, K7)
  BY <1>j6, <1>p7, FlowsJoin
<1> HIDE DEF Q7
<1>j8. Flows(Q8, K0, K8)
  BY <1>j7, <1>p8, FlowsJoin
<1> HIDE DEF Q8
<1>j9. Flows(Q9, K0, K9)
  BY <1>j8, <1>p9, FlowsJoin
<1> HIDE DEF Q9
<1>j10. Flows(Q10, K0, K10)
  BY <1>j9, <1>p10, FlowsJoin
<1> HIDE DEF Q10
<1>j11. Flows(Q11, K0, K11)
  BY <1>j10, <1>p11, FlowsJoin
<1> HIDE DEF Q11
<1>j12. Flows(Q12, K0, K12)
  BY <1>j11, <1>p12, FlowsJoin
<1> HIDE DEF Q12
<1>j13. Flows(Q13, K0, K13)
  BY <1>j12, <1>p13, FlowsJoin
<1> HIDE DEF Q13
<1>j14. Flows(Q14, K0, K14)
  BY <1>j13, <1>p14, FlowsJoin
<1> HIDE DEF Q14
<1>j15. Flows(Q15, K0, K15)
  BY <1>j14, <1>p15, FlowsJoin
<1> HIDE DEF Q15
<1>j16. Flows(Q16, K0, K16)
  BY <1>j15, <1>p16, FlowsJoin
<1> HIDE DEF Q16
<1>j17. Flows(Q17, K0, K17)
  BY <1>j16, <1>p17, FlowsJoin
<1> HIDE DEF Q17
<1>j18. Flows(Q18, K0, K18)
  BY <1>j17, <1>p18, FlowsJoin
<1> HIDE DEF Q18
<1>3. Q18 = LayerSteps
  BY DEF LayerSteps, Q2, Q3, Q4, Q5, Q6, Q7, Q8, Q9, Q10, Q11, Q12, Q13, Q14, Q15, Q16, Q17, Q18, P1, P2, P3, P4, P5, P6, P7, P8, P9, P10, P11, P12, P13, P14, P15, P16, P17, P18
<1> QED
  BY <1>3, <1>j18 DEF K0, K18

LEMMA OutputFlows ==
  ASSUME format \in Formats
  PROVE  Flows(OutputSteps, {<<"x", "x">>}, {<<"logits", "logits">>})
<1> DEFINE K0 == {<<"x", "x">>}
           K1 == {<<"h", "h3">>}
           K2 == {<<"logits", "logits">>}
<1>1. K0 \in SUBSET Facts /\ K1 \in SUBSET Facts /\ K2 \in SUBSET Facts
  BY Spelled DEF Facts
<1>2. <<"x", "x">> \in K0 /\ K1 \subseteq Written(K0, "h", "h3")
  BY DEF Written
<1>3. <<"h", "h3">> \in K1 /\ NoCopies(K1) /\ K2 \subseteq Written(K1, "logits", "logits")
  BY DEF Written, NoCopies
<1> HIDE DEF K0, K1, K2
<1>4. Flows(<<Step(Reads("x", "x"), "h", "h3")>>, K0, K1)
  BY <1>1, <1>2, Spelled, StepFlows
<1>5. Flows(OwnProduct("h", "h3", "output", "logits", "logits"), K1, K2)
  BY <1>1, <1>3, Spelled, OwnProductFlows
<1> QED
  BY <1>4, <1>5, FlowsJoin DEF OutputSteps, K0, K2

\* The output head stores nothing and attends to nothing.
Computes == [op : {"compute"}, reads : SUBSET Facts, out : Names, gives : Meanings]

LEMMA StepComputes ==
  ASSUME NEW b \in Names, NEW name \in Meanings, NEW into \in Names, NEW gives \in Meanings
  PROVE  <<Step(Reads(b, name), into, gives)>> \in Seq(Computes) /\ Step(Reads(b, name), into, gives) \in Computes
<1>1. Step(Reads(b, name), into, gives) \in Computes
  BY DEF Step, Computes, Reads, Facts
<1> QED
  BY <1>1

LEMMA OutputComputes ==
  ASSUME format \in Formats
  PROVE  OutputSteps \in Seq(Computes)
<1>1. Own("h", "h3", "output") \in Seq(Computes)
  BY Spelled, StepComputes DEF Own
<1>2. Product("h", "h3", "output", "logits", "logits") \in Seq(Computes)
  <2>1. format["output"] \in {"F32", "Q8A", "Q6K"}
    BY ForwardAssumption, Spelled
  <2>2. Step(Reads("h", "h3"), "q8k", "h3") \in Computes /\ Step(Reads("q8k", "h3"), "logits", "logits") \in Computes
    BY Spelled, StepComputes
  <2>3. <<Step(Reads("h", "h3"), "q8k", "h3"), Step(Reads("q8k", "h3"), "logits", "logits")>> \in Seq(Computes)
    BY <2>2
  <2>4. /\ <<Step(Reads("h", "h3"), "logits", "logits")>> \in Seq(Computes)
        /\ <<Step(Reads("q8a", "h3"), "logits", "logits")>> \in Seq(Computes)
    BY Spelled, StepComputes
  <2> QED
    BY <2>1, <2>3, <2>4, Zenon DEF Product
<1>3. <<Step(Reads("x", "x"), "h", "h3")>> \in Seq(Computes)
  BY Spelled, StepComputes
<1> QED
  BY <1>1, <1>2, <1>3, ConcatProperties DEF OutputSteps, OwnProduct

(***************************************************************************)
(* The invariant.  What the call computes is about the tokens of Line; the *)
(* cache holds the keys and values of the positions before this one and of *)
(* the layers that are done with this one; and what is known before the    *)
(* step that comes next holds of the buffers.                              *)
(***************************************************************************)
Line == IF Computing THEN Seen ELSE hist
Kept(l, p) == IF Computing THEN p < pass.pos \/ (p = pass.pos /\ l < pass.layer) ELSE p < Len(hist)
Places == (0 .. Layers - 1) \X KvHeads \X Positions
Entry(l, g, seq) == <<[Val("k2", l, seq) EXCEPT !.head = g], [Val("v1", l, seq) EXCEPT !.head = g]>>

Meant(name) == IF name = "x2" THEN [Now("x") EXCEPT !.layer = @ + 1] ELSE Now(name)
Holds(K) ==
  \A r \in K :
    IF r[1] = "cache" THEN \A g \in KvHeads : cache[<<pass.layer, g, pass.pos>>] = Entry(pass.layer, g, Line)
    ELSE buffers[r[1]] = Meant(r[2])
Start == {<<"x", "x">>}
End == IF pass.layer < Layers THEN {<<"cache", "kv">>, <<"x", "x2">>} ELSE {<<"logits", "logits">>}

PassTypes ==
  /\ format \in Formats /\ hist \in Seq(Tokens)
  /\ buffers = [b \in Names |-> buffers[b]] /\ cache = [place \in Places |-> cache[place]]
  /\ pass \in [token : Tokens \cup {NoCall.token}, pos : Positions, layer : 0 .. Layers, step : Nat,
               pc : {"idle", "run", "ok", "err"}]
  /\ Computing => pass.token \in Tokens /\ pass.pos <= Len(hist)

PassCache ==
  \A l \in 0 .. Layers - 1, g \in KvHeads, p \in Positions :
    Kept(l, p) => cache[<<l, g, p>>] = Entry(l, g, SubSeq(Line, 1, p + 1))

PassRun ==
  Computing => /\ pass.step \in 1 .. Len(Steps)
               /\ \E f : IsFlow(f, Steps, Start, End) /\ Holds(f[pass.step])

PassOk == pass.pc = "ok" => buffers["logits"] = Val("logits", Layers, hist)

Asked == chunk.request.tokens
AskedAt == chunk.index * chunk.request.chunk
PassVisits ==
  /\ chunk \in [request : Requests \cup {Free}, index : Nat, offset : Nat, pos : Nat]
  /\ IF chunk.request = Free THEN visited = <<>>
     ELSE /\ visited \in Seq({Val("logits", Layers, s) : s \in Seq(Tokens)}) /\ Len(visited) = chunk.pos
          /\ \A i \in 1 .. chunk.pos : visited[i] = Val("logits", Layers, SubSeq(Asked, 1, i))
          /\ Accepted(chunk.request) /\ AskedAt < Len(Asked) =>
               chunk.pos = AskedAt + chunk.offset /\ chunk.offset < VisitLen
          /\ pass.pc \in {"run", "ok"} =>
               Accepted(chunk.request) /\ AskedAt < Len(Asked) /\ pass.pos = chunk.pos
          /\ pass.pc = "idle" /\ Accepted(chunk.request) /\ AskedAt < Len(Asked) => hist = SubSeq(Asked, 1, chunk.pos)
          /\ Computing => Line = SubSeq(Asked, 1, chunk.pos + 1)
          /\ pass.pc = "ok" => hist = SubSeq(Asked, 1, chunk.pos + 1)

PassInv == PassTypes /\ PassCache /\ PassRun /\ PassOk /\ PassVisits

\* What is known after a step, of the call that made it.
Reached(L) ==
  \A r \in L :
    IF r[1] = "cache" THEN \A g \in KvHeads : cache'[<<pass.layer, g, pass.pos>>] = Entry(pass.layer, g, Line)
    ELSE buffers'[r[1]] = Meant(r[2])

LEMMA LineIs ==
  ASSUME PassTypes, Computing
  PROVE  /\ pass.pos \in Nat /\ SubSeq(hist, 1, pass.pos) \in Seq(Tokens) /\ Len(SubSeq(hist, 1, pass.pos)) = pass.pos
         /\ Line \in Seq(Tokens) /\ Len(Line) = pass.pos + 1
         /\ \A m \in 0 .. pass.pos : SubSeq(Line, 1, m) = SubSeq(hist, 1, m)
         /\ SubSeq(Line, 1, pass.pos + 1) = Line
<1>1. pass.pos \in Nat /\ hist \in Seq(Tokens) /\ pass.token \in Tokens /\ pass.pos <= Len(hist)
  BY DEF PassTypes, Positions
<1> PICK n \in Nat : n = pass.pos
  BY <1>1
<1> PICK s : s = SubSeq(hist, 1, n)
  OBVIOUS
<1>2. s \in Seq(Tokens) /\ Len(s) = n /\ \A i \in 1 .. n : s[i] = hist[i]
  BY <1>1
<1> PICK u : u = Append(s, pass.token)
  OBVIOUS
<1>3. u \in Seq(Tokens) /\ Len(u) = n + 1 /\ \A i \in 1 .. n : u[i] = hist[i]
  BY <1>1, <1>2
<1>4. ASSUME NEW m \in 0 .. n PROVE SubSeq(u, 1, m) = SubSeq(hist, 1, m)
  <2>1. /\ SubSeq(u, 1, m) = [i \in 1 .. m |-> u[i]]
        /\ SubSeq(hist, 1, m) = [i \in 1 .. m |-> hist[i]]
    BY <1>1, <1>3
  <2> QED
    BY <2>1, <1>3
<1>5. SubSeq(u, 1, n + 1) = u
  BY <1>3
<1> QED
  BY <1>1, <1>2, <1>3, <1>4, <1>5 DEF Line, Seen

LEMMA ComputeReaches ==
  ASSUME PassInv, Compute, NEW K, NEW L \in SUBSET Facts, Current \in Ops, Takes(K, Current, L), Holds(K)
  PROVE  Reached(L)
<1> PICK s : s = Current
  OBVIOUS
<1>1. /\ s.op = "compute" /\ s.reads \subseteq K /\ L \subseteq Written(K, s.out, s.gives)
      /\ \A r \in s.reads : r[1] \in Names /\ r[2] # "x2"
  BY DEF Compute, Takes
<1>2. s.out \in Names
  BY <1>1 DEF Ops
<1>3. buffers' = [buffers EXCEPT ![s.out] = Result(s)] /\ cache' = cache
  BY DEF Compute
<1>4. "cache" \notin Names
  BY DEF Names
<1>5. Result(s) = Meant(s.gives)
  <2>1. ASSUME NEW r \in s.reads PROVE buffers[r[1]] = Now(r[2])
    BY <1>1, <1>4, <2>1 DEF Holds, Meant
  <2> QED
    BY <2>1, Zenon DEF Result, Meant
<1>6. buffers'[s.out] = Meant(s.gives) /\ \A b \in Names : b # s.out => buffers'[b] = buffers[b]
  BY <1>2, <1>3, <1>5 DEF PassInv, PassTypes
<1>7. ASSUME NEW r \in L
      PROVE  IF r[1] = "cache" THEN \A g \in KvHeads : cache'[<<pass.layer, g, pass.pos>>] = Entry(pass.layer, g, Line)
             ELSE buffers'[r[1]] = Meant(r[2])
  <2>1. r[1] \in Names \cup {"cache"}
    BY <1>7 DEF Facts
  <2>2. CASE r = <<s.out, s.gives>>
    <3>1. r[1] = s.out /\ r[2] = s.gives
      BY <2>2
    <3> QED
      BY <3>1, <1>2, <1>4, <1>6
  <2>3. CASE r \in K /\ r[1] # s.out
    BY <2>1, <2>3, <1>3, <1>6 DEF Holds
  <2> QED
    BY <1>1, <2>2, <2>3 DEF Written
<1> QED
  BY <1>7 DEF Reached

LEMMA InLayer ==
  ASSUME PassInv, Computing, Current.op # "compute"
  PROVE  pass.layer \in 0 .. Layers - 1
<1>1. pass.layer \in 0 .. Layers /\ Layers \in Nat /\ format \in Formats
  BY ForwardAssumption DEF PassInv, PassTypes
<1>2. ASSUME ~(pass.layer < Layers) PROVE FALSE
  <2>1. Steps = OutputSteps
    BY <1>2 DEF Steps
  <2>2. OutputSteps \in Seq(Computes) /\ pass.step \in 1 .. Len(OutputSteps)
    BY <1>1, <2>1, OutputComputes DEF PassInv, PassRun
  <2>3. Current \in Computes
    BY <2>1, <2>2 DEF Current
  <2> QED
    BY <2>3 DEF Computes
<1> QED
  BY <1>1, <1>2

LEMMA StoreReaches ==
  ASSUME PassInv, Store, NEW K, NEW L \in SUBSET Facts, Current \in Ops, Takes(K, Current, L), Holds(K)
  PROVE  Reached(L)
<1>1. /\ <<"k", "k2">> \in K /\ <<"v", "v1">> \in K /\ L \subseteq K \cup {<<"cache", "kv">>}
  BY DEF Store, Takes
<1>2. pass.layer \in 0 .. Layers - 1 /\ pass.pos \in Positions
  BY InLayer DEF Store, PassInv, PassTypes
<1>3. buffers["k"] = Now("k2") /\ buffers["v"] = Now("v1")
  BY <1>1 DEF Holds, Meant
<1>4. Now("k2") # Wrong /\ Now("v1") # Wrong
  BY DEF Now, Wrong, Val
<1>5. ASSUME NEW g \in KvHeads
      PROVE  cache'[<<pass.layer, g, pass.pos>>] = Entry(pass.layer, g, Line)
  <2>1. <<pass.layer, g, pass.pos>> \in Places /\ DOMAIN cache = Places
    BY <1>2 DEF Places, PassInv, PassTypes
  <2>2. cache'[<<pass.layer, g, pass.pos>>] = <<Part(buffers["k"], g), Part(buffers["v"], g)>>
    BY <2>1 DEF Store
  <2> QED
    BY <2>2, <1>3, <1>4 DEF Part, Entry, Now, Line, Store
<1>6. buffers' = buffers
  BY DEF Store
<1> QED
  BY <1>1, <1>5, <1>6 DEF Reached, Holds

\* The heads of a group share one head of the cache.
LEMMA KvHeadOf ==
  ASSUME NEW h \in Heads
  PROVE  KvHead(h) \in KvHeads
<1> PICK a, c \in Nat : a = HeadCount /\ c = HeadCountKv /\ a > 0 /\ c > 0
  BY ForwardAssumption
<1>1. PICK q \in Nat : q = a \div c /\ a = c * q
  BY ForwardAssumption, DivMod
<1>2. q > 0
  BY <1>1
<1>3. h \in Nat /\ h < c * q
  BY <1>1 DEF Heads
<1>4. PICK e, r \in Nat : e = h \div q /\ h = q * e + r
  BY <1>2, <1>3, DivMod
<1>5. e < c
  <2>1. SUFFICES ASSUME c <= e PROVE FALSE
    OBVIOUS
  <2>2. q * c <= q * e
    BY <2>1, TimesMonotone
  <2>3. q * c = c * q
    OBVIOUS
  <2> QED
    BY <2>2, <2>3, <1>3, <1>4
<1> QED
  BY <1>1, <1>4, <1>5 DEF KvHead, KvHeads

LEMMA AttentionReaches ==
  ASSUME PassInv, Attention, NEW K, NEW L \in SUBSET Facts, Current \in Ops, Takes(K, Current, L), Holds(K)
  PROVE  Reached(L)
<1>1. /\ <<"q", "q2">> \in K /\ <<"cache", "kv">> \in K /\ L \subseteq Written(K, "attn", "attn")
  BY DEF Attention, Takes
<1>2. pass.layer \in 0 .. Layers - 1 /\ pass.pos \in Positions /\ pass.pos \in Nat /\ Computing
  BY InLayer DEF Attention, PassInv, PassTypes, Positions
<1>3. buffers["q"] = Now("q2") /\ \A g \in KvHeads : cache[<<pass.layer, g, pass.pos>>] = Entry(pass.layer, g, Line)
  BY <1>1 DEF Holds, Meant
<1>4. SubSeq(Line, 1, pass.pos + 1) = Line
  BY <1>2, LineIs DEF PassInv
<1>5. ASSUME NEW p \in Prefix, NEW g \in KvHeads
      PROVE  cache[<<pass.layer, g, p>>] = Entry(pass.layer, g, SubSeq(Line, 1, p + 1))
  <2>1. CASE p = pass.pos
    BY <2>1, <1>3, <1>4
  <2>2. CASE p # pass.pos
    <3>1. p \in Positions /\ p < pass.pos
      BY <2>2, <1>2, ForwardAssumption DEF Prefix, Positions
    <3> QED
      BY <3>1, <1>2 DEF PassInv, PassCache, Kept
  <2> QED
    BY <2>1, <2>2
<1>6. Line = Seen
  BY <1>2 DEF Line
<1>7. ASSUME NEW p \in Prefix, NEW h \in Heads
      PROVE  Stored(1, h, p) /\ Stored(2, h, p)
  <2>1. KvHead(h) \in KvHeads
    BY KvHeadOf
  <2> PICK g \in KvHeads : g = KvHead(h)
    BY <2>1
  <2> PICK seq : seq = SubSeq(Line, 1, p + 1)
    OBVIOUS
  <2>2. cache[<<pass.layer, g, p>>] = Entry(pass.layer, g, seq)
    BY <1>5
  <2> QED
    <3>1. /\ [Val("k2", pass.layer, seq) EXCEPT !.head = g] = Entry(pass.layer, g, seq)[1]
          /\ [Val("v1", pass.layer, seq) EXCEPT !.head = g] = Entry(pass.layer, g, seq)[2]
      BY DEF Entry
    <3>2. seq = SubSeq(Seen, 1, p + 1)
      BY <1>6
    <3> QED
      BY <2>2, <3>1, <3>2, Zenon DEF Stored
<1>8. PICK scored \in { [h \in Heads |-> IF pass.pos = 0 THEN scores[h] ELSE Scored(h)] } :
        \E weighed \in { [h \in Heads |-> IF pass.pos = 0 THEN probs[h] ELSE Weighed(h, scored[h])] } :
          /\ scores' = scored /\ probs' = weighed
          /\ buffers' = [buffers EXCEPT !["attn"] =
               IF \A h \in Heads, p \in Prefix :
                    /\ Stored(2, h, p)
                    /\ pass.pos > 0 => weighed[h][p] = OfHead("prob", h)
               THEN Now("attn") ELSE Wrong]
  BY Zenon DEF Attention
<1> PICK weighed \in { [h \in Heads |-> IF pass.pos = 0 THEN probs[h] ELSE Weighed(h, scored[h])] } :
      buffers' = [buffers EXCEPT !["attn"] =
        IF \A h \in Heads, p \in Prefix :
             /\ Stored(2, h, p)
             /\ pass.pos > 0 => weighed[h][p] = OfHead("prob", h)
        THEN Now("attn") ELSE Wrong]
  BY <1>8, Zenon
<1>9. ASSUME NEW h \in Heads, NEW p \in Prefix, pass.pos > 0
      PROVE  weighed[h][p] = OfHead("prob", h)
  <2>1. scored[h] = Scored(h) /\ weighed[h] = Weighed(h, scored[h])
    BY <1>8, <1>9
  <2>2. Prefix \subseteq Positions
    BY <1>2, ForwardAssumption DEF Prefix, Positions
  <2>3. \A e \in Prefix : Scored(h)[e] = OfHead("score", h)
    BY <2>2, <1>3, <1>7 DEF Scored
  <2>4. Softmax(h, scored[h])
    BY <2>1, <2>3 DEF Softmax
  <2> QED
    BY <2>1, <2>2, <2>4 DEF Weighed
<1>10. buffers' = [buffers EXCEPT !["attn"] = Now("attn")] /\ cache' = cache
  BY <1>7, <1>8, <1>9 DEF Attention
<1>11. "attn" \in Names /\ "cache" \notin Names /\ DOMAIN buffers = Names
  BY DEF Names, PassInv, PassTypes
<1>12. ASSUME NEW r \in L
       PROVE  IF r[1] = "cache" THEN \A g \in KvHeads : cache'[<<pass.layer, g, pass.pos>>] = Entry(pass.layer, g, Line)
              ELSE buffers'[r[1]] = Meant(r[2])
  <2>1. r[1] \in Names \cup {"cache"}
    BY <1>12 DEF Facts
  <2>2. CASE r = <<"attn", "attn">>
    <3>1. buffers'["attn"] = Meant("attn")
      BY <1>10, <1>11 DEF Meant
    <3> QED
      BY <2>2, <3>1
  <2>3. CASE r \in K /\ r[1] # "attn"
    BY <2>1, <2>3, <1>10, <1>11 DEF Holds
  <2> QED
    BY <1>1, <2>2, <2>3 DEF Written
<1> QED
  BY <1>12 DEF Reached

LEMMA ProgramStays ==
  ASSUME format' = format
  PROVE  LayerSteps' = LayerSteps /\ OutputSteps' = OutputSteps
<1>1. /\ \A b, name, group : Shared(b, name, group)' = Shared(b, name, group)
      /\ \A b, name, m : Own(b, name, m)' = Own(b, name, m)
      /\ \A b, name, m, into, gives : Product(b, name, m, into, gives)' = Product(b, name, m, into, gives)
  <2>1. \A b, name, group : Shared(b, name, group)' = Shared(b, name, group)
    BY Zenon DEF Shared
  <2>2. \A b, name, m : Own(b, name, m)' = Own(b, name, m)
    BY Zenon DEF Own
  <2>3. \A b, name, m, into, gives : Product(b, name, m, into, gives)' = Product(b, name, m, into, gives)
    <3> TAKE b, name, m, into, gives
    <3>1. format'[m] = format[m]
      OBVIOUS
    <3>2. Reads(b, name)' = Reads(b, name) /\ Reads("q8a", name)' = Reads("q8a", name) /\ Reads("q8k", name)' = Reads("q8k", name)
      BY ONLY DEF Reads
    <3>3. CASE format[m] = "F32"
      BY ONLY <3>1, <3>2, <3>3 DEF Product
    <3>4. CASE format[m] = "Q8A"
      BY ONLY <3>1, <3>2, <3>4 DEF Product
    <3>5. CASE format[m] = "Q6K"
      BY ONLY <3>1, <3>2, <3>5 DEF Product
    <3>6. CASE format[m] \notin {"F32", "Q8A", "Q6K"}
      BY ONLY <3>1, <3>2, <3>6 DEF Product
    <3> QED
      BY ONLY <3>3, <3>4, <3>5, <3>6
  <2> QED
    BY <2>1, <2>2, <2>3
<1>2. \A b, name, m, into, gives : OwnProduct(b, name, m, into, gives)' = OwnProduct(b, name, m, into, gives)
  BY <1>1, Zenon DEF OwnProduct
<1> QED
  BY <1>1, <1>2, Zenon DEF LayerSteps, OutputSteps

LEMMA ProgramsFlow ==
  ASSUME format \in Formats, NEW s, NEW L,
         \/ s = LayerSteps /\ L = {<<"cache", "kv">>, <<"x", "x2">>}
         \/ s = OutputSteps /\ L = {<<"logits", "logits">>}
  PROVE  /\ s \in Seq(Ops) /\ Len(s) \in Nat /\ Len(s) > 0
         /\ \E f : IsFlow(f, s, Start, L)
<1>1. Flows(s, Start, L)
  BY LayerFlows, OutputFlows DEF Start
<1>2. s \in Seq(Ops) /\ \E f : IsFlow(f, s, Start, L)
  BY <1>1 DEF Flows
<1>3. Len(s) # 0
  <2>1. SUFFICES ASSUME Len(s) = 0 PROVE FALSE
    OBVIOUS
  <2>2. PICK f : IsFlow(f, s, Start, L)
    BY <1>2
  <2>3. f[1] \subseteq Start /\ L \subseteq f[1]
    BY <2>1, <2>2 DEF IsFlow
  <2>4. <<"cache", "kv">> \in L \/ <<"logits", "logits">> \in L
    OBVIOUS
  <2> QED
    BY <2>3, <2>4 DEF Start
<1> QED
  BY <1>2, <1>3

\* Where a call enters a layer, its first step has nothing to rely on but x.
LEMMA EntersLayer ==
  ASSUME format \in Formats, format' = format, pass'.pc = "run", pass'.step = 1,
         buffers'["x"] = Now("x")'
  PROVE  PassRun'
<1> DEFINE s == IF pass'.layer < Layers THEN LayerSteps ELSE OutputSteps
           L == IF pass'.layer < Layers THEN {<<"cache", "kv">>, <<"x", "x2">>} ELSE {<<"logits", "logits">>}
<1>1. Steps' = s /\ End' = L
  BY ProgramStays DEF Steps, End
<1>2. PICK f : IsFlow(f, s, Start, L)
  BY ProgramsFlow
<1>3. Len(s) \in Nat /\ Len(s) > 0
  BY ProgramsFlow
<1> HIDE DEF s, L
<1>4. f[1] \subseteq {<<"x", "x">>}
  BY <1>2 DEF IsFlow, Start
<1>5. Meant("x")' = Now("x")'
  BY DEF Meant
<1>6. Holds(f[1])'
  BY <1>4, <1>5 DEF Holds
<1>7. IsFlow(f, Steps, Start, End)'
  BY <1>1, <1>2, Zenon DEF Start
<1>8. pass'.step \in 1 .. Len(Steps)'
  BY <1>1, <1>3
<1>9. Holds(f[pass.step])'
  BY <1>6, Zenon
<1> QED
  BY <1>7, <1>8, <1>9 DEF PassRun

Ends == pass.step = Len(Steps) /\ pass.layer = Layers

LEMMA PassAdvances ==
  ASSUME PassInv, Computing, pass' = After, UNCHANGED <<format, chunk, visited>>,
         buffers' = [b \in Names |-> buffers'[b]], cache' = [place \in Places |-> cache'[place]],
         hist' = IF Ends THEN Seen ELSE hist,
         \A K : \A L \in SUBSET Facts : Takes(K, Current, L) /\ Holds(K) => Reached(L),
         \A l \in 0 .. Layers - 1, g \in KvHeads, p \in Positions :
           Kept(l, p) => cache'[<<l, g, p>>] = cache[<<l, g, p>>]
  PROVE  PassInv'
<1>1. /\ pass.step \in 1 .. Len(Steps) /\ pass.layer \in 0 .. Layers /\ Layers \in Nat
      /\ pass.pos \in Nat /\ pass.pos \in Positions /\ pass.pos <= Len(hist) /\ pass.token \in Tokens
      /\ pass = [token |-> pass.token, pos |-> pass.pos, layer |-> pass.layer, step |-> pass.step, pc |-> "run"]
  BY ForwardAssumption DEF PassInv, PassTypes, PassRun, Computing, Positions
<1>2. Steps \in Seq(Ops) /\ Len(Steps) \in Nat
  BY ProgramsFlow DEF PassInv, PassTypes, Steps
<1> PICK n \in Nat : n = pass.step
  BY <1>1
<1>3. PICK f : IsFlow(f, Steps, Start, End) /\ Holds(f[pass.step])
  BY DEF PassInv, PassRun
<1>4. Reached(f[n + 1])
  <2>1. pass.step + 1 \in 1 .. Len(Steps) + 1
    BY <1>1, <1>2
  <2>2. f[n + 1] \in SUBSET Facts /\ Takes(f[pass.step], Current, f[n + 1])
    BY <2>1, <1>1, <1>3 DEF IsFlow, Current
  <2> QED
    BY <2>2, <1>3
<1>5. Line = Seen /\ Line \in Seq(Tokens) /\ Len(Line) = pass.pos + 1 /\ SubSeq(Line, 1, pass.pos + 1) = Line
  BY LineIs DEF Line, PassInv
<1>6. LayerSteps' = LayerSteps /\ OutputSteps' = OutputSteps
  BY ProgramStays
<1>7. \A l \in 0 .. Layers - 1, g \in KvHeads, p \in Positions :
        Kept(l, p) => cache'[<<l, g, p>>] = Entry(l, g, SubSeq(Line, 1, p + 1))
  BY DEF PassInv, PassCache
\* The next step of the layer.
<1>8. CASE pass.step < Len(Steps)
  <2>1. /\ pass' = [token |-> pass.token, pos |-> pass.pos, layer |-> pass.layer, step |-> pass.step + 1, pc |-> "run"]
        /\ hist' = hist /\ Computing'
    BY <1>1, <1>2, <1>8 DEF After, Ends, Computing
  <2>2. Seen' = Seen /\ Line' = Line /\ (\A l, p : Kept(l, p)' = Kept(l, p)) /\ Steps' = Steps /\ End' = End
    <3>1. pass'.layer = pass.layer /\ pass'.pos = pass.pos /\ pass'.token = pass.token
      BY <2>1
    <3>2. Seen' = Seen /\ Line' = Line
      BY <2>1, <3>1, <1>5 DEF Seen, Line
    <3>3. ASSUME NEW l, NEW p PROVE Kept(l, p)' = Kept(l, p)
      BY <2>1, <3>1 DEF Kept
    <3>4. Steps' = Steps /\ End' = End
      BY <3>1, <1>6 DEF Steps, End
    <3> QED
      BY <3>2, <3>3, <3>4
  <2>3. \A name : Meant(name)' = Meant(name)
    <3>1. pass'.layer = pass.layer
      BY <2>1
    <3> QED
      BY <2>2, <3>1, Zenon DEF Meant, Now
  <2>4. Holds(f[n + 1])'
    <3>1. pass'.layer = pass.layer /\ pass'.pos = pass.pos
      BY <2>1
    <3> QED
      BY <2>2, <2>3, <3>1, <1>4 DEF Holds, Reached
  <2>5. PassRun'
    <3>1. pass'.step \in 1 .. Len(Steps)' /\ pass'.step = n + 1
      BY <2>1, <2>2, <1>1, <1>2, <1>8
    <3>2. IsFlow(f, Steps, Start, End)'
      BY <1>3, <2>2 DEF IsFlow, Start
    <3>3. Holds(f[pass.step])'
      BY <2>4, <3>1, Zenon
    <3> QED
      BY <3>1, <3>2, <3>3 DEF PassRun
  <2>6. PassCache'
    BY <2>2, <1>7 DEF PassCache
  <2>7. PassTypes'
    BY <2>1, <1>1, <1>2 DEF PassInv, PassTypes
  <2>8. PassOk' /\ PassVisits'
    BY <2>1, <2>2 DEF PassInv, PassOk, PassVisits, Asked, AskedAt, VisitLen, Computing
  <2> QED
    BY <2>5, <2>6, <2>7, <2>8 DEF PassInv
\* The next layer.
<1>9. CASE pass.step = Len(Steps) /\ pass.layer < Layers
  <2>1. /\ pass' = [token |-> pass.token, pos |-> pass.pos, layer |-> pass.layer + 1, step |-> 1, pc |-> "run"]
        /\ hist' = hist /\ Computing'
    <3>1. ~(pass.step < Len(Steps)) /\ ~Ends
      BY <1>1, <1>2, <1>9 DEF Ends
    <3>2. pass' = [token |-> pass.token, pos |-> pass.pos, layer |-> pass.layer + 1, step |-> 1, pc |-> "run"]
      <4>1. pass' = [pass EXCEPT !.layer = @ + 1, !.step = 1]
        BY ONLY <1>9, <3>1, pass' = After DEF After
      <4>2. PICK a, b, c, d : pass = [token |-> a, pos |-> b, layer |-> c, step |-> d, pc |-> "run"]
        BY ONLY <1>1
      <4>3. pass' = [token |-> a, pos |-> b, layer |-> c + 1, step |-> 1, pc |-> "run"]
        BY ONLY <4>1, <4>2
      <4>4. QED
        BY ONLY <4>2, <4>3
    <3>3. hist' = hist
      BY ONLY <3>1, hist' = IF Ends THEN Seen ELSE hist
    <3> QED
      BY ONLY <3>2, <3>3 DEF Computing
  <2>2. Seen' = Seen /\ Line' = Line
    <3>1. pass'.token = pass.token
      BY ONLY <2>1
    <3>2. Seen' = Seen
      BY ONLY <2>1, <3>1 DEF Seen
    <3> QED
      BY ONLY <2>1, <3>2, Computing DEF Line
  <2>3. {<<"cache", "kv">>, <<"x", "x2">>} \subseteq f[n + 1]
    BY <1>3, <1>9 DEF IsFlow, End
  <2>4. /\ \A g \in KvHeads : cache'[<<pass.layer, g, pass.pos>>] = Entry(pass.layer, g, Line)
        /\ buffers'["x"] = Meant("x2")
    BY <2>3, <1>4 DEF Reached
  <2>5. buffers'["x"] = Now("x")'
    BY <2>1, <2>2, <2>4 DEF Meant, Now, Val
  <2>6. PassRun'
    BY <2>1, <2>5, EntersLayer DEF PassInv, PassTypes
  <2>7. PassCache'
    <3>1. ASSUME NEW l \in 0 .. Layers - 1, NEW g \in KvHeads, NEW p \in Positions, Kept(l, p)'
          PROVE  cache'[<<l, g, p>>] = Entry(l, g, SubSeq(Line, 1, p + 1))
      <4>1. Kept(l, p) \/ (l = pass.layer /\ p = pass.pos)
        BY <2>1, <3>1, <1>1 DEF Kept, Computing
      <4> QED
        BY <4>1, <2>4, <1>5, <1>7
    <3> QED
      BY <3>1, <2>2 DEF PassCache
  <2>8. PassTypes'
    BY <2>1, <1>1, <1>2, <1>9 DEF PassInv, PassTypes
  <2>9. PassOk' /\ PassVisits'
    BY <2>1, <2>2 DEF PassInv, PassOk, PassVisits, Asked, AskedAt, VisitLen, Computing
  <2> QED
    BY <2>6, <2>7, <2>8, <2>9 DEF PassInv
\* The end.
<1>10. CASE pass.step = Len(Steps) /\ pass.layer = Layers
  <2>1. /\ pass' = [token |-> pass.token, pos |-> pass.pos, layer |-> pass.layer, step |-> pass.step, pc |-> "ok"]
        /\ hist' = Seen /\ ~Computing'
    BY <1>1, <1>2, <1>10 DEF After, Ends, Computing
  <2>2. Line' = Line /\ Len(hist') = pass.pos + 1 /\ hist' \in Seq(Tokens)
    BY <2>1, <1>5 DEF Line
  <2>3. <<"logits", "logits">> \in f[n + 1]
    <3>1. End = {<<"logits", "logits">>} /\ n = Len(Steps)
      BY <1>1, <1>10 DEF End
    <3> QED
      BY <1>3, <3>1 DEF IsFlow
  <2>4. buffers'["logits"] = Val("logits", Layers, Seen)
    BY <2>3, <1>4, <1>10 DEF Reached, Meant, Now
  <2>5. PassOk' /\ PassRun'
    BY <2>1, <2>4 DEF PassOk, PassRun
  <2>6. PassCache'
    <3>1. ASSUME NEW l \in 0 .. Layers - 1, NEW p \in Positions, Kept(l, p)'
          PROVE  Kept(l, p)
      BY <2>1, <2>2, <3>1, <1>1, <1>10 DEF Kept, Computing, Positions
    <3> QED
      BY <3>1, <2>2, <1>7 DEF PassCache
  <2>7. PassTypes'
    BY <2>1, <2>2, <1>1, <1>2 DEF PassInv, PassTypes
  <2>8. PassVisits'
    BY <2>1, <2>2, <1>5 DEF PassInv, PassVisits, Asked, AskedAt, VisitLen, Computing
  <2> QED
    BY <2>5, <2>6, <2>7, <2>8 DEF PassInv
<1> QED
  BY <1>1, <1>2, <1>8, <1>9, <1>10

LEMMA CurrentIsOp ==
  ASSUME PassInv, Computing
  PROVE  Current \in Ops
<1>1. Steps \in Seq(Ops) /\ pass.step \in 1 .. Len(Steps)
  BY ProgramsFlow DEF PassInv, PassTypes, PassRun, Steps
<1> QED
  BY <1>1 DEF Current

LEMMA PassStarts == ForwardInit => PassInv
<1> SUFFICES ASSUME ForwardInit PROVE PassInv
  OBVIOUS
<1>1. /\ format \in Formats /\ hist = <<>> /\ pass = NoCall /\ visited = <<>>
      /\ buffers = [b \in Names |-> Wrong]
      /\ cache = [place \in Places |-> <<Wrong, Wrong>>]
      /\ \E r \in Requests \cup {Free} : chunk = [request |-> r, index |-> 0, offset |-> 0, pos |-> 0]
  BY DEF ForwardInit, Places
<1>2. /\ pass.pc = "idle" /\ ~Computing
      /\ pass = [token |-> NoCall.token, pos |-> 0, layer |-> 0, step |-> 0, pc |-> "idle"]
  BY <1>1 DEF NoCall, Computing
<1>3. <<>> \in Seq(Tokens) /\ Len(<<>>) = 0 /\ \A S : <<>> \in Seq(S)
  OBVIOUS
<1>4. hist \in Seq(Tokens) /\ Len(hist) = 0
  BY <1>1, <1>3, Zenon
<1>5. PassTypes
  BY <1>1, <1>2, <1>4, ForwardAssumption DEF PassTypes, Positions
<1>6. PassCache
  BY <1>2, <1>4 DEF PassCache, Kept, Positions
<1>7. PassVisits
  <2>1. /\ chunk.request \in Requests \cup {Free} /\ chunk.index = 0 /\ chunk.offset = 0 /\ chunk.pos = 0
        /\ chunk \in [request : Requests \cup {Free}, index : Nat, offset : Nat, pos : Nat]
    BY <1>1
  <2>2. CASE chunk.request = Free
    BY <2>1, <2>2, <1>1 DEF PassVisits
  <2>3. CASE chunk.request # Free
    <3>1. Asked \in Seq(Tokens) /\ chunk.request.chunk \in Nat /\ Len(Asked) \in Nat
      BY <2>1, <2>3, ForwardAssumption DEF Asked
    <3>2. AskedAt = 0
      BY <2>1, <3>1 DEF AskedAt
    <3>3. visited \in Seq({Val("logits", Layers, s) : s \in Seq(Tokens)}) /\ Len(visited) = 0
      BY <1>1, <1>3, Zenon
    <3>4. Accepted(chunk.request) => chunk.request.chunk > 0
      BY <3>1 DEF Accepted
    <3>5. Accepted(chunk.request) /\ AskedAt < Len(Asked) => chunk.offset < VisitLen
      BY <2>1, <3>1, <3>2, <3>4 DEF VisitLen, Asked, AskedAt
    <3>6. SubSeq(Asked, 1, chunk.pos) = <<>>
      BY <2>1, <3>1
    <3> QED
      BY <2>1, <2>3, <3>2, <3>3, <3>5, <3>6, <1>1, <1>2 DEF PassVisits
  <2> QED
    BY <2>2, <2>3
<1> QED
  BY <1>2, <1>5, <1>6, <1>7 DEF PassInv, PassRun, PassOk

LEMMA ComputeStep == PassInv /\ Compute => PassInv'
<1> SUFFICES ASSUME PassInv, Compute PROVE PassInv'
  OBVIOUS
<1>1. /\ Computing /\ pass' = After /\ UNCHANGED <<format, cache, chunk, visited>>
      /\ buffers' = [buffers EXCEPT ![Current.out] = Result(Current)]
  BY DEF Compute
<1>2. Current \in Ops
  BY <1>1, CurrentIsOp
<1>3. hist' = IF Ends THEN Seen ELSE hist
  <2>1. /\ pass.layer \in 0 .. Layers /\ Layers \in Nat /\ pass.step \in 1 .. Len(Steps) /\ Len(Steps) \in Nat
        /\ pass = [token |-> pass.token, pos |-> pass.pos, layer |-> pass.layer, step |-> pass.step, pc |-> "run"]
    BY <1>1, ProgramsFlow, ForwardAssumption DEF PassInv, PassTypes, PassRun, Computing, Steps
  <2>2. After.pc = IF Ends THEN "ok" ELSE "run"
    BY <2>1 DEF After, Ends
  <2> QED
    BY <2>2, <1>1 DEF Compute
<1>4. \A K : \A L \in SUBSET Facts : Takes(K, Current, L) /\ Holds(K) => Reached(L)
  BY <1>2, ComputeReaches
<1>5. buffers' = [b \in Names |-> buffers'[b]] /\ cache' = [place \in Places |-> cache'[place]]
  BY <1>1 DEF PassInv, PassTypes
<1> QED
  BY <1>1, <1>3, <1>4, <1>5, PassAdvances

LEMMA StoreStep == PassInv /\ Store => PassInv'
<1> SUFFICES ASSUME PassInv, Store PROVE PassInv'
  OBVIOUS
<1>1. Computing /\ pass' = After /\ UNCHANGED <<format, buffers, hist, chunk, visited>> /\ Current.op # "compute"
  BY DEF Store
<1>2. Current \in Ops /\ pass.layer \in 0 .. Layers - 1 /\ Layers \in Nat
  BY <1>1, CurrentIsOp, InLayer, ForwardAssumption
<1>3. hist' = IF Ends THEN Seen ELSE hist
  BY <1>1, <1>2 DEF Ends
<1>4. \A K : \A L \in SUBSET Facts : Takes(K, Current, L) /\ Holds(K) => Reached(L)
  BY <1>2, StoreReaches
<1>5. buffers' = [b \in Names |-> buffers'[b]] /\ cache' = [place \in Places |-> cache'[place]]
  BY <1>1 DEF Store, PassInv, PassTypes
<1>6. ASSUME NEW l \in 0 .. Layers - 1, NEW g \in KvHeads, NEW p \in Positions, Kept(l, p)
      PROVE  cache'[<<l, g, p>>] = cache[<<l, g, p>>]
  <2>1. ~(l = pass.layer /\ p = pass.pos)
    BY <1>1, <1>2, <1>6 DEF Kept, Positions
  <2>2. <<l, g, p>> \in DOMAIN cache
    BY DEF PassInv, PassTypes, Places
  <2> QED
    BY <2>1, <2>2 DEF Store
<1> QED
  BY <1>1, <1>3, <1>4, <1>5, <1>6, PassAdvances

LEMMA AttentionStep == PassInv /\ Attention => PassInv'
<1> SUFFICES ASSUME PassInv, Attention PROVE PassInv'
  OBVIOUS
<1>1. Computing /\ pass' = After /\ UNCHANGED <<format, cache, hist, chunk, visited>> /\ Current.op # "compute"
  BY DEF Attention
<1>2. Current \in Ops /\ pass.layer \in 0 .. Layers - 1 /\ Layers \in Nat
  BY <1>1, CurrentIsOp, InLayer, ForwardAssumption
<1>3. hist' = IF Ends THEN Seen ELSE hist
  BY <1>1, <1>2 DEF Ends
<1>4. \A K : \A L \in SUBSET Facts : Takes(K, Current, L) /\ Holds(K) => Reached(L)
  BY <1>2, AttentionReaches
<1>5. buffers' = [b \in Names |-> buffers'[b]] /\ cache' = [place \in Places |-> cache'[place]]
  <2>1. PICK v : buffers' = [buffers EXCEPT !["attn"] = v]
    BY Zenon DEF Attention
  <2> QED
    BY <2>1, <1>1 DEF PassInv, PassTypes
<1> QED
  BY <1>1, <1>3, <1>4, <1>5, PassAdvances

LEMMA FailStep == PassInv /\ Fail => PassInv'
<1> SUFFICES ASSUME PassInv, Fail PROVE PassInv'
  OBVIOUS
<1>1. Computing /\ pass' = [pass EXCEPT !.pc = "err"] /\ hist' = SubSeq(hist, 1, pass.pos) /\ UNCHANGED <<format, cache, chunk, visited>>
  BY DEF Fail
<1>2. /\ pass.pos \in Nat /\ hist' \in Seq(Tokens) /\ Len(hist') = pass.pos
      /\ \A m \in 0 .. pass.pos : SubSeq(Line, 1, m) = SubSeq(hist, 1, m)
  BY <1>1, LineIs DEF PassInv
<1>3. pass'.pc = "err" /\ ~Computing' /\ Line' = hist'
  BY <1>1 DEF Computing, Line, PassInv, PassTypes
<1>4. \E b \in Names : \E v : buffers' = [buffers EXCEPT ![b] = v] \/ buffers' = buffers
  <2>1. Current \in Ops
    BY <1>1, CurrentIsOp
  <2>2. CASE Current.op = "compute"
    <3>1. Current.out \in Names
      BY <2>1, <2>2 DEF Ops
    <3> QED
      BY <3>1, <2>2, Zenon DEF Fail
  <2>3. CASE Current.op = "attention"
    <3>1. "attn" \in Names
      BY DEF Names
    <3> QED
      BY <3>1, <2>3 DEF Fail
  <2>4. CASE Current.op = "store"
    <3>1. "attn" \in Names
      BY DEF Names
    <3> QED
      BY <3>1, <2>4 DEF Fail
  <2> QED
    BY <2>1, <2>2, <2>3, <2>4 DEF Ops
<1>5. PassTypes'
  BY <1>1, <1>2, <1>3, <1>4 DEF PassInv, PassTypes
<1>6. PassCache'
  <2>1. ASSUME NEW l \in 0 .. Layers - 1, NEW g \in KvHeads, NEW p \in Positions, Kept(l, p)'
        PROVE  cache[<<l, g, p>>] = Entry(l, g, SubSeq(hist', 1, p + 1))
    <3>1. p \in Nat /\ p < pass.pos
      BY <2>1, <1>2, <1>3 DEF Kept, Positions
    <3>2. cache[<<l, g, p>>] = Entry(l, g, SubSeq(Line, 1, p + 1))
      BY <3>1, <1>1 DEF Kept, PassInv, PassCache
    <3>3. SubSeq(Line, 1, p + 1) = SubSeq(hist, 1, p + 1) /\ SubSeq(hist', 1, p + 1) = SubSeq(hist, 1, p + 1)
      <4>1. p + 1 \in 0 .. pass.pos
        BY <3>1, <1>2
      <4>2. hist \in Seq(Tokens) /\ pass.pos <= Len(hist)
        BY <1>1 DEF PassInv, PassTypes
      <4>3. SubSeq(SubSeq(hist, 1, pass.pos), 1, p + 1) = SubSeq(hist, 1, p + 1)
        BY <4>1, <4>2, <3>1, <1>2
      <4> QED
        BY <4>1, <4>3, <1>1, <1>2
    <3> QED
      BY <3>2, <3>3
  <2> QED
    BY <2>1, <1>1, <1>3 DEF PassCache
<1>7. PassVisits'
  BY <1>1, <1>3 DEF PassInv, PassVisits, Asked, AskedAt, VisitLen
<1> QED
  BY <1>3, <1>5, <1>6, <1>7 DEF PassInv, PassRun, PassOk

LEMMA BeginStep ==
  ASSUME PassInv, ~Computing, NEW token \in Tokens, NEW pos \in Nat, pos <= Len(hist), Begin(token, pos)
  PROVE  /\ PassTypes' /\ PassCache' /\ PassRun' /\ PassOk'
         /\ Computing' /\ Line' = Append(SubSeq(hist, 1, pos), token)
<1>1. /\ pass' = [token |-> token, pos |-> pos, layer |-> 0, step |-> 1, pc |-> "run"]
      /\ buffers' = [buffers EXCEPT !["x"] = Val("x", 0, Append(SubSeq(hist, 1, pos), token))]
      /\ UNCHANGED <<format, cache, hist>> /\ pos < MaxContext
  BY DEF Begin
<1>2. Computing' /\ Seen' = Append(SubSeq(hist, 1, pos), token) /\ Line' = Seen'
  BY <1>1 DEF Computing, Seen, Line
<1>3. "x" \in Names /\ Layers \in Nat /\ MaxContext \in Nat
  BY ForwardAssumption DEF Names
<1>4. PassTypes'
  <2>1. format' \in Formats /\ hist' \in Seq(Tokens) /\ cache' = [place \in Places |-> cache'[place]]
    BY <1>1 DEF PassInv, PassTypes
  <2>2. buffers' = [b \in Names |-> buffers'[b]]
    BY <1>1 DEF PassInv, PassTypes
  <2>3. pos \in Positions /\ 0 \in 0 .. Layers /\ 1 \in Nat
    BY <1>1, <1>3 DEF Positions
  <2>4. pass' \in [token : Tokens \cup {NoCall.token}, pos : Positions, layer : 0 .. Layers, step : Nat,
                   pc : {"idle", "run", "ok", "err"}]
    BY <1>1, <2>3
  <2>5. pass'.token \in Tokens /\ pass'.pos <= Len(hist')
    BY <1>1
  <2> QED
    BY <2>1, <2>2, <2>4, <2>5 DEF PassTypes
<1>5. \A m \in 0 .. pos : SubSeq(Line', 1, m) = SubSeq(hist, 1, m)
  <2> PICK s : s = SubSeq(hist, 1, pos)
    OBVIOUS
  <2>1. hist \in Seq(Tokens)
    BY DEF PassInv, PassTypes
  <2>2. s \in Seq(Tokens) /\ Len(s) = pos /\ \A i \in 1 .. pos : s[i] = hist[i]
    BY <2>1
  <2> PICK u : u = Append(s, token)
    OBVIOUS
  <2>3. u \in Seq(Tokens) /\ Len(u) = pos + 1 /\ \A i \in 1 .. pos : u[i] = hist[i]
    BY <2>2
  <2>4. ASSUME NEW m \in 0 .. pos PROVE SubSeq(u, 1, m) = SubSeq(hist, 1, m)
    <3>1. /\ SubSeq(u, 1, m) = [i \in 1 .. m |-> u[i]]
          /\ SubSeq(hist, 1, m) = [i \in 1 .. m |-> hist[i]]
      BY <2>1, <2>3
    <3> QED
      BY <3>1, <2>3
  <2> QED
    BY <2>4, <1>2
<1>6. PassCache'
  <2>1. ASSUME NEW l \in 0 .. Layers - 1, NEW g \in KvHeads, NEW p \in Positions, Kept(l, p)'
        PROVE  cache[<<l, g, p>>] = Entry(l, g, SubSeq(Line', 1, p + 1))
    <3>1. p \in Nat /\ p < pos
      BY <2>1, <1>1, <1>2, <1>3 DEF Kept, Positions
    <3>2. Kept(l, p) /\ Line = hist /\ p + 1 \in 0 .. pos
      BY <3>1 DEF Kept, Line, PassInv, PassTypes
    <3> QED
      BY <3>2, <1>5 DEF PassInv, PassCache
  <2> QED
    BY <2>1, <1>1 DEF PassCache
<1>7. PassRun'
  <2>1. buffers'["x"] = Now("x")'
    BY <1>1, <1>2, <1>3 DEF Now, PassInv, PassTypes
  <2> QED
    BY <2>1, <1>1, EntersLayer DEF PassInv, PassTypes
<1>8. PassOk'
  BY <1>1 DEF PassOk
<1> QED
  BY <1>2, <1>4, <1>6, <1>7, <1>8

LEMMA CallAnywhereStep ==
  ASSUME PassInv, NEW token \in Tokens, NEW pos \in Positions, CallAnywhere(token, pos)
  PROVE  PassInv'
<1>1. ~Computing /\ pos \in Nat /\ pos <= Len(hist) /\ Begin(token, pos) /\ UNCHANGED <<chunk, visited>>
      /\ chunk.request = Free
  BY ForwardAssumption DEF CallAnywhere, Computing, Positions
<1>2. PassTypes' /\ PassCache' /\ PassRun' /\ PassOk'
  BY <1>1, BeginStep
<1>3. PassVisits'
  BY <1>1 DEF PassInv, PassVisits
<1> QED
  BY <1>2, <1>3 DEF PassInv

\* The request of the visit loop.
LEMMA AskedIs ==
  ASSUME PassInv, chunk.request # Free
  PROVE  /\ Asked \in Seq(Tokens) /\ Len(Asked) \in Nat /\ chunk.request.chunk \in Nat
         /\ chunk.index \in Nat /\ chunk.offset \in Nat /\ chunk.pos \in Nat /\ AskedAt \in Nat
         /\ Accepted(chunk.request) => chunk.request.chunk > 0
         /\ Accepted(chunk.request) /\ AskedAt < Len(Asked) =>
              chunk.pos = AskedAt + chunk.offset /\ chunk.pos < Len(Asked)
<1>1. chunk.request \in Requests /\ chunk.index \in Nat /\ chunk.offset \in Nat /\ chunk.pos \in Nat
  BY DEF PassInv, PassVisits
<1>2. Asked \in Seq(Tokens) /\ chunk.request.chunk \in Nat
  BY <1>1, ForwardAssumption DEF Asked
<1>3. AskedAt \in Nat /\ Len(Asked) \in Nat
  BY <1>1, <1>2 DEF AskedAt
<1>4. ASSUME Accepted(chunk.request), AskedAt < Len(Asked)
      PROVE  chunk.pos = AskedAt + chunk.offset /\ chunk.pos < Len(Asked)
  <2>1. chunk.pos = AskedAt + chunk.offset /\ chunk.offset < VisitLen
    BY <1>4 DEF PassInv, PassVisits
  <2>2. VisitLen <= Len(Asked) - AskedAt
    BY <1>2, <1>3 DEF VisitLen, Asked, AskedAt
  <2>3. VisitLen \in Int
    BY <1>2, <1>3 DEF VisitLen, Asked, AskedAt
  <2> QED
    BY <2>1, <2>2, <2>3, <1>1, <1>3
<1> QED
  BY <1>1, <1>2, <1>3, <1>4 DEF Accepted

LEMMA VisitCallStep == PassInv /\ VisitCall => PassInv'
<1> SUFFICES ASSUME PassInv, VisitCall PROVE PassInv'
  OBVIOUS
<1>1. /\ chunk.request # Free /\ Accepted(chunk.request) /\ pass.pc = "idle" /\ AskedAt < Len(Asked)
      /\ UNCHANGED <<chunk, visited>>
      /\ Begin(Asked[AskedAt + chunk.offset + 1], chunk.pos)
  BY DEF VisitCall, Asked, AskedAt
<1>2. /\ Asked \in Seq(Tokens) /\ Len(Asked) \in Nat /\ chunk.pos \in Nat
      /\ chunk.pos = AskedAt + chunk.offset /\ chunk.pos < Len(Asked)
  BY <1>1, AskedIs
<1> PICK token : token = Asked[chunk.pos + 1]
  OBVIOUS
<1>3. token \in Tokens /\ Begin(token, chunk.pos)
  BY <1>1, <1>2
<1>4. hist = SubSeq(Asked, 1, chunk.pos)
  BY <1>1 DEF PassInv, PassVisits
<1>5. Len(hist) = chunk.pos
  BY <1>2, <1>4
<1>6. /\ PassTypes' /\ PassCache' /\ PassRun' /\ PassOk'
      /\ Computing' /\ Line' = Append(SubSeq(hist, 1, chunk.pos), token)
  BY <1>1, <1>2, <1>3, <1>5, BeginStep DEF Computing
<1>7. Line' = SubSeq(Asked, 1, chunk.pos + 1)
  <2>1. SubSeq(hist, 1, chunk.pos) = SubSeq(Asked, 1, chunk.pos)
    BY <1>2, <1>4, <1>5 DEF PassInv, PassTypes
  <2>2. SubSeq(Asked, 1, chunk.pos + 1) = Append(SubSeq(Asked, 1, chunk.pos), Asked[chunk.pos + 1])
    BY <1>2, SubSeqRecursiveSecond
  <2> QED
    BY <2>1, <2>2, <1>6
<1>8. pass'.pc = "run" /\ pass'.pos = chunk.pos
  BY <1>3 DEF Begin
<1>9. PassVisits'
  BY <1>1, <1>7, <1>8 DEF PassInv, PassVisits, Asked, AskedAt, VisitLen
<1> QED
  BY <1>6, <1>9 DEF PassInv

LEMMA VisitStep == PassInv /\ Visit => PassInv'
<1> SUFFICES ASSUME PassInv, Visit PROVE PassInv'
  OBVIOUS
<1>1. /\ chunk.request # Free /\ pass.pc = "ok" /\ visited' = Append(visited, buffers["logits"])
      /\ pass' = [pass EXCEPT !.pc = "idle"] /\ UNCHANGED <<format, buffers, cache, hist>>
      /\ chunk' = IF chunk.offset + 1 < VisitLen
                  THEN [chunk EXCEPT !.offset = @ + 1, !.pos = @ + 1]
                  ELSE [chunk EXCEPT !.index = @ + 1, !.offset = 0, !.pos = @ + 1]
  BY DEF Visit
<1>2. /\ Accepted(chunk.request) /\ AskedAt < Len(Asked) /\ hist = SubSeq(Asked, 1, chunk.pos + 1)
      /\ chunk.offset < VisitLen /\ chunk.request \in Requests
      /\ visited \in Seq({Val("logits", Layers, s) : s \in Seq(Tokens)}) /\ Len(visited) = chunk.pos
      /\ \A i \in 1 .. chunk.pos : visited[i] = Val("logits", Layers, SubSeq(Asked, 1, i))
      /\ chunk \in [request : Requests \cup {Free}, index : Nat, offset : Nat, pos : Nat]
  BY <1>1 DEF PassInv, PassVisits
<1>3. /\ Asked \in Seq(Tokens) /\ Len(Asked) \in Nat /\ chunk.request.chunk \in Nat /\ chunk.request.chunk > 0
      /\ chunk.index \in Nat /\ chunk.offset \in Nat /\ chunk.pos \in Nat /\ AskedAt \in Nat
      /\ chunk.pos = AskedAt + chunk.offset /\ chunk.pos < Len(Asked)
  BY <1>1, <1>2, AskedIs
<1>4. pass'.pc = "idle" /\ ~Computing /\ ~Computing'
  BY <1>1 DEF Computing, PassInv, PassTypes
<1>5. PassTypes' /\ PassCache' /\ PassRun' /\ PassOk'
  <2>1. PassTypes' /\ PassRun' /\ PassOk'
    BY <1>1, <1>4 DEF PassInv, PassTypes, PassRun, PassOk
  <2>2. Line' = Line /\ \A l, p : Kept(l, p)' = Kept(l, p)
    BY <1>1, <1>4 DEF Line, Kept
  <2> QED
    BY <2>1, <2>2, <1>1 DEF PassInv, PassCache
<1>6. buffers["logits"] = Val("logits", Layers, SubSeq(Asked, 1, chunk.pos + 1))
  BY <1>1, <1>2 DEF PassInv, PassOk
<1>7. chunk'.pos = chunk.pos + 1 /\ chunk'.request = chunk.request
      /\ chunk' \in [request : Requests \cup {Free}, index : Nat, offset : Nat, pos : Nat]
  <2> PICK r, i, o, n : r = chunk.request /\ i = chunk.index /\ o = chunk.offset /\ n = chunk.pos
    OBVIOUS
  <2>1. chunk = [request |-> r, index |-> i, offset |-> o, pos |-> n]
    BY <1>2
  <2>2. r \in Requests \cup {Free} /\ i \in Nat /\ o \in Nat /\ n \in Nat
    BY <1>2
  <2>3. CASE chunk.offset + 1 < VisitLen
    <3>1. chunk' = [request |-> r, index |-> i, offset |-> o + 1, pos |-> n + 1]
      BY <2>1, <2>3, <1>1
    <3> QED
      BY <3>1, <2>2
  <2>4. CASE ~(chunk.offset + 1 < VisitLen)
    <3>1. chunk' = [request |-> r, index |-> i + 1, offset |-> 0, pos |-> n + 1]
      BY <2>1, <2>4, <1>1
    <3> QED
      BY <3>1, <2>2
  <2> QED
    BY <2>3, <2>4
<1>8. /\ visited' \in Seq({Val("logits", Layers, s) : s \in Seq(Tokens)}) /\ Len(visited') = chunk'.pos
      /\ \A i \in 1 .. chunk'.pos : visited'[i] = Val("logits", Layers, SubSeq(Asked, 1, i))
  <2> PICK v : v = buffers["logits"]
    OBVIOUS
  <2>1. SubSeq(Asked, 1, chunk.pos + 1) \in Seq(Tokens)
    BY <1>3
  <2>2. v \in {Val("logits", Layers, s) : s \in Seq(Tokens)} /\ visited' = Append(visited, v)
    BY <1>1, <1>6, <2>1
  <2>3. /\ visited' \in Seq({Val("logits", Layers, s) : s \in Seq(Tokens)}) /\ Len(visited') = chunk.pos + 1
        /\ visited'[chunk.pos + 1] = v /\ \A i \in 1 .. chunk.pos : visited'[i] = visited[i]
    BY <2>2, <1>2, <1>3, AppendProperties
  <2>4. ASSUME NEW i \in 1 .. chunk.pos + 1 PROVE visited'[i] = Val("logits", Layers, SubSeq(Asked, 1, i))
    <3>1. CASE i = chunk.pos + 1
      BY <3>1, <2>3, <1>6
    <3>2. CASE i \in 1 .. chunk.pos
      BY <3>2, <2>3, <1>2
    <3> QED
      BY <3>1, <3>2, <1>3
  <2> QED
    BY <2>3, <2>4, <1>7
<1>9. AskedAt' < Len(Asked) => chunk'.pos = AskedAt' + chunk'.offset /\ chunk'.offset < VisitLen'
  <2>1. CASE chunk.offset + 1 < VisitLen
    <3>1. chunk' = [chunk EXCEPT !.offset = @ + 1, !.pos = @ + 1]
      BY <2>1, <1>1
    <3>2. chunk'.offset = chunk.offset + 1 /\ chunk'.index = chunk.index
      BY <3>1, <1>2
    <3>3. AskedAt' = AskedAt /\ VisitLen' = VisitLen
      BY <3>2, <1>7 DEF AskedAt, VisitLen
    <3> QED
      BY <3>2, <3>3, <2>1, <1>3, <1>7
  <2>2. CASE ~(chunk.offset + 1 < VisitLen)
    <3>1. chunk' = [chunk EXCEPT !.index = @ + 1, !.offset = 0, !.pos = @ + 1]
      BY <2>2, <1>1
    <3>2. chunk'.offset = 0 /\ chunk'.index = chunk.index + 1
      BY <3>1, <1>2
    <3> PICK c \in Nat : c = chunk.request.chunk /\ c > 0
      BY <1>3
    <3>3. AskedAt' = AskedAt + c
      <4>1. (chunk.index + 1) * c = chunk.index * c + c
        <5> PICK i \in Nat : i = chunk.index
          BY <1>3
        <5>1. (i + 1) * c = i * c + c
          BY ONLY i \in Nat, c \in Nat
        <5> QED
          BY <5>1
      <4> QED
        BY <4>1, <3>2, <1>7 DEF AskedAt
    <3>4. VisitLen' = (IF Len(Asked) - AskedAt' < c THEN Len(Asked) - AskedAt' ELSE c)
      BY <1>7 DEF VisitLen, AskedAt, Asked
    <3>5. VisitLen = (IF Len(Asked) - AskedAt < c THEN Len(Asked) - AskedAt ELSE c)
      BY DEF VisitLen, AskedAt, Asked
    <3> PICK a \in Nat, m \in Nat, o \in Nat : a = AskedAt /\ m = Len(Asked) /\ o = chunk.offset
      BY <1>3
    <3>6. o < VisitLen /\ ~(o + 1 < VisitLen) /\ chunk'.pos = a + o + 1
      BY <1>2, <1>3, <1>7, <2>2
    <3>7. CASE m - a < c
      <4>1. o + 1 = m - a
        BY <3>5, <3>6, <3>7
      <4> QED
        BY <4>1, <3>3, <3>7
    <3>8. CASE ~(m - a < c)
      <4>1. o + 1 = c
        BY <3>5, <3>6, <3>8
      <4>2. AskedAt' = a + c /\ AskedAt' \in Nat
        BY <3>3
      <4>3. AskedAt' < m => 0 < VisitLen'
        BY <3>4, <4>2
      <4>4. chunk'.pos = AskedAt' + 0
        <5>1. a + (o + 1) = a + c
          BY <4>1, Zenon
        <5>2. a + o + 1 = a + (o + 1) /\ a + c + 0 = a + c
          OBVIOUS
        <5>3. chunk'.pos = a + c
          BY <5>1, <5>2, <3>6
        <5> QED
          BY <5>2, <5>3, <4>2
      <4> QED
        BY <4>3, <4>4, <3>2
    <3> QED
      BY <3>7, <3>8
  <2> QED
    BY <2>1, <2>2
<1>10. PassVisits'
  <2>1. Asked' = Asked /\ chunk'.request # Free
    BY <1>1, <1>7 DEF Asked
  <2>2. hist' = SubSeq(Asked, 1, chunk'.pos)
    BY <1>1, <1>2, <1>7
  <2> QED
    BY <2>1, <2>2, <1>4, <1>7, <1>8, <1>9 DEF PassVisits
<1> QED
  BY <1>5, <1>10 DEF PassInv

LEMMA PassStep == PassInv /\ [ForwardNext]_forwardVars => PassInv'
<1> SUFFICES ASSUME PassInv, [ForwardNext]_forwardVars PROVE PassInv'
  OBVIOUS
<1>1. CASE UNCHANGED forwardVars
  <2>1. UNCHANGED <<format, buffers, cache, hist, pass, chunk, visited>>
    BY <1>1 DEF forwardVars
  <2>2. PassTypes' /\ PassOk' /\ PassVisits'
    BY <2>1 DEF PassInv, PassTypes, PassOk, PassVisits, Asked, AskedAt, VisitLen, Computing, Line, Seen
  <2>3. Line' = Line /\ (\A l, p : Kept(l, p)' = Kept(l, p)) /\ (\A name : Meant(name)' = Meant(name))
    BY <2>1, Zenon DEF Line, Kept, Seen, Computing, Meant, Now
  <2>4. PassCache'
    BY <2>1, <2>3 DEF PassInv, PassCache
  <2>5. PassRun'
    <3>1. Steps' = Steps /\ End' = End /\ pass' = pass
      BY <2>1, ProgramStays DEF Steps, End
    <3>2. ASSUME NEW K PROVE Holds(K)' = Holds(K)
      BY <2>1, <2>3 DEF Holds
    <3> QED
      BY <3>1, <3>2 DEF PassInv, PassRun, Computing
  <2> QED
    BY <2>2, <2>4, <2>5 DEF PassInv
<1> QED
  BY <1>1, ComputeStep, StoreStep, AttentionStep, FailStep, VisitCallStep, VisitStep, CallAnywhereStep DEF ForwardNext

(***************************************************************************)
(* When a call returns Ok, its logits are those of the tokens up to its    *)
(* own, and the visit loop gives those of every prefix in order, whatever  *)
(* an earlier call, one that failed half-way or one of a longer context    *)
(* has left in the workspace and the cache.                                *)
(***************************************************************************)
THEOREM LogitsOfTokensTheorem == ForwardSpec => []LogitsOfTokens
<1>1. PassInv => LogitsOfTokens
  <2> SUFFICES ASSUME PassInv PROVE LogitsOfTokens
    OBVIOUS
  <2>1. CASE chunk.request = Free
    <3>1. DOMAIN visited = {}
      BY <2>1 DEF PassInv, PassVisits
    <3> QED
      BY <3>1 DEF LogitsOfTokens, PassInv, PassOk
  <2>2. CASE chunk.request # Free
    <3>1. DOMAIN visited = 1 .. chunk.pos
      BY <2>2 DEF PassInv, PassVisits
    <3> QED
      BY <3>1, <2>2 DEF LogitsOfTokens, PassInv, PassOk, PassVisits, Asked
  <2> QED
    BY <2>1, <2>2
<1> QED
  BY <1>1, PassStarts, PassStep, PTL DEF ForwardSpec

-----------------------------------------------------------------------------
(***************************************************************************)
(* Sums of the first terms of a vector, by a running total.                *)
(***************************************************************************)
Terms(n, t) == \A i \in 0 .. n - 1 : t[i] \in Int

IsTotal(tot, n, t) ==
  /\ \A i \in 0 .. n : tot[i] \in Int
  /\ tot[0] = 0
  /\ \A i \in 0 .. n - 1 : tot[i + 1] = tot[i] + t[i]

LEMMA HasTotal ==
  ASSUME NEW n \in Nat, NEW t, Terms(n, t)
  PROVE  \E tot : IsTotal(tot, n, t)
<1> DEFINE Added(i, c) == c + t[i - 1]
<1>1. \A i \in 1 .. n, c \in Int : Added(i, c) \in Int
  <2> SUFFICES ASSUME NEW i \in 1 .. n, NEW c \in Int PROVE Added(i, c) \in Int
    OBVIOUS
  <2>1. i - 1 \in 0 .. n - 1
    OBVIOUS
  <2>2. QED
    BY <2>1 DEF Terms
<1> HIDE DEF Added
<1>2. PICK step \in [1 .. n -> [Int -> Int]] : step = [i \in 1 .. n |-> [c \in Int |-> Added(i, c)]]
  BY <1>1
<1>3. StepsIn(Int, 0, n, step)
  BY DEF StepsIn
<1>4. PICK tot : IsRun(tot, Int, 0, n, step)
  BY <1>3, Recursion
<1>5. \A i \in 0 .. n : tot[i] \in Int
  BY <1>4 DEF IsRun
<1>6. ASSUME NEW i \in 0 .. n - 1 PROVE tot[i + 1] = tot[i] + t[i]
  <2>1. i + 1 \in 1 .. n /\ (i + 1) - 1 = i /\ tot[i] \in Int
    BY <1>5
  <2>2. tot[i + 1] = step[i + 1][tot[i]]
    BY <1>4, <2>1 DEF IsRun
  <2>3. step[i + 1][tot[i]] = Added(i + 1, tot[i])
    BY <1>2, <2>1
  <2>4. QED
    BY <2>1, <2>2, <2>3 DEF Added
<1>7. QED
  BY <1>4, <1>5, <1>6 DEF IsTotal, IsRun

\* Halves of an interval.
LEMMA Halves ==
  ASSUME NEW len \in Nat, len > 1
  PROVE  /\ len \div 2 \in 1 .. len - 1
         /\ len - len \div 2 \in 1 .. len - 1
  OBVIOUS

LEMMA SumIsTotal ==
  ASSUME NEW n \in Nat, NEW t, NEW tot, IsTotal(tot, n, t), Terms(n, t)
  PROVE  Sum(n, t) = tot[n]
<1> DEFINE E(f) == [len \in 0..n |->
                      [from \in 0..(n - len) |->
                         IF len = 0 THEN 0
                         ELSE IF len = 1 THEN t[from]
                         ELSE f[len \div 2][from] + f[len - len \div 2][from + len \div 2]]]
           g == [len \in 0..n |-> [from \in 0..(n - len) |-> tot[from + len] - tot[from]]]
           f == CHOOSE f : f = E(f)
<1>1. Sum(n, t) = f[n][0]
  BY DEF Sum
<1>2. \A len \in 0..n : \A from \in 0..(n - len) : g[len][from] = tot[from + len] - tot[from]
  OBVIOUS
<1>3. g = E(g)
  <2>1. ASSUME NEW len \in 0..n, NEW from \in 0..(n - len)
        PROVE  g[len][from] = E(g)[len][from]
    <3>1. CASE len = 0
      BY <1>2, <3>1 DEF IsTotal
    <3>2. CASE len = 1
      <4>1. from \in 0 .. n - 1 /\ tot[from + 1] = tot[from] + t[from] /\ tot[from] \in Int /\ t[from] \in Int
        BY <3>2 DEF IsTotal, Terms
      <4>2. QED
        BY <1>2, <3>2, <4>1
    <3>3. CASE len > 1
      <4>1. PICK a, b : a = len \div 2 /\ b = len - len \div 2
        OBVIOUS
      <4>2. a \in 1 .. len - 1 /\ b \in 1 .. len - 1 /\ a + b = len
        BY <3>3, <4>1, Halves
      <4>3. a \in 0..n /\ b \in 0..n /\ from \in 0..(n - a) /\ from + a \in 0..(n - b)
        BY <4>2
      <4>4. g[a][from] = tot[from + a] - tot[from] /\ g[b][from + a] = tot[(from + a) + b] - tot[from + a]
        BY <1>2, <4>3
      <4>5. (from + a) + b = from + len /\ tot[from + a] \in Int /\ tot[from] \in Int /\ tot[from + len] \in Int
        BY <4>2, <4>3 DEF IsTotal
      <4>6. E(g)[len][from] = g[a][from] + g[b][from + a]
        <5> HIDE DEF g
        <5>1. QED
          BY <3>3, <4>1
      <4>7. g[len][from] = tot[from + len] - tot[from]
        BY <1>2
      <4>8. QED
        <5> HIDE DEF g, E
        <5>1. QED
          BY <4>4, <4>5, <4>6, <4>7
    <3>4. len = 0 \/ len = 1 \/ len > 1
      BY ONLY len \in 0 .. n, n \in Nat
    <3>5. QED
      BY ONLY <3>1, <3>2, <3>3, <3>4
  <2>2. ASSUME NEW len \in 0..n PROVE g[len] = E(g)[len]
    <3>1. g[len] = [from \in 0..(n - len) |-> g[len][from]]
      OBVIOUS
    <3>2. E(g)[len] = [from \in 0..(n - len) |-> E(g)[len][from]]
      <4> HIDE DEF g
      <4>1. QED
        OBVIOUS
    <3> HIDE DEF g, E
    <3>3. QED
      BY ONLY <2>1, <3>1, <3>2, len \in 0..n
  <2>3. QED
    BY <2>2
<1> HIDE DEF E, g
<1>4. f = E(f)
  BY <1>3
<1> HIDE DEF f
<1>5. ASSUME NEW len \in 0..n, NEW from \in 0..(n - len)
      PROVE  f[len][from] = IF len = 0 THEN 0
                            ELSE IF len = 1 THEN t[from]
                            ELSE f[len \div 2][from] + f[len - len \div 2][from + len \div 2]
  <2>1. f[len][from] = E(f)[len][from]
    BY <1>4
  <2>2. QED
    BY <2>1 DEF E
<1> DEFINE T == { m \in Nat : \A len \in 0..n : len <= m => \A from \in 0..(n - len) : f[len][from] = tot[from + len] - tot[from] }
<1>6. ASSUME NEW from \in 0..n PROVE f[0][from] = tot[from + 0] - tot[from]
  BY <1>5 DEF IsTotal
<1>7. 0 \in T
  BY <1>6
<1>8. ASSUME NEW m \in Nat, m \in T PROVE m + 1 \in T
  <2> SUFFICES ASSUME NEW len \in 0..n, len <= m + 1, NEW from \in 0..(n - len)
               PROVE  f[len][from] = tot[from + len] - tot[from]
    OBVIOUS
  <2>1. CASE len <= m
    BY <1>8, <2>1
  <2>2. CASE len = 1
    <3>1. from \in 0 .. n - 1 /\ tot[from + 1] = tot[from] + t[from] /\ tot[from] \in Int /\ t[from] \in Int
      BY <2>2 DEF IsTotal, Terms
    <3>2. QED
      BY <1>5, <2>2, <3>1
  <2>3. CASE len = m + 1 /\ len > 1
    <3>1. PICK a, b : a = len \div 2 /\ b = len - len \div 2
      OBVIOUS
    <3>2. a \in 1 .. m /\ b \in 1 .. m /\ a + b = len
      BY <2>3, <3>1, Halves
    <3>3. a \in 0..n /\ b \in 0..n /\ from \in 0..(n - a) /\ from + a \in 0..(n - b)
      BY <3>2
    <3>4. f[a][from] = tot[from + a] - tot[from] /\ f[b][from + a] = tot[(from + a) + b] - tot[from + a]
      BY <1>8, <3>2, <3>3
    <3>5. (from + a) + b = from + len /\ tot[from + a] \in Int /\ tot[from] \in Int /\ tot[from + len] \in Int
      BY <3>2, <3>3 DEF IsTotal
    <3>6. f[len][from] = f[len \div 2][from] + f[len - len \div 2][from + len \div 2]
      <4>1. len # 0 /\ len # 1 /\ len \in 0..n /\ from \in 0..(n - len)
        BY <2>3
      <4>2. QED
        BY ONLY <4>1, <1>5
    <3>7. QED
      BY <3>1, <3>4, <3>5, <3>6
  <2>4. QED
    BY <2>1, <2>2, <2>3
<1> HIDE DEF T
<1>9. Nat \subseteq T
  BY <1>7, <1>8, Induction
<1>10. n \in T
  BY <1>9
<1>11. f[n][0] = tot[0 + n] - tot[0]
  BY <1>10 DEF T
<1>12. QED
  BY <1>1, <1>11 DEF IsTotal

\* Sums whose terms are made from those of others.
LEMMA SumInt ==
  ASSUME NEW n \in Nat, NEW t, Terms(n, t)
  PROVE  Sum(n, t) \in Int
<1>1. PICK tot : IsTotal(tot, n, t)
  BY HasTotal
<1>2. Sum(n, t) = tot[n]
  BY <1>1, SumIsTotal
<1>3. QED
  BY <1>1, <1>2 DEF IsTotal

LEMMA SumAlike ==
  ASSUME NEW n \in Nat, NEW t, Terms(n, t), NEW u, \A i \in 0 .. n - 1 : u[i] = t[i]
  PROVE  Terms(n, u) /\ Sum(n, u) = Sum(n, t)
<1>1. PICK tot : IsTotal(tot, n, t)
  BY HasTotal
<1>2. IsTotal(tot, n, u) /\ Terms(n, u)
  BY <1>1 DEF IsTotal, Terms
<1>3. QED
  BY <1>1, <1>2, SumIsTotal

LEMMA SumPlus ==
  ASSUME NEW n \in Nat, NEW t, NEW u, Terms(n, t), Terms(n, u),
         NEW w, \A i \in 0 .. n - 1 : w[i] = t[i] + u[i]
  PROVE  Terms(n, w) /\ Sum(n, w) = Sum(n, t) + Sum(n, u)
<1>1. PICK a : IsTotal(a, n, t)
  BY HasTotal
<1>2. PICK b : IsTotal(b, n, u)
  BY HasTotal
<1>3. PICK c : c = [i \in 0 .. n |-> a[i] + b[i]]
  OBVIOUS
<1>4. IsTotal(c, n, w) /\ Terms(n, w)
  <2>1. \A i \in 0 .. n : c[i] = a[i] + b[i] /\ a[i] \in Int /\ b[i] \in Int
    BY <1>1, <1>2, <1>3 DEF IsTotal
  <2>2. ASSUME NEW i \in 0 .. n - 1 PROVE c[i + 1] = c[i] + w[i] /\ w[i] \in Int
    <3>1. i \in 0 .. n /\ i + 1 \in 0 .. n
      OBVIOUS
    <3>2. a[i + 1] = a[i] + t[i] /\ b[i + 1] = b[i] + u[i] /\ t[i] \in Int /\ u[i] \in Int
      BY <1>1, <1>2 DEF IsTotal, Terms
    <3>3. QED
      BY <2>1, <3>1, <3>2
  <2>3. a[0] = 0 /\ b[0] = 0 /\ 0 \in 0 .. n
    BY <1>1, <1>2 DEF IsTotal
  <2>4. QED
    BY <2>1, <2>2, <2>3 DEF IsTotal, Terms
<1>5. Sum(n, w) = c[n] /\ Sum(n, t) = a[n] /\ Sum(n, u) = b[n]
  BY <1>1, <1>2, <1>4, SumIsTotal
<1>6. QED
  BY <1>3, <1>4, <1>5

LEMMA SumTimes ==
  ASSUME NEW n \in Nat, NEW t, Terms(n, t), NEW d \in Int,
         NEW w, \A i \in 0 .. n - 1 : w[i] = d * t[i]
  PROVE  Terms(n, w) /\ Sum(n, w) = d * Sum(n, t)
<1>1. PICK a : IsTotal(a, n, t)
  BY HasTotal
<1>2. PICK c : c = [i \in 0 .. n |-> d * a[i]]
  OBVIOUS
<1>3. IsTotal(c, n, w) /\ Terms(n, w)
  <2>1. \A i \in 0 .. n : c[i] = d * a[i] /\ a[i] \in Int /\ c[i] \in Int
    BY <1>1, <1>2 DEF IsTotal
  <2>2. ASSUME NEW i \in 0 .. n - 1 PROVE c[i + 1] = c[i] + w[i] /\ w[i] \in Int
    <3>1. i \in 0 .. n /\ i + 1 \in 0 .. n
      OBVIOUS
    <3>2. a[i + 1] = a[i] + t[i] /\ t[i] \in Int /\ a[i] \in Int
      BY <1>1, <3>1 DEF IsTotal, Terms
    <3>3. PICK p \in Int, q \in Int : p = a[i] /\ q = t[i]
      BY <3>2
    <3>4. d * (p + q) = d * p + d * q /\ d * q \in Int
      OBVIOUS
    <3>5. c[i + 1] = d * (p + q) /\ c[i] = d * p /\ w[i] = d * q
      BY <2>1, <3>1, <3>2, <3>3
    <3>6. QED
      BY <3>4, <3>5
  <2>3. a[0] = 0 /\ 0 \in 0 .. n /\ d * 0 = 0
    BY <1>1 DEF IsTotal
  <2>4. QED
    BY <2>1, <2>2, <2>3 DEF IsTotal, Terms
<1>4. Sum(n, w) = c[n] /\ Sum(n, t) = a[n]
  BY <1>1, <1>3, SumIsTotal
<1>5. QED
  BY <1>2, <1>3, <1>4

\* The sum of a part of the terms.
LEMMA SumOfPart ==
  ASSUME NEW n \in Nat, NEW t, Terms(n, t), NEW tot, IsTotal(tot, n, t),
         NEW m \in Nat, NEW k \in Nat, m + k <= n,
         NEW u, \A j \in 0 .. k - 1 : u[j] = t[m + j]
  PROVE  Terms(k, u) /\ Sum(k, u) = tot[m + k] - tot[m]
<1>1. PICK c : c = [j \in 0 .. k |-> tot[m + j] - tot[m]]
  OBVIOUS
<1>2. IsTotal(c, k, u) /\ Terms(k, u)
  <2>1. \A j \in 0 .. k : c[j] = tot[m + j] - tot[m] /\ tot[m + j] \in Int /\ tot[m] \in Int
    BY <1>1 DEF IsTotal
  <2>2. ASSUME NEW j \in 0 .. k - 1 PROVE c[j + 1] = c[j] + u[j] /\ u[j] \in Int
    <3>1. j \in 0 .. k /\ j + 1 \in 0 .. k /\ m + j \in 0 .. n - 1 /\ m + (j + 1) = (m + j) + 1
      OBVIOUS
    <3>2. tot[(m + j) + 1] = tot[m + j] + t[m + j] /\ t[m + j] \in Int
      BY <3>1 DEF IsTotal, Terms
    <3>3. c[j + 1] = tot[(m + j) + 1] - tot[m] /\ c[j] = tot[m + j] - tot[m] /\ u[j] = t[m + j]
      BY <1>1, <3>1
    <3>4. tot[m + j] \in Int /\ tot[m] \in Int
      BY <2>1, <3>1
    <3>5. QED
      BY <3>2, <3>3, <3>4
  <2>3. c[0] = 0 /\ \A j \in 0 .. k : c[j] \in Int
    <3>1. 0 \in 0 .. k /\ m + 0 = m
      OBVIOUS
    <3>2. QED
      BY <2>1, <3>1
  <2>4. QED
    BY <2>2, <2>3 DEF IsTotal, Terms
<1>3. Sum(k, u) = c[k]
  BY <1>2, SumIsTotal
<1>4. QED
  BY <1>1, <1>2, <1>3

\* Sums of a * b terms, b at a time.
InBlocks(S, t, a, b) ==
  \A k \in 0 .. a - 1 : \E u : S[k] = Sum(b, u) /\ \A j \in 0 .. b - 1 : u[j] = t[k * b + j]

LEMMA SumOfBlocks ==
  ASSUME NEW a \in Nat, NEW b \in Nat, NEW n \in Nat, n = a * b, NEW t, Terms(n, t),
         NEW S, InBlocks(S, t, a, b)
  PROVE  Terms(a, S) /\ Sum(n, t) = Sum(a, S)
<1>1. PICK tot : IsTotal(tot, n, t)
  BY HasTotal
<1>2. PICK c : c = [k \in 0 .. a |-> tot[k * b]]
  OBVIOUS
<1>3. ASSUME NEW k \in 0 .. a PROVE k * b \in 0 .. n /\ c[k] = tot[k * b] /\ tot[k * b] \in Int
  <2>1. b * k <= b * a /\ b * k \in Nat
    BY TimesMonotone
  <2>2. b * k = k * b /\ b * a = n
    OBVIOUS
  <2>3. QED
    BY <1>1, <1>2, <2>1, <2>2 DEF IsTotal
<1>4. ASSUME NEW k \in 0 .. a - 1 PROVE c[k + 1] = c[k] + S[k] /\ S[k] \in Int
  <2>1. PICK u : S[k] = Sum(b, u) /\ \A j \in 0 .. b - 1 : u[j] = t[k * b + j]
    BY DEF InBlocks
  <2>2. k \in 0 .. a /\ k + 1 \in 0 .. a /\ (k + 1) * b = k * b + b
    OBVIOUS
  <2>3. PICK m \in Nat : m = k * b
    BY <1>3, <2>2
  <2>4. m + b <= n /\ c[k] = tot[m] /\ c[k + 1] = tot[m + b] /\ tot[m] \in Int /\ tot[m + b] \in Int
    BY <1>3, <2>2, <2>3
  <2>5. Sum(b, u) = tot[m + b] - tot[m]
    BY <1>1, <2>1, <2>3, <2>4, SumOfPart
  <2>6. QED
    BY <2>1, <2>4, <2>5
<1>5. IsTotal(c, a, S) /\ Terms(a, S)
  <2>1. c[0] = 0
    <3>1. 0 \in 0 .. a /\ 0 * b = 0
      OBVIOUS
    <3>2. QED
      BY <1>1, <1>3, <3>1 DEF IsTotal
  <2>2. QED
    BY <1>3, <1>4, <2>1 DEF IsTotal, Terms
<1>6. Sum(a, S) = c[a]
  BY <1>5, SumIsTotal
<1>7. a \in 0 .. a /\ c[a] = tot[n]
  BY <1>3
<1>8. QED
  BY <1>1, <1>5, <1>6, <1>7, SumIsTotal

\* Sums of sums, by rows and by columns.
InColumns(C, F, a, b) ==
  \A i \in 0 .. b - 1 : \E u : C[i] = Sum(a, u) /\ \A k \in 0 .. a - 1 : u[k] = F[k][i]

InRows(R, F, a, b) == \A k \in 0 .. a - 1 : Terms(b, F[k]) /\ R[k] = Sum(b, F[k])

LEMMA SumOfSums ==
  ASSUME NEW a \in Nat, NEW b \in Nat, NEW F, NEW R, InRows(R, F, a, b), NEW C, InColumns(C, F, a, b)
  PROVE  Terms(a, R) /\ Terms(b, C) /\ Sum(a, R) = Sum(b, C)
<1>0. \A k \in 0 .. a - 1 : Terms(b, F[k]) /\ R[k] = Sum(b, F[k])
  BY DEF InRows
<1> DEFINE Column(i) == [k \in 0 .. a - 1 |-> F[k][i]]
           Tot(i) == CHOOSE tot : IsTotal(tot, a, Column(i))
           D(m) == [i \in 0 .. b - 1 |-> Tot(i)[m]]
<1>1. ASSUME NEW i \in 0 .. b - 1
      PROVE  /\ IsTotal(Tot(i), a, Column(i)) /\ Terms(a, Column(i))
             /\ \A k \in 0 .. a - 1 : Column(i)[k] = F[k][i]
  <2>1. Terms(a, Column(i))
    BY <1>0 DEF Terms
  <2>2. \A k \in 0 .. a - 1 : Column(i)[k] = F[k][i]
    OBVIOUS
  <2> HIDE DEF Column
  <2>3. QED
    BY <2>1, <2>2, HasTotal
<1>2. ASSUME NEW i \in 0 .. b - 1 PROVE C[i] = Tot(i)[a] /\ C[i] \in Int
  <2>1. PICK u : C[i] = Sum(a, u) /\ \A k \in 0 .. a - 1 : u[k] = F[k][i]
    BY DEF InColumns
  <2>2. \A k \in 0 .. a - 1 : u[k] = Column(i)[k]
    BY <2>1
  <2> HIDE DEF Column, Tot
  <2>3. Sum(a, u) = Sum(a, Column(i))
    BY <1>1, <2>2, SumAlike
  <2>4. Sum(a, Column(i)) = Tot(i)[a]
    BY <1>1, SumIsTotal
  <2>5. Tot(i)[a] \in Int
    BY <1>1 DEF IsTotal
  <2>6. QED
    BY <2>1, <2>3, <2>4, <2>5
<1>3. \A m : \A i \in 0 .. b - 1 : D(m)[i] = Tot(i)[m]
  OBVIOUS
<1>4. \A i \in 0 .. b - 1 : \A m \in 0 .. a : Tot(i)[m] \in Int
  <2> HIDE DEF Tot, Column
  <2>1. QED
    BY <1>1 DEF IsTotal
<1>5. ASSUME NEW m \in 0 .. a PROVE Terms(b, D(m))
  <2> HIDE DEF D, Tot
  <2>1. QED
    BY <1>3, <1>4 DEF Terms
<1>6. PICK c : c = [m \in 0 .. a |-> Sum(b, D(m))]
  OBVIOUS
<1>7. \A m \in 0 .. a : c[m] = Sum(b, D(m))
  <2> HIDE DEF D
  <2>1. QED
    BY <1>6
<1>8. c[0] = 0
  <2>1. \A i \in 0 .. b - 1 : D(0)[i] = 0
    <3> HIDE DEF D, Tot, Column
    <3>1. QED
      BY <1>1, <1>3 DEF IsTotal
  <2>2. PICK z : z = D(0)
    OBVIOUS
  <2>3. \A i \in 0 .. b - 1 : z[i] = 0
    <3> HIDE DEF D
    <3>1. QED
      BY <2>1, <2>2
  <2>4. PICK q : q = [i \in 0 .. b |-> 0]
    OBVIOUS
  <2>5. IsTotal(q, b, z) /\ Terms(b, z)
    BY <2>3, <2>4 DEF IsTotal, Terms
  <2>6. Sum(b, z) = q[b]
    BY <2>5, SumIsTotal
  <2>7. q[b] = 0 /\ 0 \in 0 .. a
    BY <2>4
  <2> HIDE DEF D
  <2>8. QED
    BY <1>7, <2>2, <2>6, <2>7
<1> HIDE DEF D, Tot, Column
<1>9. ASSUME NEW m \in 0 .. a - 1 PROVE c[m + 1] = c[m] + R[m] /\ R[m] \in Int /\ c[m] \in Int
  <2>1. m \in 0 .. a /\ m + 1 \in 0 .. a
    OBVIOUS
  <2>2. ASSUME NEW i \in 0 .. b - 1 PROVE D(m + 1)[i] = D(m)[i] + F[m][i]
    <3>1. Tot(i)[m + 1] = Tot(i)[m] + Column(i)[m] /\ Column(i)[m] = F[m][i]
      BY <1>1 DEF IsTotal
    <3>2. QED
      BY <1>3, <3>1
  <2>3. PICK x1, x2, x3 : x1 = D(m) /\ x2 = D(m + 1) /\ x3 = F[m]
    OBVIOUS
  <2>4. Terms(b, x1) /\ Terms(b, x3) /\ \A i \in 0 .. b - 1 : x2[i] = x1[i] + x3[i]
    BY <1>0, <1>5, <2>1, <2>2, <2>3
  <2>5. Sum(b, x2) = Sum(b, x1) + Sum(b, x3) /\ Sum(b, x1) \in Int /\ Sum(b, x3) \in Int
    BY <2>4, SumPlus, SumInt
  <2>6. c[m] = Sum(b, x1) /\ c[m + 1] = Sum(b, x2) /\ R[m] = Sum(b, x3)
    BY <1>0, <1>7, <2>1, <2>3
  <2>7. QED
    BY <2>5, <2>6
<1>10. \A m \in 0 .. a : c[m] \in Int
  <2> SUFFICES ASSUME NEW m \in 0 .. a PROVE c[m] \in Int
    OBVIOUS
  <2>1. Sum(b, D(m)) \in Int
    BY <1>5, SumInt
  <2>2. QED
    BY <1>7, <2>1
<1>11. IsTotal(c, a, R) /\ Terms(a, R)
  BY <1>8, <1>9, <1>10 DEF IsTotal, Terms
<1>12. Sum(a, R) = c[a]
  BY <1>11, SumIsTotal
<1>13. Terms(b, C) /\ \A i \in 0 .. b - 1 : C[i] = D(a)[i]
  BY <1>2, <1>3 DEF Terms
<1>14. a \in 0 .. a /\ Terms(b, D(a))
  BY <1>5
<1>15. PICK e : e = D(a)
  OBVIOUS
<1>16. Sum(b, C) = Sum(b, e)
  BY <1>13, <1>14, <1>15, SumAlike
<1>17. QED
  BY <1>7, <1>11, <1>12, <1>13, <1>14, <1>15, <1>16

(***************************************************************************)
(* A sum in f32 that is not refused is the sum, of terms that are finite.  *)
(***************************************************************************)
AllFinite(t, from, len, start, tot) ==
  \A i \in 0 .. len - 1 : Finite(t[from + i]) /\ Finite(start + tot[(from + i) + 1] - tot[from])

LEMMA AllFiniteHalves ==
  ASSUME NEW n \in Nat, NEW t, NEW tot, \A i \in 0 .. n : tot[i] \in Int,
         NEW len \in 0 .. n, NEW from \in 0 .. n - len, NEW start \in Int,
         NEW a \in 0 .. len, NEW b \in 0 .. len, a + b = len
  PROVE  AllFinite(t, from, len, start, tot)
           <=> AllFinite(t, from, a, start, tot) /\ AllFinite(t, from + a, b, (start + tot[from + a]) - tot[from], tot)
<1> DEFINE mid == (start + tot[from + a]) - tot[from]
           P(i) == Finite(t[i]) /\ Finite(start + tot[i + 1] - tot[from])
<1>1. tot[from] \in Int /\ tot[from + a] \in Int
  OBVIOUS
<1>2. ASSUME NEW i \in 0 .. b - 1
      PROVE  mid + tot[((from + a) + i) + 1] - tot[from + a] = start + tot[((from + a) + i) + 1] - tot[from]
  <2>1. ((from + a) + i) + 1 \in 0 .. n
    OBVIOUS
  <2>2. tot[((from + a) + i) + 1] \in Int
    BY <2>1
  <2>3. QED
    BY <1>1, <2>2
<1>3. AllFinite(t, from + a, b, mid, tot) <=> \A i \in 0 .. b - 1 : P((from + a) + i)
  BY <1>2 DEF AllFinite
<1>4. AllFinite(t, from, a, start, tot) <=> \A i \in 0 .. a - 1 : P(from + i)
  BY DEF AllFinite
<1>5. AllFinite(t, from, len, start, tot) <=> \A i \in 0 .. len - 1 : P(from + i)
  BY DEF AllFinite
<1> HIDE DEF P
<1>6. ASSUME \A i \in 0 .. a - 1 : P(from + i), \A i \in 0 .. b - 1 : P((from + a) + i), NEW i \in 0 .. len - 1
      PROVE  P(from + i)
  <2>1. CASE i < a
    BY <1>6, <2>1
  <2>2. CASE i >= a
    <3>1. i - a \in 0 .. b - 1 /\ (from + a) + (i - a) = from + i
      BY <2>2
    <3>2. P((from + a) + (i - a))
      BY <1>6, <3>1
    <3>3. QED
      BY <3>1, <3>2
  <2>3. QED
    BY <2>1, <2>2
<1>7. ASSUME \A i \in 0 .. len - 1 : P(from + i)
      PROVE  (\A i \in 0 .. a - 1 : P(from + i)) /\ (\A i \in 0 .. b - 1 : P((from + a) + i))
  <2>1. ASSUME NEW i \in 0 .. b - 1 PROVE P((from + a) + i)
    <3>1. a + i \in 0 .. len - 1 /\ from + (a + i) = (from + a) + i
      OBVIOUS
    <3>2. P(from + (a + i))
      BY <1>7, <3>1
    <3>3. QED
      BY <3>1, <3>2
  <2>2. QED
    BY <1>7, <2>1
<1>8. QED
  BY <1>3, <1>4, <1>5, <1>6, <1>7

LEMMA SumsType ==
  ASSUME NEW s \in Sums
  PROVE  s.ok \in BOOLEAN /\ s.value \in Int /\ s = [ok |-> s.ok, value |-> s.value]
BY DEF Sums

LEMMA FiniteSumIsTotal ==
  ASSUME NEW n \in Nat, NEW t, NEW tot, IsTotal(tot, n, t), Terms(n, t)
  PROVE  FiniteSum(n, t) = [ok |-> AllFinite(t, 0, n, 0, tot), value |-> tot[n]]
<1> DEFINE E(f) == [len \in 0..n |->
                      [from \in 0..(n - len) |-> [s \in Sums |->
                         IF len = 0 THEN s
                         ELSE IF len = 1 THEN Plus(s, t[from])
                         ELSE f[len - len \div 2][from + len \div 2][f[len \div 2][from][s]]]]]
           Closed(len, from, s) == [ok |-> s.ok /\ AllFinite(t, from, len, s.value, tot),
                                    value |-> (s.value + tot[from + len]) - tot[from]]
           g == [len \in 0..n |-> [from \in 0..(n - len) |-> [s \in Sums |-> Closed(len, from, s)]]]
           f == CHOOSE f : f = E(f)
<1>1. FiniteSum(n, t) = f[n][0][[ok |-> TRUE, value |-> 0]]
  BY DEF FiniteSum
<1>2. \A len \in 0..n : \A from \in 0..(n - len) : \A s \in Sums : g[len][from][s] = Closed(len, from, s)
  OBVIOUS
<1>0. \A i \in 0 .. n : tot[i] \in Int
  BY DEF IsTotal
<1>3. ASSUME NEW len \in 0..n, NEW from \in 0..(n - len), NEW s \in Sums
      PROVE  /\ Closed(len, from, s) \in Sums
             /\ len = 0 => Closed(len, from, s) = s
             /\ len = 1 => Closed(len, from, s) = Plus(s, t[from])
             /\ \A a, b \in 0 .. len : a + b = len =>
                  Closed(len, from, s) = Closed(b, from + a, Closed(a, from, s))
  <2>1. s.ok \in BOOLEAN /\ s.value \in Int /\ s = [ok |-> s.ok, value |-> s.value]
    BY SumsType
  <2>2. tot[from] \in Int /\ tot[from + len] \in Int /\ from + 0 = from
    BY <1>0
  <2>3. AllFinite(t, from, len, s.value, tot) \in BOOLEAN
    BY DEF AllFinite
  <2>4. Closed(len, from, s) \in Sums
    BY <2>1, <2>2, <2>3 DEF Sums
  <2>5. ASSUME len = 0 PROVE Closed(len, from, s) = s
    <3>1. AllFinite(t, from, len, s.value, tot)
      BY <2>5 DEF AllFinite
    <3>2. (s.value + tot[from + len]) - tot[from] = s.value
      BY <2>1, <2>2, <2>5
    <3>3. QED
      BY <2>1, <3>1, <3>2
  <2>6. ASSUME len = 1 PROVE Closed(len, from, s) = Plus(s, t[from])
    <3>1. from \in 0 .. n - 1 /\ tot[from + 1] = tot[from] + t[from] /\ t[from] \in Int
      BY <2>6 DEF IsTotal, Terms
    <3>2. (s.value + tot[from + 1]) - tot[from] = s.value + t[from] /\ s.value + tot[from + 1] - tot[from] = s.value + t[from]
      BY <2>1, <2>2, <3>1
    <3>3. AllFinite(t, from, len, s.value, tot) <=> Finite(t[from]) /\ Finite(s.value + t[from])
      <4>1. \A i : i \in 0 .. len - 1 <=> i = 0
        BY <2>6
      <4>2. from + 0 = from
        OBVIOUS
      <4>3. AllFinite(t, from, len, s.value, tot) <=> Finite(t[from + 0]) /\ Finite(s.value + tot[(from + 0) + 1] - tot[from])
        BY <4>1 DEF AllFinite
      <4>4. QED
        BY <3>2, <4>2, <4>3
    <3>4. QED
      BY <2>1, <2>6, <3>2, <3>3 DEF Plus
  <2>7. ASSUME NEW a \in 0 .. len, NEW b \in 0 .. len, a + b = len
        PROVE  Closed(len, from, s) = Closed(b, from + a, Closed(a, from, s))
    <3>1. PICK u : u = Closed(a, from, s)
      OBVIOUS
    <3>2. u.ok = (s.ok /\ AllFinite(t, from, a, s.value, tot)) /\ u.value = (s.value + tot[from + a]) - tot[from]
      BY <3>1
    <3>3. AllFinite(t, from, len, s.value, tot)
            <=> AllFinite(t, from, a, s.value, tot) /\ AllFinite(t, from + a, b, (s.value + tot[from + a]) - tot[from], tot)
      BY <1>0, <2>1, <2>7, AllFiniteHalves
    <3>4. (from + a) + b = from + len /\ tot[from + a] \in Int
      BY <1>0, <2>7
    <3>5. (u.value + tot[(from + a) + b]) - tot[from + a] = (s.value + tot[from + len]) - tot[from]
      BY <2>1, <2>2, <3>2, <3>4
    <3>6. (s.ok /\ AllFinite(t, from, len, s.value, tot)) = (u.ok /\ AllFinite(t, from + a, b, u.value, tot))
      BY <2>1, <3>2, <3>3
    <3>7. QED
      BY <3>1, <3>5, <3>6
  <2>8. QED
    BY <2>4, <2>5, <2>6, <2>7
<1> HIDE DEF Closed
<1>4. g = E(g)
  <2>1. ASSUME NEW len \in 0..n, NEW from \in 0..(n - len), NEW s \in Sums
        PROVE  g[len][from][s] = E(g)[len][from][s]
    <3>1. CASE len = 0
      BY <1>2, <1>3, <3>1
    <3>2. CASE len = 1
      BY <1>2, <1>3, <3>2
    <3>3. CASE len > 1
      <4>1. PICK a, b : a = len \div 2 /\ b = len - len \div 2
        OBVIOUS
      <4>2. a \in 1 .. len - 1 /\ b \in 1 .. len - 1 /\ a + b = len
        BY <3>3, <4>1, Halves
      <4>3. a \in 0..n /\ b \in 0..n /\ from \in 0..(n - a) /\ from + a \in 0..(n - b) /\ a \in 0..len /\ b \in 0..len
        BY <4>2
      <4>4. g[a][from][s] = Closed(a, from, s) /\ Closed(a, from, s) \in Sums
        BY <1>2, <1>3, <4>3
      <4>5. g[b][from + a][Closed(a, from, s)] = Closed(b, from + a, Closed(a, from, s))
        BY <1>2, <4>3, <4>4
      <4>6. E(g)[len][from][s] = g[b][from + a][g[a][from][s]]
        <5> HIDE DEF g
        <5>1. QED
          BY <3>3, <4>1
      <4>7. g[len][from][s] = Closed(len, from, s)
        BY <1>2
      <4>8. QED
        <5> HIDE DEF g, E
        <5>1. QED
          BY <1>3, <4>2, <4>3, <4>4, <4>5, <4>6, <4>7
    <3>4. len = 0 \/ len = 1 \/ len > 1
      BY ONLY len \in 0 .. n, n \in Nat
    <3>5. QED
      BY ONLY <3>1, <3>2, <3>3, <3>4
  <2>2. ASSUME NEW len \in 0..n, NEW from \in 0..(n - len) PROVE g[len][from] = E(g)[len][from]
    <3>1. g[len][from] = [s \in Sums |-> g[len][from][s]]
      OBVIOUS
    <3>2. PICK h : h = g
      OBVIOUS
    <3>3. E(h)[len][from] = [s \in Sums |-> E(h)[len][from][s]]
      <4> HIDE DEF g
      <4>1. QED
        OBVIOUS
    <3>4. \A s \in Sums : h[len][from][s] = E(h)[len][from][s]
      <4> HIDE DEF g, E
      <4>1. QED
        BY <2>1, <3>2
    <3>5. PICK u, v : u = h[len][from] /\ v = E(h)[len][from]
      OBVIOUS
    <3>6. u = [s \in Sums |-> u[s]] /\ v = [s \in Sums |-> v[s]] /\ \A s \in Sums : u[s] = v[s]
      <4> HIDE DEF g, E
      <4>1. QED
        BY <3>1, <3>2, <3>3, <3>4, <3>5
    <3>7. u = v
      BY <3>6
    <3> HIDE DEF g, E
    <3>8. QED
      BY <3>2, <3>5, <3>7
  <2>3. ASSUME NEW len \in 0..n PROVE g[len] = E(g)[len]
    BY <2>2
  <2>4. QED
    BY <2>3
<1> HIDE DEF E, g
<1>5. f = E(f)
  BY <1>4
<1> HIDE DEF f
<1>6. ASSUME NEW len \in 0..n, NEW from \in 0..(n - len), NEW s \in Sums
      PROVE  f[len][from][s] = IF len = 0 THEN s
                               ELSE IF len = 1 THEN Plus(s, t[from])
                               ELSE f[len - len \div 2][from + len \div 2][f[len \div 2][from][s]]
  <2>1. f[len][from][s] = E(f)[len][from][s]
    BY <1>5
  <2>2. QED
    BY <2>1 DEF E
<1> DEFINE T == { m \in Nat : \A len \in 0..n : len <= m =>
                    \A from \in 0..(n - len) : \A s \in Sums : f[len][from][s] = Closed(len, from, s) }
<1>7. 0 \in T
  <2>1. ASSUME NEW len \in 0 .. n, len <= 0, NEW from \in 0..(n - len), NEW s \in Sums
        PROVE  f[len][from][s] = Closed(len, from, s)
    <3>1. len = 0
      BY <2>1
    <3>2. QED
      BY <1>3, <1>6, <3>1
  <2>2. QED
    BY <2>1
<1>8. ASSUME NEW m \in Nat, m \in T PROVE m + 1 \in T
  <2> SUFFICES ASSUME NEW len \in 0..n, len <= m + 1, NEW from \in 0..(n - len), NEW s \in Sums
               PROVE  f[len][from][s] = Closed(len, from, s)
    OBVIOUS
  <2>1. CASE len <= m
    BY <1>8, <2>1
  <2>2. CASE len = 1
    BY <1>3, <1>6, <2>2
  <2>3. CASE len = m + 1 /\ len > 1
    <3>1. PICK a, b : a = len \div 2 /\ b = len - len \div 2
      OBVIOUS
    <3>2. a \in 1 .. m /\ b \in 1 .. m /\ a + b = len
      BY <2>3, <3>1, Halves
    <3>3. a \in 0..n /\ b \in 0..n /\ from \in 0..(n - a) /\ from + a \in 0..(n - b) /\ a \in 0..len /\ b \in 0..len
      BY <3>2
    <3>4. f[a][from][s] = Closed(a, from, s) /\ Closed(a, from, s) \in Sums
      BY <1>3, <1>8, <3>2, <3>3
    <3>5. f[b][from + a][Closed(a, from, s)] = Closed(b, from + a, Closed(a, from, s))
      BY <1>8, <3>2, <3>3, <3>4
    <3>6. f[len][from][s] = f[len - len \div 2][from + len \div 2][f[len \div 2][from][s]]
      <4>1. len # 0 /\ len # 1 /\ len \in 0..n /\ from \in 0..(n - len) /\ s \in Sums
        BY <2>3
      <4>2. QED
        BY ONLY <4>1, <1>6
    <3>7. QED
      BY <1>3, <3>1, <3>2, <3>3, <3>4, <3>5, <3>6
  <2>4. QED
    BY <2>1, <2>2, <2>3
<1> HIDE DEF T
<1>9. Nat \subseteq T
  BY <1>7, <1>8, Induction
<1>10. n \in T
  BY <1>9
<1>11. [ok |-> TRUE, value |-> 0] \in Sums
  BY DEF Sums
<1>12. f[n][0][[ok |-> TRUE, value |-> 0]] = Closed(n, 0, [ok |-> TRUE, value |-> 0])
  BY <1>10, <1>11 DEF T
<1>13. QED
  <2>1. tot[0] = 0 /\ 0 + n = n /\ (0 + tot[n]) - 0 = tot[n]
    BY <1>0 DEF IsTotal
  <2>2. AllFinite(t, 0, n, 0, tot) \in BOOLEAN
    BY DEF AllFinite
  <2>3. QED
    BY <1>1, <1>12, <2>1, <2>2 DEF Closed

LEMMA FiniteSumIsSum ==
  ASSUME NEW n \in Nat, NEW t, Terms(n, t)
  PROVE  /\ FiniteSum(n, t).value = Sum(n, t)
         /\ FiniteSum(n, t).ok => \A i \in 0 .. n - 1 : Finite(t[i])
<1>1. PICK tot : IsTotal(tot, n, t)
  BY HasTotal
<1>2. FiniteSum(n, t) = [ok |-> AllFinite(t, 0, n, 0, tot), value |-> tot[n]]
  BY <1>1, FiniteSumIsTotal
<1>3. Sum(n, t) = tot[n]
  BY <1>1, SumIsTotal
<1>4. AllFinite(t, 0, n, 0, tot) => \A i \in 0 .. n - 1 : Finite(t[i])
  <2>1. \A i \in 0 .. n - 1 : 0 + i = i
    OBVIOUS
  <2>2. QED
    BY <2>1 DEF AllFinite
<1>5. QED
  BY <1>2, <1>3, <1>4

\* Sums that the vector instructions end with, and the 32 terms of a block.
LEMMA SumOfFour ==
  ASSUME NEW t, Terms(4, t)
  PROVE  Sum(4, t) = t[0] + t[1] + t[2] + t[3]
<1>1. PICK tot : IsTotal(tot, 4, t)
  BY HasTotal
<1>2. Sum(4, t) = tot[4]
  BY <1>1, SumIsTotal
<1>3. /\ tot[0] = 0 /\ tot[1] = tot[0] + t[0] /\ tot[2] = tot[1] + t[1]
      /\ tot[3] = tot[2] + t[2] /\ tot[4] = tot[3] + t[3]
  <2>1. \A i \in 0 .. 3 : tot[i + 1] = tot[i] + t[i]
    BY <1>1 DEF IsTotal
  <2>2. 0 + 1 = 1 /\ 1 + 1 = 2 /\ 2 + 1 = 3 /\ 3 + 1 = 4
    OBVIOUS
  <2>3. QED
    BY <1>1, <2>1, <2>2 DEF IsTotal
<1>4. t[0] \in Int /\ t[1] \in Int /\ t[2] \in Int /\ t[3] \in Int
  BY DEF Terms
<1>5. QED
  BY <1>2, <1>3, <1>4

LEMMA SumOfEight ==
  ASSUME NEW t, Terms(8, t)
  PROVE  Sum(8, t) = t[0] + t[1] + t[2] + t[3] + t[4] + t[5] + t[6] + t[7]
<1>1. PICK tot : IsTotal(tot, 8, t)
  BY HasTotal
<1>2. Sum(8, t) = tot[8]
  BY <1>1, SumIsTotal
<1>3. ASSUME NEW m \in Nat, m + 4 <= 8
      PROVE  t[m] + t[m + 1] + t[m + 2] + t[m + 3] = tot[m + 4] - tot[m]
  <2>1. PICK u : u = [j \in 0 .. 3 |-> t[m + j]]
    OBVIOUS
  <2>2. PICK n \in Nat, k \in Nat : n = 8 /\ k = 4
    OBVIOUS
  <2>3. m + k <= n /\ IsTotal(tot, n, t) /\ Terms(n, t) /\ \A j \in 0 .. k - 1 : u[j] = t[m + j]
    BY <1>1, <1>3, <2>1, <2>2
  <2>4. Terms(k, u) /\ Sum(k, u) = tot[m + k] - tot[m]
    BY <2>3, SumOfPart
  <2>5. Sum(4, u) = u[0] + u[1] + u[2] + u[3]
    BY <2>2, <2>4, SumOfFour
  <2>6. u[0] = t[m] /\ u[1] = t[m + 1] /\ u[2] = t[m + 2] /\ u[3] = t[m + 3]
    <3>1. m + 0 = m
      OBVIOUS
    <3>2. QED
      BY <2>1, <3>1
  <2>7. QED
    BY <2>2, <2>4, <2>5, <2>6
<1>4. t[0] + t[1] + t[2] + t[3] = tot[4] - tot[0] /\ t[4] + t[5] + t[6] + t[7] = tot[8] - tot[4]
  BY <1>3, 0 + 4 = 4, 4 + 4 = 8, 0 + 1 = 1, 0 + 2 = 2, 0 + 3 = 3, 4 + 1 = 5, 4 + 2 = 6, 4 + 3 = 7
<1>5. tot[0] = 0 /\ tot[4] \in Int /\ tot[8] \in Int
  BY <1>1 DEF IsTotal
<1>6. /\ t[0] \in Int /\ t[1] \in Int /\ t[2] \in Int /\ t[3] \in Int
      /\ t[4] \in Int /\ t[5] \in Int /\ t[6] \in Int /\ t[7] \in Int
  BY DEF Terms
<1>7. PICK a \in Int, b \in Int, c \in Int : a = tot[0] /\ b = tot[4] /\ c = tot[8]
  BY <1>5
<1>8. a = 0 /\ t[0] + t[1] + t[2] + t[3] = b - a /\ t[4] + t[5] + t[6] + t[7] = c - b
  BY <1>4, <1>5, <1>7
<1>9. c = t[0] + t[1] + t[2] + t[3] + t[4] + t[5] + t[6] + t[7]
  BY ONLY <1>6, <1>8
<1>10. QED
  BY <1>2, <1>7, <1>9

\* ... eight at a time.
Eight(t, m) == t[m] + t[m + 1] + t[m + 2] + t[m + 3] + t[m + 4] + t[m + 5] + t[m + 6] + t[m + 7]

LEMMA SumOfThirtyTwo ==
  ASSUME NEW t, Terms(32, t)
  PROVE  Sum(32, t) = Eight(t, 0) + Eight(t, 8) + Eight(t, 16) + Eight(t, 24)
<1>1. PICK tot : IsTotal(tot, 32, t)
  BY HasTotal
<1>2. Sum(32, t) = tot[32]
  BY <1>1, SumIsTotal
<1>3. ASSUME NEW m \in Nat, m + 8 <= 32
      PROVE  Eight(t, m) = tot[m + 8] - tot[m]
  <2>1. PICK u : u = [j \in 0 .. 7 |-> t[m + j]]
    OBVIOUS
  <2>2. \A j \in 0 .. 7 : u[j] = t[m + j]
    BY <2>1
  <2>0. PICK n \in Nat, k \in Nat : n = 32 /\ k = 8
    OBVIOUS
  <2>5. m + k <= n /\ IsTotal(tot, n, t) /\ Terms(n, t) /\ \A j \in 0 .. k - 1 : u[j] = t[m + j]
    BY <1>1, <1>3, <2>0, <2>2
  <2>6. Terms(k, u) /\ Sum(k, u) = tot[m + k] - tot[m]
    BY <2>5, SumOfPart
  <2>3. Terms(8, u) /\ Sum(8, u) = tot[m + 8] - tot[m]
    BY <2>0, <2>6
  <2>4. u[0] = t[m] /\ u[1] = t[m + 1] /\ u[2] = t[m + 2] /\ u[3] = t[m + 3] /\ u[4] = t[m + 4]
        /\ u[5] = t[m + 5] /\ u[6] = t[m + 6] /\ u[7] = t[m + 7]
    <3>1. m + 0 = m
      OBVIOUS
    <3>2. QED
      BY <2>2, <3>1
  <2>7. QED
    BY <2>3, <2>4, SumOfEight DEF Eight
<1>4. /\ Eight(t, 0) = tot[8] - tot[0] /\ Eight(t, 8) = tot[16] - tot[8]
      /\ Eight(t, 16) = tot[24] - tot[16] /\ Eight(t, 24) = tot[32] - tot[24]
  <2>1. 0 + 8 = 8 /\ 8 + 8 = 16 /\ 16 + 8 = 24 /\ 24 + 8 = 32
    OBVIOUS
  <2>2. QED
    BY <1>3, <2>1
<1>5. tot[0] = 0 /\ tot[8] \in Int /\ tot[16] \in Int /\ tot[24] \in Int /\ tot[32] \in Int
  BY <1>1 DEF IsTotal
<1>6. QED
  BY <1>2, <1>4, <1>5

(***************************************************************************)
(* Widening: a byte keeps its value, and a product of two that are not     *)
(* both -128, or the sum of two such products, has room in its lane.       *)
(***************************************************************************)
LEMMA SignedSixteen ==
  ASSUME NEW p \in Int, -32768 <= p, p <= 32767
  PROVE  Signed(p, 16) = p
<1>1. 2 ^ 16 = 65536 /\ 2 ^ (16 - 1) = 32768
  OBVIOUS
<1>2. PICK q \in Int : q = p % 65536
  OBVIOUS
<1>3. q = IF p < 0 THEN p + 65536 ELSE p
  BY <1>2
<1>4. Signed(p, 16) = IF q < 32768 THEN q ELSE q - 65536
  BY <1>1, <1>2 DEF Signed
<1>5. QED
  BY <1>3, <1>4

LEMMA ByteWidens ==
  ASSUME NEW b \in -128 .. 127
  PROVE  Signed((b % 256) + 256 * (IF b < 0 THEN 255 ELSE 0), 16) = b
<1>1. 2 ^ 16 = 65536 /\ 2 ^ (16 - 1) = 32768
  OBVIOUS
<1>2. (b % 256) + 256 * (IF b < 0 THEN 255 ELSE 0) = IF b < 0 THEN b + 65536 ELSE b
  OBVIOUS
<1>3. (IF b < 0 THEN b + 65536 ELSE b) % 65536 = IF b < 0 THEN b + 65536 ELSE b
  OBVIOUS
<1>4. QED
  BY <1>1, <1>2, <1>3 DEF Signed

\* Weights and activations as the kernels meet them.
Quantised(v) == \A i \in 0 .. 31 : v[i] \in -128 .. 127
Activated(y) == \A i \in 0 .. 31 : y[i] \in -127 .. 127

LEMMA ProductFits ==
  ASSUME NEW a \in -128 .. 127, NEW b \in -127 .. 127
  PROVE  a * b \in Int /\ -16256 <= a * b /\ a * b <= 16256
<1>1. ASSUME NEW c \in 0 .. 128, NEW d \in 0 .. 127 PROVE c * d \in Int /\ 0 <= c * d /\ c * d <= 16256
  <2>1. c * d <= c * 127 /\ c * d \in Nat
    BY TimesMonotone
  <2>2. QED
    BY <2>1
<1>2. PICK c \in 0 .. 128, d \in 0 .. 127 : (c = a \/ c = -a) /\ (d = b \/ d = -b)
  <2>1. PICK c \in 0 .. 128 : c = a \/ c = -a
    <3>1. a >= 0 \/ -a >= 0
      OBVIOUS
    <3>2. QED
      BY <3>1
  <2>2. PICK d \in 0 .. 127 : d = b \/ d = -b
    <3>1. b >= 0 \/ -b >= 0
      OBVIOUS
    <3>2. QED
      BY <3>1
  <2>3. QED
    BY <2>1, <2>2
<1>3. a * b = c * d \/ a * b = -(c * d)
  BY <1>2
<1>4. QED
  BY <1>1, <1>3

\* Lanes that hold the sums of pairs of terms, from each group of eight or sixteen.
Pair(p, i) == p[i] + p[i + 1]

LEMMA PairIsInt ==
  ASSUME NEW p, Terms(32, p), NEW i \in 0 .. 30
  PROVE  Pair(p, i) \in Int
<1>1. i \in 0 .. 31 /\ i + 1 \in 0 .. 31
  OBVIOUS
<1>2. QED
  BY <1>1 DEF Terms, Pair

LEMMA PairsOfEight ==
  ASSUME NEW p, Terms(32, p), NEW m \in 0 .. 24
  PROVE  Eight(p, m) = Pair(p, m) + Pair(p, m + 2) + Pair(p, m + 4) + Pair(p, m + 6)
<1>1. /\ p[m] \in Int /\ p[m + 1] \in Int /\ p[m + 2] \in Int /\ p[m + 3] \in Int
      /\ p[m + 4] \in Int /\ p[m + 5] \in Int /\ p[m + 6] \in Int /\ p[m + 7] \in Int
  BY DEF Terms
<1>2. (m + 2) + 1 = m + 3 /\ (m + 4) + 1 = m + 5 /\ (m + 6) + 1 = m + 7
  OBVIOUS
<1>3. /\ Pair(p, m) = p[m] + p[m + 1] /\ Pair(p, m + 2) = p[m + 2] + p[m + 3]
      /\ Pair(p, m + 4) = p[m + 4] + p[m + 5] /\ Pair(p, m + 6) = p[m + 6] + p[m + 7]
  BY <1>2 DEF Pair
<1>4. QED
  BY <1>1, <1>3 DEF Eight

LEMMA FourLanes ==
  ASSUME NEW p, Terms(32, p),
         NEW t, \A j \in 0 .. 3 : t[j] = Pair(p, 2 * j) + Pair(p, 8 + 2 * j) + Pair(p, 16 + 2 * j) + Pair(p, 24 + 2 * j)
  PROVE  Sum(4, t) = Sum(32, p)
<1>1. /\ t[0] = Pair(p, 0) + Pair(p, 8) + Pair(p, 16) + Pair(p, 24)
      /\ t[1] = Pair(p, 2) + Pair(p, 10) + Pair(p, 18) + Pair(p, 26)
      /\ t[2] = Pair(p, 4) + Pair(p, 12) + Pair(p, 20) + Pair(p, 28)
      /\ t[3] = Pair(p, 6) + Pair(p, 14) + Pair(p, 22) + Pair(p, 30)
  OBVIOUS
<1>2. /\ Eight(p, 0) = Pair(p, 0) + Pair(p, 2) + Pair(p, 4) + Pair(p, 6)
      /\ Eight(p, 8) = Pair(p, 8) + Pair(p, 10) + Pair(p, 12) + Pair(p, 14)
      /\ Eight(p, 16) = Pair(p, 16) + Pair(p, 18) + Pair(p, 20) + Pair(p, 22)
      /\ Eight(p, 24) = Pair(p, 24) + Pair(p, 26) + Pair(p, 28) + Pair(p, 30)
  BY PairsOfEight
<1>3. \A i \in 0 .. 30 : Pair(p, i) \in Int
  BY PairIsInt
<1>4. Sum(32, p) = Eight(p, 0) + Eight(p, 8) + Eight(p, 16) + Eight(p, 24)
  BY SumOfThirtyTwo
<1>5. t[0] \in Int /\ t[1] \in Int /\ t[2] \in Int /\ t[3] \in Int
  BY <1>1, <1>3
<1>6. Terms(4, t)
  BY <1>5 DEF Terms
<1>7. Sum(4, t) = t[0] + t[1] + t[2] + t[3]
  BY <1>6, SumOfFour
<1>8. QED
  BY <1>1, <1>2, <1>3, <1>4, <1>7

LEMMA EightLanes ==
  ASSUME NEW p, Terms(32, p),
         NEW t, \A j \in 0 .. 7 : t[j] = Pair(p, 2 * j) + Pair(p, 16 + 2 * j)
  PROVE  Sum(8, t) = Sum(32, p)
<1>1. /\ t[0] = Pair(p, 0) + Pair(p, 16) /\ t[1] = Pair(p, 2) + Pair(p, 18)
      /\ t[2] = Pair(p, 4) + Pair(p, 20) /\ t[3] = Pair(p, 6) + Pair(p, 22)
      /\ t[4] = Pair(p, 8) + Pair(p, 24) /\ t[5] = Pair(p, 10) + Pair(p, 26)
      /\ t[6] = Pair(p, 12) + Pair(p, 28) /\ t[7] = Pair(p, 14) + Pair(p, 30)
  OBVIOUS
<1>2. /\ Eight(p, 0) = Pair(p, 0) + Pair(p, 2) + Pair(p, 4) + Pair(p, 6)
      /\ Eight(p, 8) = Pair(p, 8) + Pair(p, 10) + Pair(p, 12) + Pair(p, 14)
      /\ Eight(p, 16) = Pair(p, 16) + Pair(p, 18) + Pair(p, 20) + Pair(p, 22)
      /\ Eight(p, 24) = Pair(p, 24) + Pair(p, 26) + Pair(p, 28) + Pair(p, 30)
  BY PairsOfEight
<1>3. \A i \in 0 .. 30 : Pair(p, i) \in Int
  BY PairIsInt
<1>4. Sum(32, p) = Eight(p, 0) + Eight(p, 8) + Eight(p, 16) + Eight(p, 24)
  BY SumOfThirtyTwo
<1>5. \A j \in 0 .. 7 : 2 * j \in 0 .. 30 /\ 16 + 2 * j \in 0 .. 30
  OBVIOUS
<1>6. Terms(8, t)
  BY <1>3, <1>5 DEF Terms
<1>7. Sum(8, t) = t[0] + t[1] + t[2] + t[3] + t[4] + t[5] + t[6] + t[7]
  BY <1>6, SumOfEight
<1>8. QED
  BY <1>1, <1>2, <1>3, <1>4, <1>7

(***************************************************************************)
(* Every kernel computes the sum of the products of a block.               *)
(***************************************************************************)
Products32(v, y) == [i \in 0 .. 31 |-> v[i] * y[i]]

LEMMA ProductsFit ==
  ASSUME NEW v, NEW y, Quantised(v), Activated(y)
  PROVE  /\ Terms(32, Products32(v, y))
         /\ \A i \in 0 .. 31 : /\ Products32(v, y)[i] = v[i] * y[i]
                               /\ -16256 <= v[i] * y[i] /\ v[i] * y[i] <= 16256 /\ v[i] * y[i] \in Int
<1>1. ASSUME NEW i \in 0 .. 31
      PROVE  -16256 <= v[i] * y[i] /\ v[i] * y[i] <= 16256 /\ v[i] * y[i] \in Int
  <2>1. PICK a \in -128 .. 127, b \in -127 .. 127 : a = v[i] /\ b = y[i]
    <3>1. v[i] \in -128 .. 127
      BY ONLY i \in 0 .. 31, Quantised(v) DEF Quantised
    <3>2. y[i] \in -127 .. 127
      BY ONLY i \in 0 .. 31, Activated(y) DEF Activated
    <3>3. QED
      BY ONLY <3>1, <3>2
  <2>2. PICK m : m = a * b
    OBVIOUS
  <2>3. m \in Int /\ -16256 <= m /\ m <= 16256
    BY <2>2, ProductFits
  <2>4. v[i] * y[i] = m
    BY ONLY <2>1, <2>2
  <2>5. QED
    BY ONLY <2>3, <2>4
<1>2. QED
  BY <1>1 DEF Products32, Terms

LEMMA SliceWidens ==
  ASSUME NEW v, Quantised(v), NEW from \in 0 .. 24
  PROVE  \A j \in 0 .. 7 : Widened(Slice(v, from, 8))[j] = v[from + j]
<1> SUFFICES ASSUME NEW j \in 0 .. 7 PROVE Widened(Slice(v, from, 8))[j] = v[from + j]
  OBVIOUS
<1>1. PICK b \in -128 .. 127 : b = v[from + j]
  <2>1. from + j \in 0 .. 31
    BY ONLY from \in 0 .. 24, j \in 0 .. 7
  <2>2. v[from + j] \in -128 .. 127
    BY ONLY <2>1, Quantised(v) DEF Quantised
  <2>3. QED
    BY ONLY <2>2
<1>2. PICK s : s = Slice(v, from, 8)
  OBVIOUS
<1>3. DOMAIN s = 0 .. 7 /\ s[j] = b
  BY <1>1, <1>2, 8 - 1 = 7 DEF Slice
<1>4. Widened(s)[j] = Signed((b % 256) + 256 * (IF b < 0 THEN 255 ELSE 0), 16)
  BY <1>3 DEF Widened
<1>5. Signed((b % 256) + 256 * (IF b < 0 THEN 255 ELSE 0), 16) = b
  BY ONLY b \in -128 .. 127, ByteWidens
<1>6. QED
  BY ONLY <1>1, <1>2, <1>4, <1>5

\* Pairs of products of slices that are not widened to less than the products need.
LEMMA PairsOfSlices ==
  ASSUME NEW v, NEW y, NEW p, NEW from \in Nat, NEW n \in Nat, NEW s, NEW u,
         \A j \in 0 .. 2 * n - 1 : s[j] = v[from + j] /\ u[j] = y[from + j] /\ p[from + j] = v[from + j] * y[from + j],
         NEW j \in 0 .. n - 1
  PROVE  s[2 * j] * u[2 * j] = p[from + 2 * j] /\ s[2 * j + 1] * u[2 * j + 1] = p[(from + 2 * j) + 1]
<1>1. 2 * j \in 0 .. 2 * n - 1 /\ 2 * j + 1 \in 0 .. 2 * n - 1 /\ from + (2 * j + 1) = (from + 2 * j) + 1
  OBVIOUS
<1>2. /\ s[2 * j] = v[from + 2 * j] /\ u[2 * j] = y[from + 2 * j] /\ p[from + 2 * j] = v[from + 2 * j] * y[from + 2 * j]
      /\ s[2 * j + 1] = v[from + (2 * j + 1)] /\ u[2 * j + 1] = y[from + (2 * j + 1)]
      /\ p[from + (2 * j + 1)] = v[from + (2 * j + 1)] * y[from + (2 * j + 1)]
  BY ONLY <1>1, \A k \in 0 .. 2 * n - 1 : s[k] = v[from + k] /\ u[k] = y[from + k] /\ p[from + k] = v[from + k] * y[from + k]
<1>3. QED
  BY <1>1, <1>2

LEMMA Sse2IsSum ==
  ASSUME NEW v, NEW y, Quantised(v), Activated(y)
  PROVE  Sse2(v, y) = Sum(32, Products32(v, y))
<1>1. PICK p : p = Products32(v, y)
  OBVIOUS
<1>2. Terms(32, p) /\ \A i \in 0 .. 31 : p[i] = v[i] * y[i]
  BY <1>1, ProductsFit
<1>3. Quantised(y)
  <2>1. ASSUME NEW i \in 0 .. 31 PROVE y[i] \in -128 .. 127
    <3>1. y[i] \in -127 .. 127
      BY ONLY i \in 0 .. 31, Activated(y) DEF Activated
    <3>2. QED
      BY ONLY <3>1
  <2>2. QED
    BY ONLY <2>1 DEF Quantised
<1>4. ASSUME NEW from \in 0 .. 24, NEW j \in 0 .. 3
      PROVE  Pairs(Widened(Slice(v, from, 8)), Widened(Slice(y, from, 8)), 4, Same)[j] = Pair(p, from + 2 * j)
  <2>1. PICK s, u : s = Widened(Slice(v, from, 8)) /\ u = Widened(Slice(y, from, 8))
    OBVIOUS
  <2>2. \A k \in 0 .. 7 : s[k] = v[from + k] /\ u[k] = y[from + k]
    BY <1>3, <2>1, SliceWidens
  <2>3. \A k \in 0 .. 2 * 4 - 1 : s[k] = v[from + k] /\ u[k] = y[from + k] /\ p[from + k] = v[from + k] * y[from + k]
    BY <1>2, <2>2
  <2>4. s[2 * j] * u[2 * j] = p[from + 2 * j] /\ s[2 * j + 1] * u[2 * j + 1] = p[(from + 2 * j) + 1]
    <3>1. PICK n \in Nat : n = 4
      OBVIOUS
    <3>2. j \in 0 .. n - 1 /\ from \in Nat
      BY <3>1
    <3>3. \A k \in 0 .. 2 * n - 1 : s[k] = v[from + k] /\ u[k] = y[from + k] /\ p[from + k] = v[from + k] * y[from + k]
      BY <2>3, <3>1
    <3>4. QED
      BY ONLY <3>2, <3>3, n \in Nat, PairsOfSlices
  <2>5. Pairs(s, u, 4, Same)[j] = s[2 * j] * u[2 * j] + s[2 * j + 1] * u[2 * j + 1]
    BY DEF Pairs, Same
  <2>6. QED
    BY <2>1, <2>4, <2>5 DEF Pair
<1>5. ASSUME NEW from \in {0, 16}, NEW j \in 0 .. 3
      PROVE  Sse2x16(v, y, from)[j] = Pair(p, from + 2 * j) + Pair(p, (from + 8) + 2 * j)
  <2>1. from \in 0 .. 24 /\ from + 8 \in 0 .. 24
    OBVIOUS
  <2>2. QED
    BY <1>4, <2>1 DEF Sse2x16
<1>6. PICK t : t = [j \in 0 .. 3 |-> Sse2x16(v, y, 0)[j] + Sse2x16(v, y, 16)[j]]
  OBVIOUS
<1>7. ASSUME NEW j \in 0 .. 3
      PROVE  t[j] = Pair(p, 2 * j) + Pair(p, 8 + 2 * j) + Pair(p, 16 + 2 * j) + Pair(p, 24 + 2 * j)
  <2>1. Sse2x16(v, y, 0)[j] = Pair(p, 2 * j) + Pair(p, 8 + 2 * j)
    <3>1. 0 + 2 * j = 2 * j /\ (0 + 8) + 2 * j = 8 + 2 * j
      OBVIOUS
    <3>2. QED
      BY <1>5, <3>1
  <2>2. Sse2x16(v, y, 16)[j] = Pair(p, 16 + 2 * j) + Pair(p, 24 + 2 * j)
    <3>1. (16 + 8) + 2 * j = 24 + 2 * j
      OBVIOUS
    <3>2. QED
      BY <1>5, <3>1
  <2>3. \A m \in {2 * j, 8 + 2 * j, 16 + 2 * j, 24 + 2 * j} : Pair(p, m) \in Int
    BY <1>2, PairIsInt
  <2>4. QED
    BY <1>6, <2>1, <2>2, <2>3
<1>8. Sse2(v, y) = Sum(4, t)
  BY <1>6 DEF Sse2
<1>9. QED
  BY <1>1, <1>2, <1>7, <1>8, FourLanes

LEMMA Avx2IsSum ==
  ASSUME NEW v, NEW y, Quantised(v), Activated(y)
  PROVE  Avx2(v, y) = Sum(32, Products32(v, y))
<1>1. PICK p : p = Products32(v, y)
  OBVIOUS
<1>2. Terms(32, p) /\ \A i \in 0 .. 31 : p[i] = v[i] * y[i]
  BY <1>1, ProductsFit
<1>3. ASSUME NEW from \in {0, 16}, NEW j \in 0 .. 7
      PROVE  Pairs(Slice(v, from, 16), Slice(y, from, 16), 8, Same)[j] = Pair(p, from + 2 * j)
  <2>1. PICK s, u : s = Slice(v, from, 16) /\ u = Slice(y, from, 16)
    OBVIOUS
  <2>2. PICK n \in Nat : n = 8
    OBVIOUS
  <2>3. \A k \in 0 .. 2 * n - 1 : s[k] = v[from + k] /\ u[k] = y[from + k] /\ p[from + k] = v[from + k] * y[from + k]
    BY <1>2, <2>1, <2>2 DEF Slice
  <2>4. j \in 0 .. n - 1 /\ from \in Nat
    BY <2>2
  <2>5. s[2 * j] * u[2 * j] = p[from + 2 * j] /\ s[2 * j + 1] * u[2 * j + 1] = p[(from + 2 * j) + 1]
    BY ONLY <2>3, <2>4, n \in Nat, PairsOfSlices
  <2>6. Pairs(s, u, 8, Same)[j] = s[2 * j] * u[2 * j] + s[2 * j + 1] * u[2 * j + 1]
    BY DEF Pairs, Same
  <2>7. QED
    BY <2>1, <2>5, <2>6 DEF Pair
<1>4. PICK t : t = [j \in 0 .. 7 |-> Pairs(Slice(v, 0, 16), Slice(y, 0, 16), 8, Same)[j]
                                     + Pairs(Slice(v, 16, 16), Slice(y, 16, 16), 8, Same)[j]]
  OBVIOUS
<1>5. ASSUME NEW j \in 0 .. 7 PROVE t[j] = Pair(p, 2 * j) + Pair(p, 16 + 2 * j)
  <2>1. 0 + 2 * j = 2 * j
    OBVIOUS
  <2>2. QED
    BY <1>3, <1>4, <2>1
<1>6. Avx2(v, y) = Sum(8, t)
  BY <1>4 DEF Avx2
<1>7. QED
  BY <1>1, <1>2, <1>5, <1>6, EightLanes

\* Eight products of 16 bits and their sums in pairs.
LEMMA SixteenBitPairs ==
  ASSUME NEW v, NEW y, Quantised(v), Activated(y), NEW p, p = Products32(v, y),
         NEW from \in {0, 8, 16, 24}, NEW j \in 0 .. 3
  PROVE  Pairs(Slice(v, from, 8), Slice(y, from, 8), 4, I16)[j] = Pair(p, from + 2 * j)
<1>1. \A i \in 0 .. 31 : p[i] = v[i] * y[i] /\ -16256 <= p[i] /\ p[i] <= 16256 /\ p[i] \in Int
  BY ProductsFit
<1>2. PICK s, u : s = Slice(v, from, 8) /\ u = Slice(y, from, 8)
  OBVIOUS
<1>3. PICK n \in Nat : n = 4
  OBVIOUS
<1>4. \A k \in 0 .. 2 * n - 1 : s[k] = v[from + k] /\ u[k] = y[from + k] /\ p[from + k] = v[from + k] * y[from + k]
  BY <1>1, <1>2, <1>3 DEF Slice
<1>5. j \in 0 .. n - 1 /\ from \in Nat
  BY <1>3
<1>6. s[2 * j] * u[2 * j] = p[from + 2 * j] /\ s[2 * j + 1] * u[2 * j + 1] = p[(from + 2 * j) + 1]
  BY ONLY <1>4, <1>5, n \in Nat, PairsOfSlices
<1>7. I16(p[from + 2 * j]) = p[from + 2 * j] /\ I16(p[(from + 2 * j) + 1]) = p[(from + 2 * j) + 1]
  <2>1. from + 2 * j \in 0 .. 31 /\ (from + 2 * j) + 1 \in 0 .. 31
    OBVIOUS
  <2>2. \A i \in 0 .. 31 : I16(p[i]) = p[i]
    <3> SUFFICES ASSUME NEW i \in 0 .. 31 PROVE I16(p[i]) = p[i]
      OBVIOUS
    <3>1. PICK a \in Int : a = p[i] /\ -16256 <= a /\ a <= 16256
      BY <1>1
    <3>2. Signed(a, 16) = a
      BY <3>1, SignedSixteen
    <3>3. QED
      BY <3>1, <3>2 DEF I16
  <2>3. QED
    BY <2>1, <2>2
<1>8. Pairs(s, u, 4, I16)[j] = I16(s[2 * j] * u[2 * j]) + I16(s[2 * j + 1] * u[2 * j + 1])
  BY DEF Pairs
<1>9. QED
  BY <1>2, <1>6, <1>7, <1>8 DEF Pair

LEMMA NeonIsSum ==
  ASSUME NEW v, NEW y, Quantised(v), Activated(y)
  PROVE  Neon(v, y) = Sum(32, Products32(v, y))
<1>1. PICK p : p = Products32(v, y)
  OBVIOUS
<1>2. Terms(32, p)
  BY <1>1, ProductsFit
<1> DEFINE Added(k) == Pairs(Slice(v, 8 * k, 8), Slice(y, 8 * k, 8), 4, I16)
           t == [lane \in 0..3 |-> Added(0)[lane] + Added(1)[lane] + Added(2)[lane] + Added(3)[lane]]
<1>3. Neon(v, y) = Sum(4, t)
  BY DEF Neon
<1>4. ASSUME NEW j \in 0 .. 3
      PROVE  t[j] = Pair(p, 2 * j) + Pair(p, 8 + 2 * j) + Pair(p, 16 + 2 * j) + Pair(p, 24 + 2 * j)
  <2>1. /\ Added(0)[j] = Pair(p, 0 + 2 * j) /\ Added(1)[j] = Pair(p, 8 + 2 * j)
        /\ Added(2)[j] = Pair(p, 16 + 2 * j) /\ Added(3)[j] = Pair(p, 24 + 2 * j)
    <3>1. 8 * 0 = 0 /\ 8 * 1 = 8 /\ 8 * 2 = 16 /\ 8 * 3 = 24
      OBVIOUS
    <3>2. \A from \in {0, 8, 16, 24} : Pairs(Slice(v, from, 8), Slice(y, from, 8), 4, I16)[j] = Pair(p, from + 2 * j)
      BY <1>1, SixteenBitPairs
    <3>3. QED
      BY <3>1, <3>2
  <2>2. t[j] = Added(0)[j] + Added(1)[j] + Added(2)[j] + Added(3)[j]
    OBVIOUS
  <2>3. 0 + 2 * j = 2 * j
    OBVIOUS
  <2> HIDE DEF t, Added
  <2>4. QED
    BY <2>1, <2>2, <2>3
<1> HIDE DEF t, Added
<1>5. QED
  BY <1>1, <1>2, <1>3, <1>4, FourLanes

LEMMA Simd128IsSum ==
  ASSUME NEW v, NEW y, Quantised(v), Activated(y)
  PROVE  Simd128(v, y) = Sum(32, Products32(v, y))
<1>1. PICK p : p = Products32(v, y)
  OBVIOUS
<1>2. Terms(32, p)
  BY <1>1, ProductsFit
<1> DEFINE Half(from) == Pairs(Slice(v, from, 8), Slice(y, from, 8), 4, I16)
           t == [lane \in 0..3 |-> (Half(0)[lane] + Half(8)[lane]) + (Half(16)[lane] + Half(24)[lane])]
<1>3. Simd128(v, y) = Sum(4, t)
  BY DEF Simd128
<1>4. ASSUME NEW j \in 0 .. 3
      PROVE  t[j] = Pair(p, 2 * j) + Pair(p, 8 + 2 * j) + Pair(p, 16 + 2 * j) + Pair(p, 24 + 2 * j)
  <2>1. \A from \in {0, 8, 16, 24} : Half(from)[j] = Pair(p, from + 2 * j)
    BY <1>1, SixteenBitPairs
  <2>2. t[j] = (Half(0)[j] + Half(8)[j]) + (Half(16)[j] + Half(24)[j])
    OBVIOUS
  <2>3. 0 + 2 * j = 2 * j
    OBVIOUS
  <2>4. \A m \in {2 * j, 8 + 2 * j, 16 + 2 * j, 24 + 2 * j} : Pair(p, m) \in Int
    BY <1>2, PairIsInt
  <2> HIDE DEF t, Half
  <2>5. QED
    BY <2>1, <2>2, <2>3, <2>4
<1> HIDE DEF t, Half
<1>5. QED
  BY <1>1, <1>2, <1>3, <1>4, FourLanes

(***************************************************************************)
(* Every kernel of det-quant gives the sum that the scalar loop gives, for *)
(* any 32 weights of eight bits and activations from -127 to 127: no lane  *)
(* wraps, none is left out and none is counted twice.                      *)
(***************************************************************************)
THEOREM KernelIsSum ==
  ASSUME target \in {"scalar", "sse2", "avx2", "neon", "simd128"},
         NEW v, NEW y, Quantised(v), Activated(y)
  PROVE  Kernel(v, y) = Sum(32, Products32(v, y))
<1>1. Scalar(v, y) = Sum(32, Products32(v, y))
  BY DEF Scalar, BLOCK, B!BLOCK, Products32
<1>2. CASE target = "scalar"
  BY <1>1, <1>2 DEF Kernel
<1>3. CASE target = "sse2"
  BY <1>3, Sse2IsSum DEF Kernel
<1>4. CASE target = "avx2"
  BY <1>4, Avx2IsSum DEF Kernel
<1>5. CASE target = "neon"
  BY <1>5, NeonIsSum DEF Kernel
<1>6. CASE target = "simd128"
  BY <1>6, Simd128IsSum DEF Kernel
<1>7. QED
  BY <1>2, <1>3, <1>4, <1>5, <1>6

\* A byte's halves, and those of two bytes in one 16-bit lane.
LEMMA HalvesOfBytes ==
  /\ \A b \in 0 .. 255 : /\ (b % 16) - 8 \in -128 .. 127 /\ (b \div 16) - 8 \in -128 .. 127
                         /\ (b \div 16) % 16 = b \div 16
  /\ \A b, c \in 0 .. 255 : ((b + 256 * c) \div 16) % 16 = b \div 16
  /\ \A b, c \in 0 .. 255 : (((c + 256 * b) \div 16) \div 256) % 16 = b \div 16
<1>1. ASSUME NEW b \in 0 .. 255
      PROVE  /\ (b % 16) - 8 \in -128 .. 127 /\ (b \div 16) - 8 \in -128 .. 127
             /\ (b \div 16) % 16 = b \div 16
  OBVIOUS
<1>2. ASSUME NEW b \in 0 .. 255, NEW c \in 0 .. 255 PROVE ((b + 256 * c) \div 16) % 16 = b \div 16
  OBVIOUS
<1>3. ASSUME NEW b \in 0 .. 255, NEW c \in 0 .. 255 PROVE (((c + 256 * b) \div 16) \div 256) % 16 = b \div 16
  OBVIOUS
<1>4. QED
  BY <1>1, <1>2, <1>3

\* Halves of bytes that were shifted in 16-bit lanes.
Bytes16(qs) == \A i \in 0 .. 15 : qs[i] \in 0 .. 255

LEMMA NibbleIsQuant ==
  ASSUME NEW w, Bytes16(w.qs), NEW i \in 0 .. 31
  PROVE  /\ Sse2Nibble(w.qs, i) = B!Q4_0Quant(w, i)
         /\ B!Q4_0Quant(w, i) \in -128 .. 127
<1>1. B!BLOCK \div 2 = 16
  BY ONLY 32 \div 2 = 16 DEF B!BLOCK
<1>2. CASE i < 16
  <2>1. PICK b \in 0 .. 255 : b = w.qs[i]
    <3>1. i \in 0 .. 15
      BY ONLY <1>2, i \in 0 .. 31
    <3>2. w.qs[i] \in 0 .. 255
      BY ONLY <3>1, Bytes16(w.qs) DEF Bytes16
    <3>3. QED
      BY ONLY <3>2
  <2>2. B!Q4_0Quant(w, i) = (b % 16) - 8
    BY <1>1, <1>2, <2>1 DEF B!Q4_0Quant, B!Low
  <2>3. Sse2Nibble(w.qs, i) = (b % 16) - 8
    BY <1>2, <2>1 DEF Sse2Nibble
  <2>4. (b % 16) - 8 \in -128 .. 127
    BY HalvesOfBytes
  <2>5. QED
    BY ONLY <2>2, <2>3, <2>4
<1>3. CASE i >= 16
  <2>1. PICK j \in 0 .. 15 : j = i - 16
    BY <1>3
  <2>2. PICK b \in 0 .. 255 : b = w.qs[j]
    BY DEF Bytes16
  <2>3. B!Q4_0Quant(w, i) = (b \div 16) - 8
    BY <1>1, <1>3, <2>1, <2>2 DEF B!Q4_0Quant, B!High
  <2>4. PICK e : e = j - (j % 2)
    OBVIOUS
  <2>5. Sse2Nibble(w.qs, i) = ((IF j % 2 = 0 THEN (w.qs[e] + 256 * w.qs[e + 1]) \div 16
                                ELSE ((w.qs[e] + 256 * w.qs[e + 1]) \div 16) \div 256) % 16) - 8
    BY <1>3, <2>1, <2>4 DEF Sse2Nibble
  <2>6. CASE j % 2 = 0
    <3>1. e = j /\ e + 1 \in 0 .. 15
      BY ONLY <2>4, <2>6, j \in 0 .. 15
    <3>2. PICK c \in 0 .. 255 : c = w.qs[e + 1]
      BY <3>1 DEF Bytes16
    <3>3. ((b + 256 * c) \div 16) % 16 = b \div 16
      BY HalvesOfBytes
    <3>4. w.qs[e] = b
      BY ONLY <2>2, <3>1
    <3>5. Sse2Nibble(w.qs, i) = (((b + 256 * c) \div 16) % 16) - 8
      BY ONLY <2>5, <2>6, <3>2, <3>4
    <3>6. QED
      BY ONLY <2>3, <3>3, <3>5
  <2>7. CASE j % 2 = 1
    <3>1. e \in 0 .. 15 /\ e + 1 = j
      BY ONLY <2>4, <2>7, j \in 0 .. 15
    <3>2. PICK c \in 0 .. 255 : c = w.qs[e]
      BY <3>1 DEF Bytes16
    <3>3. (((c + 256 * b) \div 16) \div 256) % 16 = b \div 16
      BY HalvesOfBytes
    <3>4. w.qs[e + 1] = b
      BY ONLY <2>2, <3>1
    <3>5. Sse2Nibble(w.qs, i) = ((((c + 256 * b) \div 16) \div 256) % 16) - 8
      BY ONLY <2>5, <2>7, <3>2, <3>4
    <3>6. QED
      BY ONLY <2>3, <3>3, <3>5
  <2>8. j % 2 = 0 \/ j % 2 = 1
    BY ONLY j \in 0 .. 15
  <2>9. Sse2Nibble(w.qs, i) = B!Q4_0Quant(w, i)
    BY ONLY <2>6, <2>7, <2>8
  <2>10. (b \div 16) - 8 \in -128 .. 127
    BY HalvesOfBytes
  <2>11. QED
    BY ONLY <2>3, <2>9, <2>10
<1>4. QED
  BY <1>2, <1>3

(***************************************************************************)
(* What a block is when it was read from bytes.                            *)
(***************************************************************************)
TypedBlock(f, w) ==
  /\ w.d \in Int
  /\ f = "Q8_0" => Quantised(w.q)
  /\ f = "Q4_0" => Bytes16(w.qs)
  /\ f = "Q4_K" => /\ w.dmin \in Int
                   /\ \A i \in 0 .. 11 : w.scales[i] \in 0 .. 255
                   /\ \A i \in 0 .. 127 : w.qs[i] \in 0 .. 255
  /\ f = "Q6_K" => /\ \A i \in 0 .. 127 : w.ql[i] \in 0 .. 255
                   /\ \A i \in 0 .. 63 : w.qh[i] \in 0 .. 255
                   /\ \A i \in 0 .. 15 : w.scales[i] \in Int

LEMMA BlockIsTyped ==
  ASSUME IsProduct(matrix), NEW r \in DOMAIN matrix.rows, NEW k \in DOMAIN matrix.rows[r]
  PROVE  TypedBlock(Format, Block(matrix.rows[r][k]))
<1> DEFINE bytes == matrix.rows[r][k]
<1>1. /\ \A i \in 0..(B!BlockBytes[Format] - 1) : bytes[i] \in 0..255
      /\ \A at \in ScalesAt(Format) : F16Value(B!F16(bytes, at)) \in Int
      /\ Format \in {"Q8_0", "Q4_0", "Q4_K", "Q6_K"}
  BY DEF IsProduct, Format
<1> HIDE DEF bytes
<1>2. ASSUME Format = "Q8_0" PROVE TypedBlock(Format, Block(bytes))
  <2>1. \A i \in 0 .. 33 : bytes[i] \in 0 .. 255
    <3>1. 0 .. (B!BlockBytes[Format] - 1) = 0 .. 33
      <4>1. B!BlockBytes[Format] = 34
        BY ONLY <1>2 DEF B!BlockBytes
      <4>2. QED
        BY ONLY <4>1, 34 - 1 = 33
    <3>2. QED
      BY ONLY <1>1, <3>1
  <2>2. F16Value(B!F16(bytes, 0)) \in Int
    BY <1>1, <1>2 DEF ScalesAt
  <2>3. Block(bytes) = [B!Q8_0Block(bytes) EXCEPT !.d = F16Value(@)]
    BY <1>2 DEF Block
  <2>4. Block(bytes).d = F16Value(B!F16(bytes, 0)) /\ Block(bytes).q = [i \in 0..31 |-> B!Int8(bytes[2 + i])]
    BY <2>3 DEF B!Q8_0Block, B!BLOCK
  <2>5. ASSUME NEW i \in 0 .. 31 PROVE B!Int8(bytes[2 + i]) \in -128 .. 127
    <3>0. 2 + i \in 0 .. 33
      BY ONLY i \in 0 .. 31
    <3>1. PICK b \in 0 .. 255 : b = bytes[2 + i]
      BY ONLY <2>1, <3>0
    <3>2. QED
      BY <3>1 DEF B!Int8
  <2>6. PICK w : w = Block(bytes)
    OBVIOUS
  <2>9. w.d \in Int /\ \A i \in 0 .. 31 : w.q[i] = B!Int8(bytes[2 + i])
    BY <2>2, <2>4, <2>6
  <2>7. w.d \in Int /\ Quantised(w.q)
    BY <2>5, <2>9 DEF Quantised
  <2>8. QED
    BY <1>2, <2>6, <2>7 DEF TypedBlock
<1>3. ASSUME Format = "Q4_0" PROVE TypedBlock(Format, Block(bytes))
  <2>1. \A i \in 0 .. 17 : bytes[i] \in 0 .. 255
    <3>1. 0 .. (B!BlockBytes[Format] - 1) = 0 .. 17
      <4>1. B!BlockBytes[Format] = 18
        BY ONLY <1>3 DEF B!BlockBytes
      <4>2. QED
        BY ONLY <4>1, 18 - 1 = 17
    <3>2. QED
      BY ONLY <1>1, <3>1
  <2>2. F16Value(B!F16(bytes, 0)) \in Int
    BY <1>1, <1>3 DEF ScalesAt
  <2>3. Block(bytes) = [B!Q4_0Block(bytes) EXCEPT !.d = F16Value(@)]
    BY <1>3 DEF Block
  <2>4. Block(bytes).d = F16Value(B!F16(bytes, 0)) /\ Block(bytes).qs = [i \in 0..15 |-> bytes[2 + i]]
    BY <2>3 DEF B!Q4_0Block, B!Field
  <2>5. PICK w : w = Block(bytes)
    OBVIOUS
  <2>6. w.d \in Int /\ Bytes16(w.qs)
    <3>1. w.d \in Int
      BY <2>2, <2>4, <2>5
    <3>2. ASSUME NEW i \in 0 .. 15 PROVE w.qs[i] \in 0 .. 255
      <4>1. w.qs[i] = bytes[2 + i]
        BY ONLY <2>4, <2>5, i \in 0 .. 15
      <4>2. 2 + i \in 0 .. 17
        BY ONLY i \in 0 .. 15
      <4>3. QED
        BY ONLY <2>1, <4>1, <4>2
    <3>3. QED
      BY <3>1, <3>2 DEF Bytes16
  <2>7. QED
    BY <1>3, <2>5, <2>6 DEF TypedBlock
<1>4. ASSUME Format = "Q4_K" PROVE TypedBlock(Format, Block(bytes))
  <2>1. \A i \in 0 .. 143 : bytes[i] \in 0 .. 255
    <3>1. 0 .. (B!BlockBytes[Format] - 1) = 0 .. 143
      <4>1. B!BlockBytes[Format] = 144
        BY ONLY <1>4 DEF B!BlockBytes
      <4>2. QED
        BY ONLY <4>1, 144 - 1 = 143
    <3>2. QED
      BY ONLY <1>1, <3>1
  <2>2. F16Value(B!F16(bytes, 0)) \in Int /\ F16Value(B!F16(bytes, 2)) \in Int
    BY <1>1, <1>4 DEF ScalesAt
  <2>3. Block(bytes) = [B!Q4KBlock(bytes) EXCEPT !.d = F16Value(@), !.dmin = F16Value(@)]
    BY <1>4 DEF Block
  <2>4. /\ Block(bytes).d = F16Value(B!F16(bytes, 0)) /\ Block(bytes).dmin = F16Value(B!F16(bytes, 2))
        /\ Block(bytes).scales = [i \in 0..11 |-> bytes[4 + i]] /\ Block(bytes).qs = [i \in 0..127 |-> bytes[16 + i]]
    BY <2>3 DEF B!Q4KBlock, B!Field
  <2>5. PICK w : w = Block(bytes)
    OBVIOUS
  <2>8. /\ w.d \in Int /\ w.dmin \in Int
        /\ \A i \in 0 .. 11 : w.scales[i] = bytes[4 + i] /\ 4 + i \in 0 .. 143
        /\ \A i \in 0 .. 127 : w.qs[i] = bytes[16 + i] /\ 16 + i \in 0 .. 143
    BY <2>2, <2>4, <2>5
  <2>6. /\ w.d \in Int /\ w.dmin \in Int
        /\ \A i \in 0 .. 11 : w.scales[i] \in 0 .. 255
        /\ \A i \in 0 .. 127 : w.qs[i] \in 0 .. 255
    BY <2>1, <2>8
  <2>7. QED
    BY <1>4, <2>5, <2>6 DEF TypedBlock
<1>5. ASSUME Format = "Q6_K" PROVE TypedBlock(Format, Block(bytes))
  <2>1. \A i \in 0 .. 209 : bytes[i] \in 0 .. 255
    BY <1>1, <1>5 DEF B!BlockBytes
  <2>2. F16Value(B!F16(bytes, 208)) \in Int
    BY <1>1, <1>5 DEF ScalesAt
  <2>3. Block(bytes) = [B!Q6KBlock(bytes) EXCEPT !.d = F16Value(@)]
    BY <1>5 DEF Block
  <2>4. /\ Block(bytes).d = F16Value(B!F16(bytes, 208)) /\ Block(bytes).ql = [i \in 0..127 |-> bytes[0 + i]]
        /\ Block(bytes).qh = [i \in 0..63 |-> bytes[128 + i]]
        /\ Block(bytes).scales = [j \in 0..15 |-> B!Int8(bytes[192 + j])]
    BY <2>3 DEF B!Q6KBlock, B!Field
  <2>5. ASSUME NEW i \in 0 .. 15 PROVE B!Int8(bytes[192 + i]) \in Int
    <3>0. 192 + i \in 0 .. 209
      OBVIOUS
    <3>1. PICK b \in 0 .. 255 : b = bytes[192 + i]
      BY <2>1, <3>0
    <3>2. QED
      BY <3>1 DEF B!Int8
  <2>6. PICK w : w = Block(bytes)
    OBVIOUS
  <2>9. w.d \in Int /\ \A i \in 0 .. 15 : w.scales[i] \in Int
    <3>1. \A i \in 0 .. 15 : w.scales[i] = B!Int8(bytes[192 + i])
      BY <2>4, <2>6
    <3>2. QED
      BY <2>2, <2>4, <2>5, <2>6, <3>1
  <2>10. \A i \in 0 .. 127 : w.ql[i] \in 0 .. 255
    <3>1. \A i \in 0 .. 127 : w.ql[i] = bytes[i]
      BY <2>4, <2>6
    <3>2. ASSUME NEW i \in 0 .. 127 PROVE w.ql[i] \in 0 .. 255
      <4>1. i \in 0 .. 209 /\ w.ql[i] = bytes[i]
        BY <3>1
      <4>2. bytes[i] \in 0 .. 255
        BY <2>1, <4>1
      <4>3. QED
        BY <4>1, <4>2
    <3>3. QED
      BY <3>2
  <2>11. \A i \in 0 .. 63 : w.qh[i] \in 0 .. 255
    <3>1. \A i \in 0 .. 63 : w.qh[i] = bytes[128 + i]
      BY <2>4, <2>6
    <3>2. \A i \in 0 .. 63 : 128 + i \in 0 .. 209
      OBVIOUS
    <3>3. QED
      BY ONLY <2>1, <3>1, <3>2
  <2>7. /\ w.d \in Int
        /\ \A i \in 0 .. 127 : w.ql[i] \in 0 .. 255
        /\ \A i \in 0 .. 63 : w.qh[i] \in 0 .. 255
        /\ \A i \in 0 .. 15 : w.scales[i] \in Int
    BY <2>9, <2>10, <2>11
  <2>8. QED
    BY <1>5, <2>6, <2>7 DEF TypedBlock
<1>6. QED
  BY <1>1, <1>2, <1>3, <1>4, <1>5 DEF bytes

(***************************************************************************)
(* Quantisation: the element of largest magnitude exists, and what is      *)
(* rounded is at most half a step away.                                    *)
(***************************************************************************)
First(v, n, i) == \A j \in 0..(n - 1) : Abs(v[j]) < Abs(v[i]) \/ (Abs(v[j]) = Abs(v[i]) /\ i <= j)

LEMMA HasFirst ==
  ASSUME NEW n \in Nat, n > 0, NEW v, \A i \in 0 .. n - 1 : v[i] \in Int
  PROVE  \E i \in 0 .. n - 1 : First(v, n, i)
<1> DEFINE T == { m \in Nat : m > 0 /\ m <= n => \E i \in 0 .. m - 1 : First(v, m, i) }
<1>0. \A i \in 0 .. n - 1 : Abs(v[i]) \in Int
  BY DEF Abs
<1>1. 0 \in T
  OBVIOUS
<1>2. ASSUME NEW m \in Nat, m \in T PROVE m + 1 \in T
  <2> SUFFICES ASSUME m + 1 <= n PROVE \E i \in 0 .. m : First(v, m + 1, i)
    OBVIOUS
  <2>1. (m + 1) - 1 = m
    OBVIOUS
  <2>2. CASE m = 0
    <3>1. First(v, m + 1, 0)
      BY <2>1, <2>2 DEF First
    <3>2. QED
      BY <2>2, <3>1
  <2>3. CASE m > 0
    <3>1. PICK i \in 0 .. m - 1 : First(v, m, i)
      BY <1>2, <2>3
    <3>2. Abs(v[i]) \in Int /\ Abs(v[m]) \in Int /\ \A j \in 0 .. m - 1 : Abs(v[j]) \in Int
      BY <1>0
    <3>3. CASE Abs(v[m]) > Abs(v[i])
      <4>1. ASSUME NEW j \in 0 .. m PROVE Abs(v[j]) < Abs(v[m]) \/ (Abs(v[j]) = Abs(v[m]) /\ m <= j)
        <5>1. CASE j = m
          BY <5>1
        <5>2. CASE j < m
          <6>1. j \in 0 .. m - 1 /\ (Abs(v[j]) < Abs(v[i]) \/ Abs(v[j]) = Abs(v[i]))
            BY <3>1, <5>2 DEF First
          <6>2. QED
            BY <3>2, <3>3, <6>1
        <5>3. QED
          BY <5>1, <5>2
      <4>2. First(v, m + 1, m)
        BY <2>1, <4>1 DEF First
      <4>3. QED
        BY <4>2
    <3>4. CASE Abs(v[m]) <= Abs(v[i])
      <4>1. ASSUME NEW j \in 0 .. m PROVE Abs(v[j]) < Abs(v[i]) \/ (Abs(v[j]) = Abs(v[i]) /\ i <= j)
        <5>1. CASE j = m
          BY <3>2, <3>4, <5>1
        <5>2. CASE j < m
          BY <3>1, <5>2 DEF First
        <5>3. QED
          BY <5>1, <5>2
      <4>2. First(v, m + 1, i)
        BY <2>1, <4>1 DEF First
      <4>3. QED
        BY <4>2
    <3>5. QED
      BY <3>2, <3>3, <3>4
  <2>4. QED
    BY <2>2, <2>3
<1> HIDE DEF T
<1>3. Nat \subseteq T
  BY <1>1, <1>2, Induction
<1>4. n \in T
  BY <1>3
<1>5. QED
  BY <1>4 DEF T

LEMMA LargestIsLargest ==
  ASSUME NEW n \in Nat, n > 0, NEW v, \A i \in 0 .. n - 1 : v[i] \in Int
  PROVE  Largest(v, n) \in Int /\ \A j \in 0 .. n - 1 : Abs(v[j]) <= Abs(Largest(v, n))
<1>1. PICK i \in 0 .. n - 1 : i = CHOOSE k \in 0 .. n - 1 : First(v, n, k)
  BY HasFirst
<1>2. First(v, n, i)
  BY <1>1, HasFirst
<1>3. Largest(v, n) = v[i]
  BY <1>1 DEF Largest, First
<1>4. \A j \in 0 .. n - 1 : Abs(v[j]) \in Int
  BY DEF Abs
<1>5. QED
  BY <1>2, <1>3, <1>4 DEF First

\* Distances of half a step, for a step of d / 127.
Near(q, n, d) == q \in Int /\ -127 <= q /\ q <= 127 /\ 2 * (d * q - n) <= d /\ -d <= 2 * (d * q - n)

LEMMA NearestAway ==
  ASSUME NEW n \in Nat, NEW d \in Nat, d > 0, n <= 127 * d
  PROVE  Near((2 * n + d) \div (2 * d), n, d) /\ (2 * n + d) \div (2 * d) >= 0
<1>1. PICK q \in Nat, r \in 0 .. 2 * d - 1 : q = (2 * n + d) \div (2 * d) /\ 2 * n + d = (2 * d) * q + r
  <2>1. 2 * n + d \in Nat /\ 2 * d \in Nat /\ 2 * d > 0
    OBVIOUS
  <2>2. PICK a \in Nat, b \in Nat : a = 2 * n + d /\ b = 2 * d /\ b > 0
    BY <2>1
  <2>3. a \div b \in Nat /\ a % b \in 0 .. b - 1 /\ a = b * (a \div b) + (a % b)
    BY <2>2, DivMod
  <2>4. QED
    BY <2>2, <2>3
<1>2. PICK p \in Nat : p = d * q
  BY TimesMonotone
<1>3. (2 * d) * q = 2 * p
  BY <1>2
<1>4. 2 * n + d = 2 * p + r
  BY <1>1, <1>3
<1>5. q <= 127
  <2>1. CASE q >= 128
    <3>1. d * 128 <= d * q
      BY <2>1, TimesMonotone
    <3>2. QED
      BY <1>2, <1>4, <3>1
  <2>2. QED
    BY <2>1
<1>6. 2 * (p - n) <= d /\ -d <= 2 * (p - n)
  BY <1>4
<1>7. QED
  BY <1>1, <1>2, <1>5, <1>6 DEF Near

LEMMA HalfAwayIsNear ==
  ASSUME NEW n \in Int, NEW d \in Nat, d > 0, n <= 127 * d, -(127 * d) <= n
  PROVE  Near(HalfAway(n, d), n, d)
<1>1. CASE n >= 0
  BY <1>1, NearestAway DEF HalfAway
<1>2. CASE n < 0
  <2>1. PICK m \in Nat : m = -n /\ m <= 127 * d
    BY <1>2
  <2>2. PICK q : q = (2 * m + d) \div (2 * d)
    OBVIOUS
  <2>3. Near(q, m, d)
    BY <2>1, <2>2, NearestAway
  <2>4. d - 2 * n = 2 * m + d
    BY <2>1
  <2>5. HalfAway(n, d) = -q
    BY <1>2, <2>2, <2>4 DEF HalfAway
  <2>6. q \in Int /\ -127 <= q /\ q <= 127 /\ 2 * (d * q - m) <= d /\ -d <= 2 * (d * q - m)
    BY <2>3 DEF Near
  <2>7. d * (-q) = -(d * q) /\ d * q \in Int
    BY <2>6
  <2>8. Near(-q, n, d)
    BY <2>1, <2>6, <2>7 DEF Near
  <2>9. QED
    BY <2>5, <2>8
<1>3. QED
  BY <1>1, <1>2

LEMMA HalfEvenIsNear ==
  ASSUME NEW n \in Int, NEW d \in Nat, d > 0, n <= 127 * d, -(127 * d) <= n
  PROVE  Near(HalfEven(n, d), n, d)
<1>1. PICK f \in Int, s \in 0 .. d - 1 : f = n \div d /\ n = d * f + s
  OBVIOUS
<1>2. PICK p \in Int : p = d * f /\ p = f * d
  OBVIOUS
<1>3. PICK r \in Int : r = 2 * s /\ r = 2 * (n - f * d)
  BY <1>1, <1>2
<1>4. HalfEven(n, d) = IF r < d \/ (r = d /\ f % 2 = 0) THEN f ELSE f + 1
  BY <1>1, <1>3 DEF HalfEven
<1>5. f <= 127
  <2>1. CASE f >= 128
    <3>1. f \in Nat /\ d * 128 <= d * f
      BY <2>1, TimesMonotone
    <3>2. QED
      BY <1>1, <1>2, <3>1
  <2>2. QED
    BY <2>1
<1>6. -127 <= f
  <2>1. CASE f <= -128
    <3>1. -f \in Nat /\ d * 128 <= d * (-f) /\ d * (-f) = -(d * f)
      BY <2>1, TimesMonotone
    <3>2. QED
      BY <1>1, <1>2, <3>1
  <2>2. QED
    BY <2>1
<1>7. CASE r < d \/ (r = d /\ f % 2 = 0)
  <2>1. 2 * (p - n) <= d /\ -d <= 2 * (p - n)
    BY <1>1, <1>2, <1>3, <1>7
  <2>2. QED
    BY <1>2, <1>4, <1>5, <1>6, <1>7, <2>1 DEF Near
<1>8. CASE ~ (r < d \/ (r = d /\ f % 2 = 0))
  <2>1. r >= d
    BY <1>8
  <2>2. f # 127
    <3>1. CASE f = 127
      <4>1. s = 0
        BY <1>1, <1>2, <3>1
      <4>2. QED
        BY <1>3, <2>1, <4>1
    <3>2. QED
      BY <3>1
  <2>3. d * (f + 1) = p + d
    BY <1>2
  <2>4. 2 * ((p + d) - n) <= d /\ -d <= 2 * ((p + d) - n)
    BY <1>1, <1>2, <1>3, <2>1
  <2>5. QED
    BY <1>4, <1>5, <1>6, <1>8, <2>2, <2>3, <2>4 DEF Near
<1>9. QED
  BY <1>7, <1>8

IsAct(len, v, a) ==
  /\ a.d \in Int
  /\ \A i \in 0 .. len - 1 : /\ a.q[i] \in Int /\ -127 <= a.q[i] /\ a.q[i] <= 127
                             /\ 2 * Abs(a.d * a.q[i] - 127 * v[i]) <= Abs(a.d)

\* A product of what is near, and of its opposite.
LEMMA NearActs ==
  ASSUME NEW e \in Int, NEW n \in Int, NEW d \in Nat, d > 0, NEW q, Near(q, n, d), n = e \/ n = -e
  PROVE  /\ q \in Int /\ -127 <= q /\ q <= 127
         /\ n = e => 2 * Abs(d * q - e) <= Abs(d)
         /\ n = -e => 2 * Abs((-d) * q - e) <= Abs(-d)
<1>1. q \in Int /\ -127 <= q /\ q <= 127 /\ 2 * (d * q - n) <= d /\ -d <= 2 * (d * q - n)
  BY DEF Near
<1>2. PICK p \in Int : p = d * q /\ -p = (-d) * q
  BY <1>1
<1>3. n = e => 2 * Abs(p - e) <= Abs(d)
  BY <1>1, <1>2 DEF Abs
<1>4. n = -e => 2 * Abs((-p) - e) <= Abs(-d)
  BY <1>1, <1>2 DEF Abs
<1>5. QED
  BY <1>1, <1>2, <1>3, <1>4

LEMMA ZeroActs ==
  ASSUME NEW e \in Int, Abs(e) <= 0
  PROVE  2 * Abs(0 * 0 - 127 * e) <= Abs(0)
<1>1. e = 0
  BY DEF Abs
<1>2. QED
  BY <1>1 DEF Abs

LEMMA Q8AIsNear ==
  ASSUME NEW v, \A i \in 0 .. 31 : v[i] \in Int
  PROVE  IsAct(32, v, Q8A(v))
<1>1. PICK max \in Int : max = Largest(v, 32) /\ \A j \in 0 .. 31 : Abs(v[j]) <= Abs(max)
  <2>1. PICK n \in Nat : n = 32 /\ n > 0
    OBVIOUS
  <2>2. \A i \in 0 .. n - 1 : v[i] \in Int
    BY <2>1
  <2>3. PICK l : l = Largest(v, n)
    OBVIOUS
  <2>4. l \in Int /\ \A j \in 0 .. n - 1 : Abs(v[j]) <= Abs(l)
    <3>1. n > 0
      BY ONLY <2>1
    <3>2. Largest(v, n) \in Int /\ \A j \in 0 .. n - 1 : Abs(v[j]) <= Abs(Largest(v, n))
      BY ONLY <2>2, <3>1, n \in Nat, LargestIsLargest, Zenon
    <3>3. QED
      BY ONLY <2>3, <3>2
  <2>5. 0 .. n - 1 = 0 .. 31 /\ l = Largest(v, 32)
    <3>1. n - 1 = 31
      BY ONLY <2>1
    <3>2. QED
      BY ONLY <2>1, <2>3, <3>1
  <2>6. QED
    BY ONLY <2>4, <2>5
<1>2. PICK amax \in Nat : amax = Abs(max)
  BY DEF Abs
<1>3. Q8A(v) = [d |-> amax, q |-> [i \in 0..31 |-> IF amax = 0 THEN 0 ELSE Clamp(HalfAway(127 * v[i], amax))]]
  BY <1>1, <1>2 DEF Q8A, BLOCK, B!BLOCK
<1>4. PICK a : a = Q8A(v)
  OBVIOUS
<1>5. a.d = amax /\ \A i \in 0 .. 31 : a.q[i] = IF amax = 0 THEN 0 ELSE Clamp(HalfAway(127 * v[i], amax))
  BY <1>3, <1>4
<1>6. ASSUME NEW i \in 0 .. 31
      PROVE  /\ a.q[i] \in Int /\ -127 <= a.q[i] /\ a.q[i] <= 127
             /\ 2 * Abs(a.d * a.q[i] - 127 * v[i]) <= Abs(a.d)
  <2>1. PICK e \in Int : e = v[i] /\ Abs(e) <= amax
    BY <1>1, <1>2
  <2>2. CASE amax = 0
    <3>1. a.q[i] = 0 /\ a.d = 0
      BY <1>5, <2>2
    <3>2. 2 * Abs(0 * 0 - 127 * e) <= Abs(0)
      BY <2>1, <2>2, ZeroActs
    <3>3. QED
      BY <2>1, <3>1, <3>2
  <2>3. CASE amax > 0
    <3>1. PICK n \in Int : n = 127 * e
      OBVIOUS
    <3>2. n <= 127 * amax /\ -(127 * amax) <= n
      BY <2>1, <3>1 DEF Abs
    <3>3. PICK q : q = HalfAway(n, amax)
      OBVIOUS
    <3>4. Near(q, n, amax)
      BY <2>3, <3>2, <3>3, HalfAwayIsNear
    <3>5. q \in Int /\ -127 <= q /\ q <= 127 /\ 2 * Abs(amax * q - n) <= Abs(amax)
      BY <2>3, <3>4, NearActs
    <3>6. Clamp(q) = q
      BY <3>5 DEF Clamp
    <3>7. a.q[i] = q
      BY <1>5, <2>1, <2>3, <3>1, <3>3, <3>6
    <3>8. QED
      BY <1>5, <2>1, <3>1, <3>5, <3>7
  <2>4. QED
    BY <2>2, <2>3
<1>7. 0 .. 32 - 1 = 0 .. 31
  BY ONLY 32 - 1 = 31
<1>8. IsAct(32, v, a)
  <2>1. a.d \in Int
    BY ONLY <1>5, amax \in Nat
  <2>2. QED
    BY ONLY <1>6, <1>7, <2>1, Zenon DEF IsAct
<1>9. QED
  BY ONLY <1>4, <1>8

LEMMA SignedEight ==
  ASSUME NEW p \in -128 .. 127
  PROVE  Signed(p, 8) = p
<1>1. 2 ^ 8 = 256 /\ 2 ^ (8 - 1) = 128
  OBVIOUS
<1>2. PICK q \in Int : q = p % 256
  OBVIOUS
<1>3. q = IF p < 0 THEN p + 256 ELSE p
  BY <1>2
<1>4. Signed(p, 8) = IF q < 128 THEN q ELSE q - 256
  BY <1>1, <1>2 DEF Signed
<1>5. QED
  BY <1>3, <1>4

LEMMA Q8KIsNear ==
  ASSUME NEW v, \A i \in 0 .. 255 : v[i] \in Int
  PROVE  IsAct(256, v, Q8K(v))
<1>1. PICK max \in Int : max = Largest(v, 256) /\ \A j \in 0 .. 255 : Abs(v[j]) <= Abs(max)
  <2>1. PICK n \in Nat : n = 256 /\ n > 0
    OBVIOUS
  <2>2. \A i \in 0 .. n - 1 : v[i] \in Int
    BY <2>1
  <2>3. PICK l : l = Largest(v, n)
    OBVIOUS
  <2>4. l \in Int /\ \A j \in 0 .. n - 1 : Abs(v[j]) <= Abs(l)
    <3>1. n > 0
      BY ONLY <2>1
    <3>2. Largest(v, n) \in Int /\ \A j \in 0 .. n - 1 : Abs(v[j]) <= Abs(Largest(v, n))
      BY ONLY <2>2, <3>1, n \in Nat, LargestIsLargest, Zenon
    <3>3. QED
      BY ONLY <2>3, <3>2
  <2>5. 0 .. n - 1 = 0 .. 255 /\ l = Largest(v, 256)
    <3>1. n - 1 = 255
      BY ONLY <2>1
    <3>2. QED
      BY ONLY <2>1, <2>3, <3>1
  <2>6. QED
    BY ONLY <2>4, <2>5
<1>2. PICK amax \in Nat : amax = Abs(max) /\ (max < 0 => amax = -max) /\ (max >= 0 => amax = max)
  BY DEF Abs
<1> DEFINE Rounded(i) == HalfEven(IF max < 0 THEN 127 * v[i] ELSE -127 * v[i], amax)
<1>3. Q8K(v) = [d |-> -max,
                q |-> [i \in 0..255 |-> IF max = 0 THEN 0 ELSE Signed(IF Rounded(i) > 127 THEN 127 ELSE Rounded(i), 8)]]
  BY <1>1, <1>2 DEF Q8K, SUPER, B!SUPER
<1> HIDE DEF Rounded
<1>4. PICK a : a = Q8K(v)
  OBVIOUS
<1>5. a.d = -max /\ \A i \in 0 .. 255 : a.q[i] = IF max = 0 THEN 0 ELSE Signed(IF Rounded(i) > 127 THEN 127 ELSE Rounded(i), 8)
  BY ONLY <1>3, <1>4
<1>7. a.d = -max /\ a.d \in Int
  BY <1>5
<1>6. ASSUME NEW i \in 0 .. 255
      PROVE  /\ a.q[i] \in Int /\ -127 <= a.q[i] /\ a.q[i] <= 127
             /\ 2 * Abs(a.d * a.q[i] - 127 * v[i]) <= Abs(a.d)
  <2>1. PICK e \in Int : e = v[i] /\ Abs(e) <= amax
    BY <1>1, <1>2
  <2>2. CASE max = 0
    <3>1. a.q[i] = 0 /\ a.d = 0
      <4>1. a.q[i] = 0
        BY <1>5, <2>2
      <4>2. PICK d \in Int : d = a.d /\ d = -max
        BY <1>7
      <4>3. d + max = 0
        BY <4>2
      <4>4. d = 0
        BY <2>2, <4>3
      <4>5. QED
        BY <4>1, <4>2, <4>4
    <3>2. 2 * Abs(0 * 0 - 127 * e) <= Abs(0)
      BY <1>2, <2>1, <2>2, ZeroActs
    <3>3. QED
      BY <2>1, <3>1, <3>2
  <2>3. CASE max # 0
    <3>0. amax > 0
      BY <1>2, <2>3
    <3>1. PICK n \in Int : n = (IF max < 0 THEN 127 * v[i] ELSE -127 * v[i]) /\ (max < 0 => n = 127 * e) /\ (max > 0 => n = -(127 * e))
      BY <2>1, <2>3
    <3>2. n <= 127 * amax /\ -(127 * amax) <= n
      BY <2>1, <2>3, <3>1 DEF Abs
    <3>3. PICK q : q = HalfEven(n, amax)
      OBVIOUS
    <3>4. Near(q, n, amax)
      BY <3>0, <3>2, <3>3, HalfEvenIsNear
    <3>5. /\ q \in Int /\ -127 <= q /\ q <= 127
          /\ n = 127 * e => 2 * Abs(amax * q - 127 * e) <= Abs(amax)
          /\ n = -(127 * e) => 2 * Abs((-amax) * q - 127 * e) <= Abs(-amax)
      <4>1. PICK g \in Int : g = 127 * e
        OBVIOUS
      <4>2. n = g \/ n = -g
        BY <2>3, <3>1, <4>1
      <4>3. /\ q \in Int /\ -127 <= q /\ q <= 127
            /\ n = g => 2 * Abs(amax * q - g) <= Abs(amax)
            /\ n = -g => 2 * Abs((-amax) * q - g) <= Abs(-amax)
        BY ONLY <3>0, <3>4, <4>2, g \in Int, n \in Int, amax \in Nat, NearActs
      <4>4. QED
        BY ONLY <4>1, <4>3
    <3>6. Rounded(i) = q
      BY <3>1, <3>3 DEF Rounded
    <3>7. a.q[i] = q
      <4>1. a.q[i] = Signed(q, 8)
        BY <1>5, <2>3, <3>5, <3>6
      <4>2. QED
        BY <3>5, <4>1, SignedEight
    <3>8. CASE max < 0
      <4>1. a.d = amax /\ n = 127 * e
        BY <1>2, <1>5, <3>1, <3>8
      <4>2. QED
        BY <2>1, <3>5, <3>7, <4>1
    <3>9. CASE max > 0
      <4>1. a.d = -amax /\ n = -(127 * e)
        BY <1>2, <1>5, <3>1, <3>9
      <4>2. QED
        BY <2>1, <3>5, <3>7, <4>1
    <3>10. QED
      BY <2>3, <3>8, <3>9
  <2>4. QED
    BY <2>2, <2>3
<1>8. 0 .. 256 - 1 = 0 .. 255
  BY ONLY 256 - 1 = 255
<1>9. IsAct(256, v, a)
  BY ONLY <1>6, <1>7, <1>8, Zenon DEF IsAct
<1>10. QED
  BY ONLY <1>4, <1>9

(***************************************************************************)
(* The rows of a matrix that was read and a vector that was quantised.     *)
(***************************************************************************)
FiveTargets == {"scalar", "sse2", "avx2", "neon", "simd128"}

IsRead == blocks = [r \in DOMAIN matrix.rows |-> [k \in DOMAIN matrix.rows[r] |-> Block(matrix.rows[r][k])]]
IsQuantised == \A k \in 0 .. Cols \div ActLen - 1 : IsAct(ActLen, Chunk(k), acts[k])

Ready == IsProduct(matrix) /\ target \in FiveTargets /\ IsRead /\ IsQuantised

LEMMA ShapeOfProduct ==
  ASSUME IsProduct(matrix)
  PROVE  /\ RowBlocks \in Nat /\ RowBlocks > 0 /\ Format \in {"Q8_0", "Q4_0", "Q4_K", "Q6_K"}
         /\ \A r \in DOMAIN matrix.rows : DOMAIN matrix.rows[r] = 0 .. RowBlocks - 1
<1>1. /\ matrix.format \in {"Q8_0", "Q4_0", "Q4_K", "Q6_K"} /\ Cardinality(DOMAIN matrix.rows[0]) \in Nat \ {0}
      /\ \A r \in DOMAIN matrix.rows : DOMAIN matrix.rows[r] = 0..(Cardinality(DOMAIN matrix.rows[0]) - 1)
  BY Zenon DEF IsProduct
<1>2. RowBlocks \in Nat \ {0}
  BY ONLY <1>1 DEF RowBlocks
<1>3. RowBlocks \in Nat /\ RowBlocks > 0
  BY ONLY <1>2
<1>4. QED
  BY ONLY <1>1, <1>3 DEF RowBlocks, Format

LEMMA LengthsOfFormat ==
  ASSUME Format \in {"Q8_0", "Q4_0", "Q4_K", "Q6_K"}
  PROVE  /\ B!Weights(Format) \in {32, 256} /\ ActLen \in {32, 256}
         /\ B!Weights(Format) = 32 => ActLen = 32
         /\ ActLen = 256 <=> Format = "Q6_K"
<1>1. B!Weights(Format) = IF Format \in {"Q8_0", "Q4_0"} THEN 32 ELSE 256
  BY DEF B!Weights, B!BLOCK, B!SUPER
<1>2. ActLen = IF Format = "Q6_K" THEN 256 ELSE 32
  BY DEF ActLen, BLOCK, SUPER, B!BLOCK, B!SUPER
<1>3. QED
  BY <1>1, <1>2

LEMMA BlocksAreTyped ==
  ASSUME IsProduct(matrix), IsRead, NEW r \in DOMAIN matrix.rows
  PROVE  RowBlocks \in Nat /\ RowBlocks > 0 /\ \A k \in 0 .. RowBlocks - 1 : TypedBlock(Format, blocks[r][k])
<1>1. RowBlocks \in Nat /\ RowBlocks > 0 /\ DOMAIN matrix.rows[r] = 0 .. RowBlocks - 1
  BY ShapeOfProduct
<1>2. ASSUME NEW k \in 0 .. RowBlocks - 1 PROVE TypedBlock(Format, blocks[r][k])
  <2>1. k \in DOMAIN matrix.rows[r]
    BY <1>1
  <2>2. blocks[r][k] = Block(matrix.rows[r][k])
    BY <2>1 DEF IsRead
  <2>3. QED
    BY <2>1, <2>2, BlockIsTyped
<1>3. QED
  BY <1>1, <1>2

LEMMA TimesIsProduct ==
  ASSUME NEW a \in Int, NEW b \in Int
  PROVE  Times(a, b) \in Int /\ (Finite(Times(a, b)) => Finite(a) /\ Finite(b) /\ Times(a, b) = a * b)
<1>1. MaxFinite \in Nat
  BY DotAssumption
<1>2. ~ Finite(MaxFinite + 1)
  BY <1>1 DEF Finite
<1>3. a * b \in Int
  OBVIOUS
<1>4. CASE Finite(a) /\ Finite(b)
  BY <1>3, <1>4 DEF Times
<1>5. CASE ~ (Finite(a) /\ Finite(b))
  BY <1>1, <1>2, <1>5 DEF Times
<1>6. QED
  BY <1>4, <1>5

LEMMA Shuffled ==
  ASSUME NEW a \in Int, NEW b \in Int, NEW c \in Int, NEW d \in Int
  PROVE  (a * b) * (c * d) = (a * c) * (b * d) /\ (a * b) * (c * d) \in Int
OBVIOUS

LEMMA ChunkOfSuper ==
  ASSUME NEW nb \in Nat, NEW k \in 0 .. nb - 1, NEW i \in 0 .. 255
  PROVE  /\ k * 8 + i \div 32 \in 0 .. nb * 8 - 1 /\ i % 32 \in 0 .. 31
         /\ (k * 256 + i) \div 32 = k * 8 + i \div 32 /\ (k * 256 + i) % 32 = i % 32
<1>1. PICK h \in 0 .. 7, j \in 0 .. 31 : h = i \div 32 /\ j = i % 32 /\ i = 32 * h + j
  <2>1. i \div 32 \in 0 .. 7 /\ i % 32 \in 0 .. 31 /\ i = 32 * (i \div 32) + (i % 32)
    OBVIOUS
  <2>2. QED
    BY ONLY <2>1
<1>2. k * 8 + h \in 0 .. nb * 8 - 1
  OBVIOUS
<1>3. PICK m \in Nat : m = k * 8 + h /\ k * 256 + i = 32 * m + j
  BY <1>1
<1>4. (32 * m + j) \div 32 = m /\ (32 * m + j) % 32 = j
  BY ONLY m \in Nat, j \in 0 .. 31
<1>5. QED
  BY ONLY <1>1, <1>2, <1>3, <1>4

-----------------------------------------------------------------------------
(***************************************************************************)
(* Q8_0 and Q4_0: block by block.                                          *)
(***************************************************************************)
LEMMA QuantsAreQuants ==
  ASSUME NEW w, Format \in {"Q8_0", "Q4_0"}, TypedBlock(Format, w)
  PROVE  /\ Quantised(Quants(w))
         /\ Format = "Q8_0" => \A i \in 0 .. 31 : Quants(w)[i] = w.q[i]
         /\ Format = "Q4_0" => \A i \in 0 .. 31 : Quants(w)[i] = B!Q4_0Quant(w, i)
<1>1. CASE Format = "Q8_0"
  <2>1. Quants(w) = w.q
    BY <1>1 DEF Quants
  <2>2. QED
    BY <1>1, <2>1 DEF TypedBlock
<1>2. CASE Format = "Q4_0"
  <2>1. Bytes16(w.qs)
    BY <1>2 DEF TypedBlock
  <2>2. ASSUME NEW i \in 0 .. 31
        PROVE  Quants(w)[i] = B!Q4_0Quant(w, i) /\ Quants(w)[i] \in -128 .. 127
    <3>1. Sse2Nibble(w.qs, i) = B!Q4_0Quant(w, i) /\ B!Q4_0Quant(w, i) \in -128 .. 127
      BY <2>1, NibbleIsQuant
    <3>2. Quants(w) = [j \in 0 .. 31 |-> IF target = "sse2" THEN Sse2Nibble(w.qs, j) ELSE B!Q4_0Quant(w, j)]
      BY <1>2 DEF Quants, BLOCK, B!BLOCK
    <3>3. QED
      BY ONLY <3>1, <3>2, i \in 0 .. 31
  <2>3. QED
    BY <1>2, <2>2 DEF Quantised
<1>3. QED
  BY <1>1, <1>2

\* The activations of a block of 32.
LEMMA ActsOfBlocks ==
  ASSUME NEW len \in Nat, len > 0, NEW v, NEW a, IsAct(len, v, a)
  PROVE  a.d \in Int /\ (\A i \in 0 .. len - 1 : a.q[i] \in Int) /\ (len = 32 => Activated(a.q))
<1>1. a.d \in Int /\ \A i \in 0 .. len - 1 : a.q[i] \in Int /\ -127 <= a.q[i] /\ a.q[i] <= 127
  BY DEF IsAct
<1>2. ASSUME len = 32 PROVE Activated(a.q)
  <2>1. ASSUME NEW i \in 0 .. 31 PROVE a.q[i] \in -127 .. 127
    <3>1. PICK b \in Int : b = a.q[i] /\ -127 <= b /\ b <= 127
      BY <1>1, <1>2
    <3>2. b \in -127 .. 127
      BY <3>1
    <3>3. QED
      BY <3>1, <3>2
  <2>2. QED
    BY <2>1 DEF Activated
<1>3. QED
  BY <1>1, <1>2

LEMMA DotBlocksIsSum ==
  ASSUME Ready, Format \in {"Q8_0", "Q4_0"}, NEW r \in DOMAIN matrix.rows, DotBlocks(blocks[r]).ok
  PROVE  DotBlocks(blocks[r]).value = Sum(Cols, [c \in 0..(Cols - 1) |-> Weight(r, c) * Activation(c)])
<1>0. PICK row : row = blocks[r]
  OBVIOUS
<1>1. PICK nb \in Nat : /\ row = blocks[r] /\ nb = RowBlocks /\ nb > 0
                        /\ \A k \in 0 .. nb - 1 : TypedBlock(Format, row[k])
  BY <1>0, BlocksAreTyped DEF Ready
<1>2. B!Weights(Format) = 32 /\ ActLen = 32
  BY DEF B!Weights, ActLen, BLOCK, B!BLOCK
<1>3. PICK cols \in Nat : cols = Cols /\ cols = nb * 32 /\ cols \div 32 = nb
  BY <1>1, <1>2 DEF Cols
<1>4. \A k \in 0 .. nb - 1 : IsAct(32, Chunk(k), acts[k])
  BY <1>2, <1>3 DEF Ready, IsQuantised
<1> DEFINE v(k) == Quants(row[k])
           y(k) == acts[k].q
           e(k) == row[k].d * acts[k].d
<1>5. ASSUME NEW k \in 0 .. nb - 1
      PROVE  /\ Quantised(v(k)) /\ Activated(y(k)) /\ row[k].d \in Int /\ acts[k].d \in Int /\ e(k) \in Int
             /\ \A i \in 0 .. 31 : v(k)[i] \in Int /\ y(k)[i] \in Int
             /\ Format = "Q8_0" => \A i \in 0 .. 31 : v(k)[i] = row[k].q[i]
             /\ Format = "Q4_0" => \A i \in 0 .. 31 : v(k)[i] = B!Q4_0Quant(row[k], i)
  <2>1. TypedBlock(Format, row[k])
    BY <1>1
  <2>2. Activated(y(k)) /\ acts[k].d \in Int
    BY <1>4, ActsOfBlocks
  <2>3. /\ Quantised(v(k))
        /\ Format = "Q8_0" => \A i \in 0 .. 31 : v(k)[i] = row[k].q[i]
        /\ Format = "Q4_0" => \A i \in 0 .. 31 : v(k)[i] = B!Q4_0Quant(row[k], i)
    BY <2>1, QuantsAreQuants
  <2>4. row[k].d \in Int
    BY <2>1 DEF TypedBlock
  <2>5. e(k) \in Int
    BY <2>2, <2>4
  <2> HIDE DEF v, y, e
  <2>6. ASSUME NEW i \in 0 .. 31 PROVE v(k)[i] \in Int /\ y(k)[i] \in Int
    <3>1. Quantised(v(k)) /\ Activated(y(k))
      BY <2>2, <2>3
    <3>2. v(k)[i] \in -128 .. 127
      BY ONLY <3>1, i \in 0 .. 31 DEF Quantised
    <3>3. y(k)[i] \in -127 .. 127
      BY ONLY <3>1, i \in 0 .. 31 DEF Activated
    <3>4. QED
      BY ONLY <3>2, <3>3
  <2>7. QED
    BY <2>2, <2>3, <2>4, <2>5, <2>6
<1>6. PICK t : t = [k \in 0..(nb - 1) |-> Times(Times(row[k].d, acts[k].d), Kernel(v(k), y(k)))]
  OBVIOUS
<1>7. DotBlocks(row) = FiniteSum(nb, t)
  BY <1>1, <1>6 DEF DotBlocks
<1>8. ASSUME NEW k \in 0 .. nb - 1
      PROVE  /\ t[k] = Times(Times(row[k].d, acts[k].d), Kernel(v(k), y(k)))
             /\ Kernel(v(k), y(k)) = Sum(32, Products32(v(k), y(k))) /\ Sum(32, Products32(v(k), y(k))) \in Int
             /\ Terms(32, Products32(v(k), y(k)))
             /\ t[k] \in Int
             /\ Finite(t[k]) => t[k] = e(k) * Sum(32, Products32(v(k), y(k)))
  <2>1. t[k] = Times(Times(row[k].d, acts[k].d), Kernel(v(k), y(k)))
    BY <1>6
  <2>2. Quantised(v(k)) /\ Activated(y(k)) /\ row[k].d \in Int /\ acts[k].d \in Int
    BY <1>5
  <2> HIDE DEF v, y
  <2>3. Kernel(v(k), y(k)) = Sum(32, Products32(v(k), y(k)))
    BY <2>2, KernelIsSum DEF Ready, FiveTargets
  <2>4. Terms(32, Products32(v(k), y(k)))
    BY <2>2, ProductsFit
  <2>5. Sum(32, Products32(v(k), y(k))) \in Int
    BY <2>4, SumInt
  <2>6. PICK a \in Int, b \in Int, s \in Int : a = row[k].d /\ b = acts[k].d /\ s = Kernel(v(k), y(k))
    BY <2>2, <2>3, <2>5
  <2>7. Times(a, b) \in Int /\ (Finite(Times(a, b)) => Times(a, b) = a * b)
    BY TimesIsProduct
  <2>8. Times(Times(a, b), s) \in Int /\ (Finite(Times(Times(a, b), s)) => Finite(Times(a, b)) /\ Times(Times(a, b), s) = Times(a, b) * s)
    BY <2>7, TimesIsProduct
  <2>9. QED
    BY <2>1, <2>3, <2>4, <2>5, <2>6, <2>7, <2>8
<1>9. Terms(nb, t)
  BY <1>8 DEF Terms
<1>10. FiniteSum(nb, t).value = Sum(nb, t) /\ \A k \in 0 .. nb - 1 : Finite(t[k])
  BY <1>1, <1>7, <1>9, FiniteSumIsSum
<1>11. PICK u : u = [c \in 0..(cols - 1) |-> Weight(r, c) * Activation(c)]
  OBVIOUS
<1>12. ASSUME NEW k \in 0 .. nb - 1, NEW i \in 0 .. 31
       PROVE  /\ k * 32 + i \in 0 .. cols - 1
              /\ u[k * 32 + i] = e(k) * Products32(v(k), y(k))[i]
              /\ u[k * 32 + i] \in Int
  <2>1. k * 32 + i \in 0 .. cols - 1 /\ (k * 32 + i) \div 32 = k /\ (k * 32 + i) % 32 = i
    <3>1. PICK g \in Nat, h \in 0 .. 31 : g = k /\ h = i /\ g + 1 <= nb
      BY ONLY nb \in Nat, k \in 0 .. nb - 1, i \in 0 .. 31
    <3>2. (g * 32 + h) \div 32 = g /\ (g * 32 + h) % 32 = h
      BY ONLY g \in Nat, h \in 0 .. 31
    <3>3. g * 32 + h \in 0 .. cols - 1
      BY ONLY <1>3, <3>1, g \in Nat, h \in 0 .. 31, nb \in Nat
    <3>4. QED
      BY ONLY <3>1, <3>2, <3>3
  <2>2. PICK c : c = k * 32 + i
    OBVIOUS
  <2>3. Activation(c) = acts[k].d * y(k)[i]
    BY <1>2, <2>1, <2>2 DEF Activation
  <2>4. PICK p \in Int, q \in Int, a \in Int, b \in Int : p = v(k)[i] /\ q = y(k)[i] /\ a = row[k].d /\ b = acts[k].d
    BY <1>5
  <2>5. Weight(r, c) = a * p
    <3>1. Weight(r, c) = CASE Format = "Q8_0" -> row[k].d * row[k].q[i]
                           [] Format = "Q4_0" -> row[k].d * B!Q4_0Quant(row[k], i)
                           [] Format = "Q4_K" -> Q4KValue(row[k], i)
                           [] Format = "Q6_K" -> Q6KValue(row[k], i)
      BY <1>1, <1>2, <2>1, <2>2 DEF Weight
    <3>2. (Format = "Q8_0" => p = row[k].q[i]) /\ (Format = "Q4_0" => p = B!Q4_0Quant(row[k], i))
      BY <1>5, <2>4
    <3>3. QED
      BY <2>4, <3>1, <3>2
  <2>6. Products32(v(k), y(k))[i] = p * q
    BY <2>4 DEF Products32
  <2>7. (a * p) * (b * q) = (a * b) * (p * q) /\ (a * p) * (b * q) \in Int
    BY Shuffled
  <2>8. u[c] = Weight(r, c) * Activation(c)
    BY <1>11, <2>1, <2>2
  <2>9. QED
    BY <2>1, <2>2, <2>3, <2>4, <2>5, <2>6, <2>7, <2>8
<1>13. Terms(cols, u)
  <2> SUFFICES ASSUME NEW c \in 0 .. cols - 1 PROVE u[c] \in Int
    BY DEF Terms
  <2>1. PICK k \in 0 .. nb - 1, i \in 0 .. 31 : c = k * 32 + i
    <3>1. c \div 32 \in 0 .. nb - 1 /\ c % 32 \in 0 .. 31 /\ c = (c \div 32) * 32 + (c % 32)
      BY <1>3
    <3>2. QED
      BY <3>1
  <2>2. QED
    BY <1>12, <2>1
<1>14. ASSUME NEW k \in 0 .. nb - 1
       PROVE  \E w : t[k] = Sum(32, w) /\ \A j \in 0 .. 32 - 1 : w[j] = u[k * 32 + j]
  <2>1. PICK w : w = [j \in 0 .. 31 |-> u[k * 32 + j]]
    OBVIOUS
  <2>2. PICK P, d : P = Products32(v(k), y(k)) /\ d = e(k)
    OBVIOUS
  <2>3. Terms(32, P) /\ d \in Int /\ \A i \in 0 .. 32 - 1 : w[i] = d * P[i]
    <3>1. Terms(32, P) /\ d \in Int
      <4>1. row[k].d \in Int /\ acts[k].d \in Int
        BY <1>5
      <4>2. e(k) \in Int
        BY ONLY <4>1
      <4>3. Terms(32, Products32(v(k), y(k)))
        BY <1>8
      <4>4. QED
        BY ONLY <2>2, <4>2, <4>3
    <3>2. ASSUME NEW i \in 0 .. 31 PROVE w[i] = d * P[i]
      <4>1. u[k * 32 + i] = e(k) * Products32(v(k), y(k))[i]
        BY <1>12
      <4>2. w[i] = u[k * 32 + i]
        BY ONLY <2>1, i \in 0 .. 31
      <4>3. QED
        BY ONLY <2>2, <4>1, <4>2
    <3>3. 0 .. 32 - 1 = 0 .. 31
      BY ONLY 32 - 1 = 31
    <3>4. QED
      BY ONLY <3>1, <3>2, <3>3
  <2>4. Sum(32, w) = d * Sum(32, P)
    BY <2>3, SumTimes
  <2>5. t[k] = d * Sum(32, P)
    BY <1>8, <1>10, <2>2
  <2>6. QED
    BY <2>1, <2>4, <2>5
<1>15. Sum(cols, u) = Sum(nb, t)
  <2>1. PICK b \in Nat : b = 32
    OBVIOUS
  <2>2. cols = nb * b /\ InBlocks(t, u, nb, b)
    <3>1. InBlocks(t, u, nb, 32)
      BY ONLY <1>14 DEF InBlocks
    <3>2. QED
      BY ONLY <1>3, <2>1, <3>1
  <2>3. QED
    BY ONLY <1>13, <2>2, nb \in Nat, b \in Nat, cols \in Nat, SumOfBlocks
<1>16. QED
  BY <1>1, <1>3, <1>7, <1>10, <1>11, <1>15

(***************************************************************************)
(* Q4_K: weight by weight.                                                 *)
(***************************************************************************)
LEMMA ByteParts ==
  ASSUME NEW b \in 0 .. 255
  PROVE  b % 16 \in 0 .. 15 /\ b \div 16 \in 0 .. 15 /\ b % 64 \in 0 .. 63 /\ b \div 64 \in 0 .. 3
OBVIOUS

LEMMA Q4KValueIsInt ==
  ASSUME NEW w, TypedBlock("Q4_K", w), NEW i \in 0 .. 255
  PROVE  Q4KValue(w, i) \in Int
<1>1. /\ w.d \in Int /\ w.dmin \in Int
      /\ \A j \in 0 .. 11 : w.scales[j] \in 0 .. 255
      /\ \A j \in 0 .. 127 : w.qs[j] \in 0 .. 255
  BY DEF TypedBlock
<1>2. PICK k \in 0 .. 7 : k = i \div 32
  OBVIOUS
<1>3. B!Q4KScale(w.scales, k) \in Int
  <2>1. CASE k < 4
    <3>0. k \in 0 .. 11
      OBVIOUS
    <3>1. PICK b \in 0 .. 255 : b = w.scales[k]
      BY <1>1, <3>0
    <3>2. B!Q4KScale(w.scales, k) = b % 64
      BY <2>1, <3>1 DEF B!Q4KScale
    <3>3. QED
      BY <3>2, ByteParts
  <2>2. CASE k >= 4
    <3>1. k + 4 \in 0 .. 11 /\ k - 4 \in 0 .. 11
      BY <2>2
    <3>2. PICK b \in 0 .. 255, c \in 0 .. 255 : b = w.scales[k + 4] /\ c = w.scales[k - 4]
      BY <1>1, <3>1
    <3>3. B!Q4KScale(w.scales, k) = (b % 16) + (c \div 64) * 16
      BY <2>2, <3>2 DEF B!Q4KScale, B!Low
    <3>4. QED
      BY <3>3, ByteParts
  <2>3. QED
    BY <2>1, <2>2
<1>4. B!Q4KMin(w.scales, k) \in Int
  <2>0. k + 4 \in 0 .. 11 /\ k \in 0 .. 11
    OBVIOUS
  <2>1. PICK b \in 0 .. 255, c \in 0 .. 255 : b = w.scales[k + 4] /\ c = w.scales[k]
    BY <1>1, <2>0
  <2>2. CASE k < 4
    <3>1. B!Q4KMin(w.scales, k) = b % 64
      BY <2>1, <2>2 DEF B!Q4KMin
    <3>2. QED
      BY <3>1, ByteParts
  <2>3. CASE k >= 4
    <3>1. B!Q4KMin(w.scales, k) = (b \div 16) + (c \div 64) * 16
      BY <2>1, <2>3 DEF B!Q4KMin, B!High
    <3>2. QED
      BY <3>1, ByteParts
  <2>4. QED
    BY <2>2, <2>3
<1>5. B!Q4KQuant(w, i) \in Int
  <2>1. (k \div 2) * 32 + (i % 32) \in 0 .. 127
    OBVIOUS
  <2>2. PICK b \in 0 .. 255 : b = w.qs[(k \div 2) * 32 + (i % 32)]
    BY <1>1, <2>1
  <2>3. B!Q4KQuant(w, i) = IF k % 2 = 0 THEN b % 16 ELSE b \div 16
    BY <1>2, <2>2 DEF B!Q4KQuant, B!Low, B!High
  <2>4. QED
    BY <2>3, ByteParts
<1>6. PICK d \in Int, m \in Int, s \in Int, q \in Int, e \in Int :
        d = w.d /\ m = w.dmin /\ s = B!Q4KScale(w.scales, k) /\ q = B!Q4KQuant(w, i) /\ e = B!Q4KMin(w.scales, k)
  BY <1>1, <1>3, <1>4, <1>5
<1>7. Q4KValue(w, i) = d * s * q - m * e
  BY <1>2, <1>6 DEF Q4KValue
<1>8. d * s * q - m * e \in Int
  <2>1. PICK f \in Int, g \in Int : f = d * s /\ g = m * e
    OBVIOUS
  <2>2. f * q \in Int
    OBVIOUS
  <2>3. QED
    BY <2>1, <2>2
<1>9. QED
  BY <1>7, <1>8

LEMMA DotQ4KIsSum ==
  ASSUME Ready, Format = "Q4_K", NEW r \in DOMAIN matrix.rows, DotQ4K(blocks[r]).ok
  PROVE  DotQ4K(blocks[r]).value = Sum(Cols, [c \in 0..(Cols - 1) |-> Weight(r, c) * Activation(c)])
<1>0. PICK row : row = blocks[r]
  OBVIOUS
<1>1. PICK nb \in Nat : /\ row = blocks[r] /\ nb = RowBlocks /\ nb > 0
                        /\ \A k \in 0 .. nb - 1 : TypedBlock("Q4_K", row[k])
  BY <1>0, BlocksAreTyped DEF Ready
<1>2. B!Weights(Format) = 256 /\ ActLen = 32 /\ SUPER = 256 /\ BLOCK = 32
  BY DEF B!Weights, ActLen, BLOCK, SUPER, B!BLOCK, B!SUPER
<1>3. PICK cols \in Nat : cols = Cols /\ cols = nb * 256 /\ cols \div 32 = nb * 8
  BY <1>1, <1>2 DEF Cols
<1>4. \A k \in 0 .. nb * 8 - 1 : IsAct(32, Chunk(k), acts[k])
  BY <1>2, <1>3 DEF Ready, IsQuantised
<1> DEFINE a(c) == acts[(c \div 256) * 8 + (c % 256) \div 32]
           T(c) == Times(Q4KValue(row[c \div 256], c % 256), Times(a(c).d, a(c).q[(c % 256) % 32]))
<1>5. PICK t : t = [c \in 0..(cols - 1) |-> T(c)]
  OBVIOUS
<1>6. DotQ4K(row) = FiniteSum(cols, t)
  BY <1>2, <1>3, <1>5, 256 \div 32 = 8 DEF DotQ4K
<1>7. PICK u : u = [c \in 0..(cols - 1) |-> Weight(r, c) * Activation(c)]
  OBVIOUS
<1>8. ASSUME NEW c \in 0 .. cols - 1
      PROVE  t[c] \in Int /\ u[c] \in Int /\ (Finite(t[c]) => u[c] = t[c])
  <2>1. PICK k \in 0 .. nb - 1, i \in 0 .. 255 : k = c \div 256 /\ i = c % 256 /\ c = k * 256 + i
    BY <1>3
  <2>2. PICK m \in 0 .. nb * 8 - 1, j \in 0 .. 31 : m = k * 8 + i \div 32 /\ j = i % 32 /\ m = c \div 32 /\ j = c % 32
    <3>1. /\ k * 8 + i \div 32 \in 0 .. nb * 8 - 1 /\ i % 32 \in 0 .. 31
          /\ (k * 256 + i) \div 32 = k * 8 + i \div 32 /\ (k * 256 + i) % 32 = i % 32
      BY ONLY nb \in Nat, k \in 0 .. nb - 1, i \in 0 .. 255, ChunkOfSuper
    <3>2. c = k * 256 + i
      BY ONLY <2>1
    <3>3. c \div 32 = k * 8 + i \div 32 /\ c % 32 = i % 32
      BY ONLY <3>1, <3>2
    <3>4. QED
      BY ONLY <3>1, <3>3
  <2>3. a(c) = acts[m]
    BY <2>1, <2>2
  <2>4. IsAct(32, Chunk(m), acts[m])
    BY <1>4
  <2>5. acts[m].d \in Int /\ acts[m].q[j] \in Int
    BY <2>4, ActsOfBlocks
  <2>6. TypedBlock("Q4_K", row[k])
    BY <1>1
  <2>7. PICK v \in Int, d \in Int, q \in Int : v = Q4KValue(row[k], i) /\ d = acts[m].d /\ q = acts[m].q[j]
    BY <2>5, <2>6, Q4KValueIsInt
  <2>8. t[c] = T(c) /\ u[c] = Weight(r, c) * Activation(c)
    BY <1>5, <1>7
  <2>9. T(c) = Times(v, Times(d, q))
    BY <2>1, <2>2, <2>3, <2>7
  <2>10. Weight(r, c) = v
    <3>1. Weight(r, c) = Q4KValue(blocks[r][c \div 256], c % 256)
      BY <1>2 DEF Weight
    <3>2. QED
      BY <1>1, <2>1, <2>7, <3>1
  <2>11. Activation(c) = d * q
    BY <1>2, <2>2, <2>7 DEF Activation
  <2> HIDE DEF T, a
  <2>12. Times(d, q) \in Int /\ (Finite(Times(d, q)) => Times(d, q) = d * q)
    BY TimesIsProduct
  <2>13. /\ Times(v, Times(d, q)) \in Int
         /\ Finite(Times(v, Times(d, q))) => Finite(Times(d, q)) /\ Times(v, Times(d, q)) = v * Times(d, q)
    BY <2>12, TimesIsProduct
  <2>14. d * q \in Int /\ v * (d * q) \in Int
    <3>1. PICK e \in Int : e = d * q
      OBVIOUS
    <3>2. v * e \in Int
      OBVIOUS
    <3>3. QED
      BY <3>1, <3>2
  <2>15. QED
    BY <2>8, <2>9, <2>10, <2>11, <2>12, <2>13, <2>14
<1> HIDE DEF T, a
<1>9. Terms(cols, t)
  BY <1>8 DEF Terms
<1>10. FiniteSum(cols, t).value = Sum(cols, t) /\ \A c \in 0 .. cols - 1 : Finite(t[c])
  BY <1>1, <1>6, <1>9, FiniteSumIsSum
<1>11. \A c \in 0 .. cols - 1 : u[c] = t[c]
  BY <1>8, <1>10
<1>12. Sum(cols, u) = Sum(cols, t)
  BY <1>9, <1>11, SumAlike
<1>13. QED
  BY <1>1, <1>3, <1>6, <1>7, <1>10, <1>12

-----------------------------------------------------------------------------
(***************************************************************************)
(* Q6_K: eight lanes.                                                      *)
(***************************************************************************)
LEMMA Q6KQuantIsInt ==
  ASSUME NEW w, TypedBlock("Q6_K", w), NEW i \in 0 .. 255
  PROVE  B!Q6KQuant(w, i) \in Int
<1>1. /\ \A j \in 0 .. 127 : w.ql[j] \in 0 .. 255
      /\ \A j \in 0 .. 63 : w.qh[j] \in 0 .. 255
  BY DEF TypedBlock
<1>2. PICK half \in 0 .. 1, part \in 0 .. 3, l \in 0 .. 31 : half = i \div 128 /\ part = (i % 128) \div 32 /\ l = i % 32
  OBVIOUS
<1>3. half * 64 + l + 32 * (part % 2) \in 0 .. 127 /\ half * 32 + l \in 0 .. 63
  OBVIOUS
<1>4. PICK b \in 0 .. 255, c \in 0 .. 255 : b = w.ql[half * 64 + l + 32 * (part % 2)] /\ c = w.qh[half * 32 + l]
  BY <1>1, <1>3
<1>5. PICK p : p = 4 ^ part
  OBVIOUS
<1>6. p = 1 \/ p = 4 \/ p = 16 \/ p = 64
  <2>1. 4 ^ 0 = 1 /\ 4 ^ 1 = 4 /\ 4 ^ 2 = 16 /\ 4 ^ 3 = 64
    OBVIOUS
  <2>2. part = 0 \/ part = 1 \/ part = 2 \/ part = 3
    OBVIOUS
  <2>3. QED
    BY <1>5, <2>1, <2>2
<1>7. PICK h \in Int : h = (c \div p) % 4
  <2>1. (c \div 1) % 4 \in Int /\ (c \div 4) % 4 \in Int /\ (c \div 16) % 4 \in Int /\ (c \div 64) % 4 \in Int
    OBVIOUS
  <2>2. QED
    BY <1>6, <2>1
<1>8. B!Q6KQuant(w, i) = (IF part < 2 THEN b % 16 ELSE b \div 16) + 16 * h - 32
  <2>1. B!Q6KQuant(w, i) = (IF part < 2 THEN B!Low(w.ql[half * 64 + l + 32 * (part % 2)])
                                        ELSE B!High(w.ql[half * 64 + l + 32 * (part % 2)]))
                           + 16 * ((w.qh[half * 32 + l] \div 4 ^ part) % 4) - 32
    BY ONLY <1>2 DEF B!Q6KQuant
  <2>2. B!Low(b) = b % 16 /\ B!High(b) = b \div 16
    BY ONLY DEF B!Low, B!High
  <2>3. QED
    BY ONLY <1>4, <1>5, <1>7, <2>1, <2>2
<1>9. QED
  BY <1>8, ByteParts

LEMMA Q6KScaleOfRun ==
  ASSUME NEW run \in 0 .. 31, NEW lane \in 0 .. 7
  PROVE  B!Q6KScaleIndex(8 * run + lane) = run \div 2 /\ run \div 2 \in 0 .. 15
BY DEF B!Q6KScaleIndex

LEMMA ShuffledFive ==
  ASSUME NEW d \in Int, NEW s \in Int, NEW q \in Int, NEW a \in Int, NEW y \in Int
  PROVE  (d * s * q) * (a * y) = (d * a) * (s * y * q) /\ (d * a) * (s * y * q) \in Int /\ s * y * q \in Int
<1>1. (d * s * q) * (a * y) = (d * a) * (s * y * q)
  OBVIOUS
<1>2. PICK e \in Int, f \in Int : e = d * a /\ f = s * y
  OBVIOUS
<1>3. PICK g \in Int : g = f * q
  OBVIOUS
<1>4. e * g \in Int
  OBVIOUS
<1>5. QED
  BY <1>1, <1>2, <1>3, <1>4

SuperProducts(w, a) == [i \in 0 .. 255 |-> w.scales[B!Q6KScaleIndex(i)] * a.q[i] * B!Q6KQuant(w, i)]

LEMMA LanesOfSuper ==
  ASSUME NEW w, TypedBlock("Q6_K", w), NEW a, \A i \in 0 .. 255 : a.q[i] \in Int,
         NEW C, \A lane \in 0 .. 7 : C[lane] = Aux(w, a, lane)
  PROVE  Terms(256, SuperProducts(w, a)) /\ Terms(8, C) /\ Sum(8, C) = Sum(256, SuperProducts(w, a))
<1>1. PICK p : p = SuperProducts(w, a)
  OBVIOUS
<1>2. ASSUME NEW run \in 0 .. 31, NEW lane \in 0 .. 7
      PROVE  /\ p[8 * run + lane] = w.scales[run \div 2] * a.q[8 * run + lane] * B!Q6KQuant(w, 8 * run + lane)
             /\ p[8 * run + lane] \in Int
  <2>1. 8 * run + lane \in 0 .. 255
    OBVIOUS
  <2>2. B!Q6KScaleIndex(8 * run + lane) = run \div 2 /\ run \div 2 \in 0 .. 15
    BY Q6KScaleOfRun
  <2>3. PICK s \in Int, y \in Int, q \in Int : s = w.scales[run \div 2] /\ y = a.q[8 * run + lane] /\ q = B!Q6KQuant(w, 8 * run + lane)
    BY <2>1, <2>2, Q6KQuantIsInt DEF TypedBlock
  <2>4. p[8 * run + lane] = w.scales[run \div 2] * a.q[8 * run + lane] * B!Q6KQuant(w, 8 * run + lane)
    BY <1>1, <2>1, <2>2 DEF SuperProducts
  <2>5. s * y * q \in Int
    BY ShuffledFive
  <2>6. QED
    BY <2>3, <2>4, <2>5
<1>3. PICK F : F = [run \in 0 .. 31 |-> [lane \in 0 .. 7 |-> p[8 * run + lane]]]
  OBVIOUS
<1>4. PICK R : R = [run \in 0 .. 31 |-> Sum(8, F[run])]
  OBVIOUS
<1>5. ASSUME NEW run \in 0 .. 31
      PROVE  Terms(8, F[run]) /\ R[run] = Sum(8, F[run]) /\ \A lane \in 0 .. 7 : F[run][lane] = p[8 * run + lane]
  <2>1. \A lane \in 0 .. 7 : F[run][lane] = p[8 * run + lane]
    BY <1>3
  <2>2. R[run] = Sum(8, F[run])
    BY <1>4
  <2>3. Terms(8, F[run])
    <3>1. \A lane \in 0 .. 7 : F[run][lane] \in Int
      BY ONLY <1>2, <2>1, run \in 0 .. 31
    <3>2. 0 .. 8 - 1 = 0 .. 7
      BY ONLY 8 - 1 = 7
    <3>3. QED
      BY ONLY <3>1, <3>2 DEF Terms
  <2>4. QED
    BY <2>1, <2>2, <2>3
<1>6. Terms(256, p)
  <2>1. ASSUME NEW i \in 0 .. 255 PROVE p[i] \in Int
    <3>1. PICK run \in 0 .. 31, lane \in 0 .. 7 : i = 8 * run + lane
      <4>1. i \div 8 \in 0 .. 31 /\ i % 8 \in 0 .. 7 /\ i = 8 * (i \div 8) + (i % 8)
        OBVIOUS
      <4>2. QED
        BY <4>1
    <3>2. QED
      BY <1>2, <3>1
  <2>2. 0 .. 256 - 1 = 0 .. 255
    BY ONLY 256 - 1 = 255
  <2>3. QED
    BY ONLY <2>1, <2>2 DEF Terms
<1>7. PICK m \in Nat, b \in Nat, n \in Nat : m = 32 /\ b = 8 /\ n = 256 /\ n = m * b
  OBVIOUS
<1>8. InBlocks(R, p, m, b)
  <2> SUFFICES ASSUME NEW run \in 0 .. m - 1
               PROVE  \E u : R[run] = Sum(b, u) /\ \A j \in 0 .. b - 1 : u[j] = p[run * b + j]
    BY DEF InBlocks
  <2>1. run \in 0 .. 31 /\ run * b = 8 * run
    BY <1>7
  <2>2. R[run] = Sum(b, F[run]) /\ \A j \in 0 .. b - 1 : F[run][j] = p[run * b + j]
    <3>1. R[run] = Sum(8, F[run]) /\ \A j \in 0 .. 7 : F[run][j] = p[8 * run + j]
      BY ONLY <1>5, <2>1
    <3>2. b = 8 /\ 0 .. b - 1 = 0 .. 7
      BY ONLY <1>7, 8 - 1 = 7
    <3>3. ASSUME NEW j \in 0 .. 7 PROVE F[run][j] = p[run * b + j]
      BY ONLY <2>1, <3>1, j \in 0 .. 7
    <3>4. QED
      BY ONLY <3>1, <3>2, <3>3
  <2>3. QED
    BY <2>2
<1>9. Sum(n, p) = Sum(m, R)
  BY ONLY <1>6, <1>7, <1>8, m \in Nat, b \in Nat, n \in Nat, SumOfBlocks
<1>10. InColumns(C, F, m, b)
  <2> SUFFICES ASSUME NEW lane \in 0 .. b - 1
               PROVE  \E u : C[lane] = Sum(m, u) /\ \A k \in 0 .. m - 1 : u[k] = F[k][lane]
    BY DEF InColumns
  <2>1. lane \in 0 .. 7
    BY <1>7
  <2>2. PICK u : u = [run \in 0..31 |-> w.scales[run \div 2] * a.q[8 * run + lane] * B!Q6KQuant(w, 8 * run + lane)]
    OBVIOUS
  <2>3. C[lane] = Sum(32, u)
    BY <2>1, <2>2 DEF Aux
  <2>4. \A k \in 0 .. 31 : u[k] = F[k][lane]
    BY <1>2, <1>5, <2>1, <2>2
  <2>5. QED
    BY <1>7, <2>3, <2>4
<1>11. InRows(R, F, m, b)
  <2>1. \A run \in 0 .. 31 : Terms(8, F[run]) /\ R[run] = Sum(8, F[run])
    BY ONLY <1>5
  <2>2. b = 8 /\ 0 .. m - 1 = 0 .. 31
    BY ONLY <1>7, 32 - 1 = 31
  <2>3. QED
    BY ONLY <2>1, <2>2 DEF InRows
<1>12. Terms(b, C) /\ Sum(m, R) = Sum(b, C)
  BY ONLY <1>10, <1>11, m \in Nat, b \in Nat, SumOfSums
<1>13. QED
  BY <1>1, <1>6, <1>7, <1>9, <1>12

LEMMA DotQ6KIsSum ==
  ASSUME Ready, Format = "Q6_K", NEW r \in DOMAIN matrix.rows, DotQ6K(blocks[r]).ok
  PROVE  DotQ6K(blocks[r]).value = Sum(Cols, [c \in 0..(Cols - 1) |-> Weight(r, c) * Activation(c)])
<1>0. PICK row : row = blocks[r]
  OBVIOUS
<1>1. PICK nb \in Nat : /\ row = blocks[r] /\ nb = RowBlocks /\ nb > 0
                        /\ \A k \in 0 .. nb - 1 : TypedBlock("Q6_K", row[k])
  BY <1>0, BlocksAreTyped DEF Ready
<1>2. B!Weights(Format) = 256 /\ ActLen = 256
  BY DEF B!Weights, ActLen, SUPER, B!SUPER
<1>3. PICK cols \in Nat : cols = Cols /\ cols = nb * 256 /\ cols \div 256 = nb
  BY <1>1, <1>2 DEF Cols
<1>4. ASSUME NEW k \in 0 .. nb - 1 PROVE row[k].d \in Int /\ acts[k].d \in Int /\ \A i \in 0 .. 255 : acts[k].q[i] \in Int
  <2>1. IsAct(256, Chunk(k), acts[k])
    BY <1>2, <1>3 DEF Ready, IsQuantised
  <2>2. row[k].d \in Int
    BY <1>1 DEF TypedBlock
  <2>3. PICK len \in Nat : len = 256 /\ len > 0
    OBVIOUS
  <2>4. IsAct(len, Chunk(k), acts[k])
    BY <2>1, <2>3
  <2>5. acts[k].d \in Int /\ \A i \in 0 .. len - 1 : acts[k].q[i] \in Int
    BY <2>3, <2>4, ActsOfBlocks
  <2>6. 0 .. len - 1 = 0 .. 255
    BY ONLY <2>3, 256 - 1 = 255
  <2>7. QED
    BY ONLY <2>2, <2>5, <2>6
<1> DEFINE e(k) == row[k].d * acts[k].d
           P(k) == SuperProducts(row[k], acts[k])
           Auxes(k) == [l \in 0 .. 7 |-> Aux(row[k], acts[k], l)]
           t(l) == [k \in 0..(nb - 1) |-> Times(Times(row[k].d, acts[k].d), Aux(row[k], acts[k], l))]
           values == [l \in 0 .. 7 |-> Lane(row, l).value]
<1>5. ASSUME NEW k \in 0 .. nb - 1
      PROVE  /\ Terms(256, P(k)) /\ Terms(8, Auxes(k)) /\ Sum(8, Auxes(k)) = Sum(256, P(k)) /\ e(k) \in Int
             /\ \A l \in 0 .. 7 : Auxes(k)[l] = Aux(row[k], acts[k], l)
  <2>1. \A l \in 0 .. 7 : Auxes(k)[l] = Aux(row[k], acts[k], l)
    OBVIOUS
  <2>2. e(k) \in Int
    <3>1. row[k].d \in Int /\ acts[k].d \in Int
      BY <1>4
    <3>2. QED
      BY ONLY <3>1
  <2> HIDE DEF Auxes, e
  <2>3. TypedBlock("Q6_K", row[k]) /\ \A i \in 0 .. 255 : acts[k].q[i] \in Int
    BY <1>1, <1>4
  <2>4. PICK w, a, C : w = row[k] /\ a = acts[k] /\ C = Auxes(k)
    OBVIOUS
  <2>5. TypedBlock("Q6_K", w) /\ (\A i \in 0 .. 255 : a.q[i] \in Int) /\ \A l \in 0 .. 7 : C[l] = Aux(w, a, l)
    BY <2>1, <2>3, <2>4
  <2>6. Terms(256, SuperProducts(w, a)) /\ Terms(8, C) /\ Sum(8, C) = Sum(256, SuperProducts(w, a))
    BY <2>5, LanesOfSuper
  <2>7. P(k) = SuperProducts(w, a)
    BY <2>4
  <2> HIDE DEF P
  <2>8. QED
    BY <2>1, <2>2, <2>4, <2>6, <2>7
<1>6. ASSUME NEW l \in 0 .. 7
      PROVE  Lane(row, l) = FiniteSum(nb, t(l)) /\ \A k \in 0 .. nb - 1 : t(l)[k] = Times(Times(row[k].d, acts[k].d), Auxes(k)[l])
  BY <1>1 DEF Lane
<1>7. DotQ6K(row) = [ok |-> FiniteSum(8, values).ok /\ \A l \in 0 .. 7 : Lane(row, l).ok, value |-> FiniteSum(8, values).value]
  BY DEF DotQ6K
<1>8. FiniteSum(8, values).ok /\ \A l \in 0 .. 7 : Lane(row, l).ok
  <2> HIDE DEF values
  <2>1. PICK all : all = (FiniteSum(8, values).ok /\ \A l \in 0 .. 7 : Lane(row, l).ok)
    OBVIOUS
  <2>2. DotQ6K(row).ok = all
    BY <1>7, <2>1
  <2>3. DotQ6K(row).ok
    BY <1>1
  <2>4. all
    BY <2>2, <2>3
  <2>5. QED
    BY <2>1, <2>4
<1>9. \A l \in 0 .. 7 : values[l] = Lane(row, l).value
  OBVIOUS
<1> HIDE DEF e, P, Auxes, t, values
<1>10. ASSUME NEW l \in 0 .. 7, NEW k \in 0 .. nb - 1
       PROVE  t(l)[k] \in Int /\ (Finite(t(l)[k]) => t(l)[k] = e(k) * Auxes(k)[l])
  <2>0. Auxes(k)[l] \in Int
    <3>1. Terms(8, Auxes(k)) /\ l \in 0 .. 8 - 1
      BY <1>5
    <3>2. QED
      BY ONLY <3>1 DEF Terms
  <2>1. PICK a \in Int, b \in Int, s \in Int : a = row[k].d /\ b = acts[k].d /\ s = Auxes(k)[l]
    BY <1>4, <2>0
  <2>2. t(l)[k] = Times(Times(a, b), s)
    BY <1>6, <2>1
  <2>3. Times(a, b) \in Int /\ (Finite(Times(a, b)) => Times(a, b) = a * b)
    BY TimesIsProduct
  <2>4. Times(Times(a, b), s) \in Int /\ (Finite(Times(Times(a, b), s)) => Finite(Times(a, b)) /\ Times(Times(a, b), s) = Times(a, b) * s)
    BY <2>3, TimesIsProduct
  <2>5. e(k) = a * b
    BY <2>1 DEF e
  <2>6. QED
    BY <2>1, <2>2, <2>3, <2>4, <2>5
<1>11. ASSUME NEW l \in 0 .. 7
       PROVE  /\ Terms(nb, t(l)) /\ values[l] = Sum(nb, t(l)) /\ Sum(nb, t(l)) \in Int
              /\ \A k \in 0 .. nb - 1 : t(l)[k] = e(k) * Auxes(k)[l]
  <2>1. PICK tl : tl = t(l)
    OBVIOUS
  <2>2. Terms(nb, tl)
    BY <1>10, <2>1 DEF Terms
  <2>3. FiniteSum(nb, tl).ok
    BY <1>6, <1>8, <2>1
  <2>4. FiniteSum(nb, tl).value = Sum(nb, tl) /\ \A k \in 0 .. nb - 1 : Finite(tl[k])
    BY <2>2, <2>3, FiniteSumIsSum
  <2>5. Sum(nb, tl) \in Int
    BY <2>2, SumInt
  <2>6. values[l] = FiniteSum(nb, tl).value
    BY <1>6, <1>9, <2>1
  <2>7. QED
    BY <1>10, <2>1, <2>2, <2>4, <2>5, <2>6
<1>12. PICK F, R : F = [k \in 0 .. nb - 1 |-> [l \in 0 .. 7 |-> e(k) * Auxes(k)[l]]] /\ R = [k \in 0 .. nb - 1 |-> Sum(8, F[k])]
  OBVIOUS
<1>13. ASSUME NEW k \in 0 .. nb - 1
       PROVE  /\ \A l \in 0 .. 7 : F[k][l] = e(k) * Auxes(k)[l]
              /\ Terms(8, F[k]) /\ R[k] = Sum(8, F[k]) /\ R[k] = e(k) * Sum(256, P(k))
  <2>1. \A l \in 0 .. 7 : F[k][l] = e(k) * Auxes(k)[l]
    BY <1>12
  <2>2. R[k] = Sum(8, F[k])
    BY <1>12
  <2>3. PICK d, A, f : d = e(k) /\ A = Auxes(k) /\ f = F[k]
    OBVIOUS
  <2>4. d \in Int /\ Terms(8, A) /\ \A l \in 0 .. 8 - 1 : f[l] = d * A[l]
    BY <1>5, <2>1, <2>3
  <2>5. Terms(8, f) /\ Sum(8, f) = d * Sum(8, A)
    BY <2>4, SumTimes
  <2>6. QED
    BY <1>5, <2>1, <2>2, <2>3, <2>5
<1>14. PICK b \in Nat, n \in Nat : b = 8 /\ n = 256
  OBVIOUS
<1>15. InColumns(values, F, nb, b)
  <2> SUFFICES ASSUME NEW l \in 0 .. b - 1
               PROVE  \E u : values[l] = Sum(nb, u) /\ \A k \in 0 .. nb - 1 : u[k] = F[k][l]
    BY DEF InColumns
  <2>1. l \in 0 .. 7
    BY <1>14
  <2>2. values[l] = Sum(nb, t(l)) /\ \A k \in 0 .. nb - 1 : t(l)[k] = F[k][l]
    BY <1>11, <1>13, <2>1
  <2>3. QED
    BY <2>2
<1>16. InRows(R, F, nb, b)
  BY <1>13, <1>14 DEF InRows
<1>17. Terms(nb, R) /\ Terms(b, values) /\ Sum(nb, R) = Sum(b, values)
  BY ONLY <1>15, <1>16, nb \in Nat, b \in Nat, SumOfSums
<1>18. FiniteSum(8, values).value = Sum(8, values)
  <2>1. Terms(8, values)
    BY ONLY <1>14, <1>17
  <2>2. QED
    BY ONLY <2>1, 8 \in Nat, FiniteSumIsSum
<1>19. PICK u : u = [c \in 0..(cols - 1) |-> Weight(r, c) * Activation(c)]
  OBVIOUS
<1> DEFINE Fits(k, i) == u[k * 256 + i] \in Int
<1> HIDE DEF Fits
<1>20. ASSUME NEW k \in 0 .. nb - 1, NEW i \in 0 .. 255
       PROVE  /\ k * 256 + i \in 0 .. cols - 1
              /\ u[k * 256 + i] = e(k) * P(k)[i]
              /\ Fits(k, i)
  <2>1. k * 256 + i \in 0 .. cols - 1 /\ (k * 256 + i) \div 256 = k /\ (k * 256 + i) % 256 = i
    <3>0. k \in Nat
      BY ONLY nb \in Nat, k \in 0 .. nb - 1
    <3>1. k \in Nat /\ k + 1 <= nb
      BY ONLY nb \in Nat, k \in 0 .. nb - 1
    <3>2. k * 256 + i \in Nat /\ k * 256 + i < (k + 1) * 256 /\ (k + 1) * 256 <= nb * 256
      BY ONLY <3>1, nb \in Nat, i \in 0 .. 255
    <3>3. k * 256 + i \in 0 .. cols - 1
      BY <1>3, <3>2
    <3>4. (k * 256 + i) \div 256 = k /\ (k * 256 + i) % 256 = i
      <4>1. PICK g \in Nat, h \in 0 .. 255 : g = k /\ h = i
        BY ONLY <3>0, i \in 0 .. 255
      <4>2. (g * 256 + h) \div 256 = g /\ (g * 256 + h) % 256 = h
        BY ONLY g \in Nat, h \in 0 .. 255
      <4>3. QED
        BY ONLY <4>1, <4>2
    <3>5. QED
      BY ONLY <3>3, <3>4
  <2>2. PICK c : c = k * 256 + i
    OBVIOUS
  <2>3. Activation(c) = acts[k].d * acts[k].q[i]
    BY <1>2, <2>1, <2>2 DEF Activation
  <2>4. B!Q6KScaleIndex(i) \in 0 .. 15
    <3>1. PICK run \in 0 .. 31, lane \in 0 .. 7 : i = 8 * run + lane
      <4>1. i \div 8 \in 0 .. 31 /\ i % 8 \in 0 .. 7 /\ i = 8 * (i \div 8) + (i % 8)
        OBVIOUS
      <4>2. QED
        BY <4>1
    <3>2. QED
      BY <3>1, Q6KScaleOfRun
  <2>5. TypedBlock("Q6_K", row[k])
    BY <1>1
  <2>6. PICK d \in Int, s \in Int, q \in Int, a \in Int, y \in Int :
          d = row[k].d /\ s = row[k].scales[B!Q6KScaleIndex(i)] /\ q = B!Q6KQuant(row[k], i) /\ a = acts[k].d /\ y = acts[k].q[i]
    <3>1. row[k].scales[B!Q6KScaleIndex(i)] \in Int
      BY <2>4, <2>5 DEF TypedBlock
    <3>2. B!Q6KQuant(row[k], i) \in Int
      BY <2>5, Q6KQuantIsInt
    <3>3. QED
      BY <1>4, <3>1, <3>2
  <2>7. Weight(r, c) = d * s * q
    <3>1. Weight(r, c) = Q6KValue(row[k], i)
      <4>1. Weight(r, c) = Q6KValue(blocks[r][c \div 256], c % 256)
        BY <1>2 DEF Weight
      <4>2. QED
        BY <1>1, <2>1, <2>2, <4>1
    <3>2. QED
      BY <2>6, <3>1 DEF Q6KValue
  <2>8. P(k)[i] = s * y * q
    BY <2>6 DEF P, SuperProducts
  <2>9. e(k) = d * a
    BY <2>6 DEF e
  <2>10. (d * s * q) * (a * y) = (d * a) * (s * y * q) /\ (d * a) * (s * y * q) \in Int
    BY ShuffledFive
  <2>11. u[c] = Weight(r, c) * Activation(c)
    BY <1>19, <2>1, <2>2
  <2>12. QED
    BY <2>1, <2>2, <2>3, <2>6, <2>7, <2>8, <2>9, <2>10, <2>11 DEF Fits
<1>21. Terms(cols, u)
  <2> SUFFICES ASSUME NEW c \in 0 .. cols - 1 PROVE u[c] \in Int
    BY DEF Terms
  <2>1. PICK k \in 0 .. nb - 1, i \in 0 .. 255 : c = k * 256 + i
    <3>1. c \div 256 \in 0 .. nb - 1 /\ c % 256 \in 0 .. 255 /\ c = (c \div 256) * 256 + (c % 256)
      BY <1>3
    <3>2. QED
      BY <3>1
  <2>2. Fits(k, i)
    BY ONLY <1>20
  <2>3. QED
    BY ONLY <2>1, <2>2 DEF Fits
<1>22. InBlocks(R, u, nb, n)
  <2> SUFFICES ASSUME NEW k \in 0 .. nb - 1
               PROVE  \E w : R[k] = Sum(n, w) /\ \A j \in 0 .. n - 1 : w[j] = u[k * n + j]
    BY DEF InBlocks
  <2>1. PICK w : w = [j \in 0 .. 255 |-> u[k * 256 + j]]
    OBVIOUS
  <2>2. PICK Q, d : Q = P(k) /\ d = e(k)
    OBVIOUS
  <2>3. d \in Int /\ Terms(n, Q)
    BY <1>5, <1>14, <2>2
  <2>4. ASSUME NEW j \in 0 .. n - 1 PROVE w[j] = d * Q[j]
    <3>1. j \in 0 .. 255
      BY <1>14
    <3>2. QED
      BY <1>20, <2>1, <2>2, <3>1
  <2>5. Sum(n, w) = d * Sum(n, Q)
    BY ONLY <2>3, <2>4, n \in Nat, SumTimes
  <2>8. R[k] = d * Sum(n, Q)
    BY <1>13, <1>14, <2>2
  <2>6. \A j \in 0 .. n - 1 : w[j] = u[k * n + j]
    BY <1>14, <2>1
  <2>7. QED
    BY <2>5, <2>6, <2>8
<1>23. Sum(cols, u) = Sum(nb, R)
  <2>1. cols = nb * n
    BY <1>3, <1>14
  <2>2. QED
    BY ONLY <1>21, <1>22, <2>1, nb \in Nat, n \in Nat, cols \in Nat, SumOfBlocks
<1>24. DotQ6K(row).value = FiniteSum(8, values).value
  BY <1>7
<1>25. QED
  BY <1>1, <1>3, <1>14, <1>17, <1>18, <1>19, <1>23, <1>24

-----------------------------------------------------------------------------
(***************************************************************************)
(* The inductive invariant: once read, the blocks are those of the bytes;  *)
(* once quantised, activations are near what they stand for; and what is   *)
(* written of the product are its first elements, each the plain sum.      *)
(***************************************************************************)
RowCount == Cardinality(DOMAIN matrix.rows)
Element(r) == Sum(Cols, [c \in 0..(Cols - 1) |-> Weight(r, c) * Activation(c)])
WrittenTo(n) ==
  /\ DOMAIN out = 0 .. n - 1
  /\ n <= RowCount
  /\ status \in {"load", "quantize"} => n = 0
  /\ status = "rows" => n < RowCount
  /\ status \in {"rows", "done"} => \A r \in 0 .. n - 1 : out[r] = Element(r)

DotInv ==
  /\ matrix \in Products /\ x \in Inputs /\ target \in FiveTargets
  /\ status \in {"load", "quantize", "rows", "done", "non-finite"}
  /\ status \in {"quantize", "rows", "done"} => IsRead
  /\ status \in {"rows", "done"} => IsQuantised
  /\ \E n \in Nat : WrittenTo(n)

LEMMA DotInvInit == DotInit => DotInv
<1> SUFFICES ASSUME DotInit PROVE DotInv
  OBVIOUS
<1>1. matrix \in Products /\ x \in Inputs /\ target \in FiveTargets /\ status = "load" /\ out = <<>>
  BY DotAssumption DEF DotInit, FiveTargets
<1>2. RowCount \in Nat
  BY <1>1, DotAssumption DEF RowCount, IsProduct
<1>3. DOMAIN out = 0 .. 0 - 1
  BY <1>1
<1>4. WrittenTo(0)
  BY <1>1, <1>2, <1>3 DEF WrittenTo
<1>5. QED
  BY <1>1, <1>4 DEF DotInv

\* What was read stays what was read.
LEMMA BlocksKept ==
  ASSUME matrix' = matrix
  PROVE  \A bytes : Block(bytes)' = Block(bytes)
<1>1. Format' = Format
  BY DEF Format
<1>2. QED
  BY <1>1 DEF Block

LEMMA ReadKept ==
  ASSUME matrix' = matrix, blocks' = blocks, IsRead
  PROVE  IsRead'
<1>1. \A bytes : Block(bytes)' = Block(bytes)
  BY BlocksKept
<1>2. QED
  BY <1>1 DEF IsRead

LEMMA DotInvLoad == DotInv /\ LoadMatrix => DotInv'
<1> SUFFICES ASSUME DotInv, LoadMatrix PROVE DotInv'
  OBVIOUS
<1>1. /\ matrix' = matrix /\ x' = x /\ target' = target /\ acts' = acts /\ out' = out
      /\ status = "load" /\ status' \in {"quantize", "non-finite"}
  BY DEF LoadMatrix
<1>2. status' = "quantize" => IsRead'
  <2> SUFFICES ASSUME status' = "quantize" PROVE IsRead'
    OBVIOUS
  <2>1. blocks' = [r \in DOMAIN matrix.rows |-> [k \in DOMAIN matrix.rows[r] |-> Block(matrix.rows[r][k])]]
    BY DEF LoadMatrix
  <2>2. \A bytes : Block(bytes)' = Block(bytes)
    BY <1>1, BlocksKept
  <2>3. QED
    BY <1>1, <2>1, <2>2 DEF IsRead
<1>3. PICK n \in Nat : WrittenTo(n)
  BY DEF DotInv
<1>4. DOMAIN out' = 0 .. n - 1 /\ n <= RowCount' /\ n = 0
  BY <1>1, <1>3 DEF WrittenTo, RowCount
<1>5. WrittenTo(n)'
  BY <1>1, <1>4 DEF WrittenTo
<1>6. QED
  BY <1>1, <1>2, <1>5 DEF DotInv

LEMMA DotInvQuantize == DotInv /\ Quantize => DotInv'
<1> SUFFICES ASSUME DotInv, Quantize PROVE DotInv'
  OBVIOUS
<1>1. /\ matrix' = matrix /\ x' = x /\ target' = target /\ blocks' = blocks /\ out' = out
      /\ status = "quantize" /\ status' \in {"rows", "non-finite"}
  BY DEF Quantize
<1>2. IsRead /\ IsRead'
  <2>1. IsRead
    BY <1>1 DEF DotInv
  <2>2. QED
    BY <1>1, <2>1, ReadKept
<1>3. IsProduct(matrix) /\ \A c \in 0 .. Cols - 1 : x[c] \in Int
  <2>1. matrix \in Products /\ x \in Inputs
    BY DEF DotInv
  <2>2. QED
    BY <2>1, DotAssumption DEF Cols, RowBlocks, Format
<1>4. PICK nb \in Nat : nb = RowBlocks /\ nb > 0
  BY <1>3, ShapeOfProduct
<1>5. PICK per \in Nat, len \in Nat :
        /\ per = B!Weights(Format) /\ len = ActLen /\ len \in {32, 256} /\ per \in {32, 256}
        /\ (per = 32 => len = 32) /\ (len = 256 <=> Format = "Q6_K")
  <2>1. Format \in {"Q8_0", "Q4_0", "Q4_K", "Q6_K"}
    BY <1>3, ShapeOfProduct
  <2>2. /\ B!Weights(Format) \in {32, 256} /\ ActLen \in {32, 256}
        /\ B!Weights(Format) = 32 => ActLen = 32
        /\ ActLen = 256 <=> Format = "Q6_K"
    BY ONLY <2>1, LengthsOfFormat
  <2>3. QED
    BY ONLY <2>2
<1>6. PICK cols \in Nat : cols = Cols /\ cols = nb * per /\ cols = (cols \div len) * len
  BY <1>4, <1>5 DEF Cols
<1>7. status' = "rows" => IsQuantised'
  <2> SUFFICES ASSUME status' = "rows" PROVE IsQuantised'
    OBVIOUS
  <2>1. acts' = [k \in 0..(Cols \div ActLen - 1) |-> IF Format = "Q6_K" THEN Q8K(Chunk(k)) ELSE Q8A(Chunk(k))]
    BY DEF Quantize
  <2>2. ASSUME NEW k \in 0 .. cols \div len - 1 PROVE IsAct(len, Chunk(k), acts'[k])
    <3>1. PICK v : v = Chunk(k)
      OBVIOUS
    <3>2. ASSUME NEW i \in 0 .. len - 1 PROVE v[i] \in Int
      <4>1. v[i] = x[k * len + i]
        BY <1>5, <3>1 DEF Chunk
      <4>2. k * len + i \in 0 .. cols - 1
        BY <1>5, <1>6
      <4>3. QED
        BY <1>3, <1>6, <4>1, <4>2
    <3>3. acts'[k] = IF Format = "Q6_K" THEN Q8K(v) ELSE Q8A(v)
      BY <1>5, <1>6, <2>1, <3>1
    <3>4. CASE len = 256
      <4>0. 0 .. len - 1 = 0 .. 255
        BY ONLY <3>4, 256 - 1 = 255
      <4>1. \A i \in 0 .. 255 : v[i] \in Int
        BY ONLY <3>2, <4>0
      <4>2. IsAct(256, v, Q8K(v))
        BY <4>1, Q8KIsNear
      <4>3. QED
        BY <1>5, <3>1, <3>3, <3>4, <4>2
    <3>5. CASE len = 32
      <4>0. 0 .. len - 1 = 0 .. 31
        BY ONLY <3>5, 32 - 1 = 31
      <4>1. \A i \in 0 .. 31 : v[i] \in Int
        BY ONLY <3>2, <4>0
      <4>2. IsAct(32, v, Q8A(v))
        BY <4>1, Q8AIsNear
      <4>3. QED
        BY <1>5, <3>1, <3>3, <3>5, <4>2
    <3>6. QED
      BY <1>5, <3>4, <3>5
  <2>3. PICK as : as = acts'
    OBVIOUS
  <2>4. \A k \in 0 .. Cols \div ActLen - 1 : IsAct(ActLen, Chunk(k), as[k])
    BY <1>5, <1>6, <2>2, <2>3
  <2>5. Cols' = Cols /\ ActLen' = ActLen
    BY <1>1 DEF Cols, RowBlocks, ActLen, Format
  <2>6. \A k : Chunk(k)' = Chunk(k)
    BY <1>1 DEF Chunk, ActLen, Format
  <2>7. QED
    BY <1>1, <2>3, <2>4, <2>5 DEF IsQuantised, IsAct, Chunk, Cols, RowBlocks, ActLen, Format
<1>8. PICK n \in Nat : WrittenTo(n)
  BY DEF DotInv
<1>9. DOMAIN out' = 0 .. n - 1 /\ n <= RowCount' /\ n = 0 /\ n < RowCount'
  <2>1. DOMAIN out = 0 .. n - 1 /\ n <= RowCount /\ n = 0
    BY <1>1, <1>8 DEF WrittenTo
  <2>2. RowCount \in Nat \ {0}
    BY <1>3 DEF IsProduct, RowCount
  <2>3. out' = out /\ RowCount' = RowCount
    BY <1>1 DEF RowCount
  <2>4. QED
    BY ONLY <2>1, <2>2, <2>3
<1>10. WrittenTo(n)'
  BY <1>1, <1>9 DEF WrittenTo
<1>11. QED
  BY <1>1, <1>2, <1>7, <1>10 DEF DotInv

\* The element that Row writes.
LEMMA RowIsElement ==
  ASSUME DotInv, Row, NEW n \in Nat, WrittenTo(n), status' # "non-finite"
  PROVE  /\ n < RowCount /\ status' = (IF n + 1 = RowCount THEN "done" ELSE "rows")
         /\ DOMAIN out' = 0 .. n
         /\ \A r \in 0 .. n : out'[r] = Element(r)
<1>1. status = "rows" /\ DOMAIN out = 0 .. n - 1 /\ n < RowCount /\ \A r \in 0 .. n - 1 : out[r] = Element(r)
  BY DEF Row, WrittenTo
<1>2. Cardinality(DOMAIN out) = n
  BY <1>1, FS_Interval
<1>3. PICK dot : dot = CASE Format = "Q4_K" -> DotQ4K(blocks[n])
                         [] Format = "Q6_K" -> DotQ6K(blocks[n])
                         [] OTHER           -> DotBlocks(blocks[n])
  OBVIOUS
<1>4. /\ IF dot.ok THEN out' = [j \in 0..n |-> IF j < n THEN out[j] ELSE dot.value]
                   ELSE UNCHANGED out
      /\ status' = IF ~dot.ok THEN "non-finite"
                   ELSE IF n + 1 = RowCount THEN "done" ELSE "rows"
  BY <1>2, <1>3 DEF Row, RowCount
<1>5. dot.ok
  BY <1>4
<1>6. Ready /\ n \in DOMAIN matrix.rows
  <2>1. matrix \in Products
    BY DEF DotInv
  <2>2. IsProduct(matrix)
    BY <2>1, DotAssumption
  <2>3. Ready
    BY <1>1, <2>2 DEF Ready, DotInv
  <2>4. DOMAIN matrix.rows = 0 .. RowCount - 1 /\ RowCount \in Nat
    BY <2>2 DEF IsProduct, RowCount
  <2>5. QED
    BY ONLY <1>1, <2>3, <2>4, n \in Nat
<1>7. Format \in {"Q8_0", "Q4_0", "Q4_K", "Q6_K"}
  BY <1>6 DEF Ready, IsProduct, Format
<1>8. dot.value = Element(n)
  <2>1. CASE Format \in {"Q8_0", "Q4_0"}
    <3>1. dot = DotBlocks(blocks[n])
      BY <1>3, <2>1
    <3>2. DotBlocks(blocks[n]).ok
      BY <1>5, <3>1
    <3>3. QED
      BY <1>6, <2>1, <3>1, <3>2, DotBlocksIsSum DEF Element
  <2>2. CASE Format = "Q4_K"
    <3>1. dot = DotQ4K(blocks[n])
      BY <1>3, <2>2
    <3>2. DotQ4K(blocks[n]).ok
      BY <1>5, <3>1
    <3>3. QED
      BY <1>6, <2>2, <3>1, <3>2, DotQ4KIsSum DEF Element
  <2>3. CASE Format = "Q6_K"
    <3>1. dot = DotQ6K(blocks[n])
      BY <1>3, <2>3
    <3>2. DotQ6K(blocks[n]).ok
      BY <1>5, <3>1
    <3>3. QED
      BY <1>6, <2>3, <3>1, <3>2, DotQ6KIsSum DEF Element
  <2>4. QED
    BY <1>7, <2>1, <2>2, <2>3
<1>9. out' = [j \in 0..n |-> IF j < n THEN out[j] ELSE dot.value]
  BY <1>4, <1>5
<1>10. ASSUME NEW r \in 0 .. n PROVE out'[r] = Element(r)
  <2>1. CASE r < n
    BY <1>1, <1>9, <2>1
  <2>2. CASE r = n
    BY <1>8, <1>9, <2>2
  <2>3. QED
    BY <2>1, <2>2
<1>11. QED
  BY <1>1, <1>4, <1>5, <1>9, <1>10

LEMMA DotInvRow == DotInv /\ Row => DotInv'
<1> SUFFICES ASSUME DotInv, Row PROVE DotInv'
  OBVIOUS
<1>1. /\ matrix' = matrix /\ x' = x /\ target' = target /\ blocks' = blocks /\ acts' = acts
      /\ status = "rows" /\ status' \in {"rows", "done", "non-finite"}
  BY DEF Row
<1>2. IsRead /\ IsQuantised
  BY <1>1 DEF DotInv
<1>3. IsRead'
  BY <1>1, <1>2, ReadKept
<1>4. IsQuantised'
  BY <1>1, <1>2 DEF IsQuantised, IsAct, Chunk, Cols, RowBlocks, ActLen, Format
<1>5. PICK n \in Nat : WrittenTo(n)
  BY DEF DotInv
<1>6. \E m \in Nat : WrittenTo(m)'
  <2>1. CASE status' = "non-finite"
    <3>1. out' = out
      BY <2>1 DEF Row
    <3>2. WrittenTo(n)'
      BY <1>1, <1>5, <2>1, <3>1 DEF WrittenTo, RowCount
    <3>3. QED
      BY <3>2
  <2>2. CASE status' # "non-finite"
    <3>1. /\ n < RowCount /\ status' = (IF n + 1 = RowCount THEN "done" ELSE "rows")
          /\ DOMAIN out' = 0 .. n /\ \A r \in 0 .. n : out'[r] = Element(r)
      BY <1>5, <2>2, RowIsElement
    <3>2. PICK m \in Nat : m = n + 1 /\ 0 .. m - 1 = 0 .. n
      OBVIOUS
    <3>3. RowCount' = RowCount /\ RowCount \in Nat
      <4>1. matrix \in Products
        BY DEF DotInv
      <4>2. RowCount \in Nat
        BY <4>1, DotAssumption DEF IsProduct, RowCount
      <4>3. QED
        BY <1>1, <4>2 DEF RowCount
    <3>4. \A r : Element(r)' = Element(r)
      BY <1>1 DEF Element, Cols, RowBlocks, Weight, Activation, ActLen, Format, Q4KValue, Q6KValue
    <3>5. PICK o : o = out'
      OBVIOUS
    <3>6. DOMAIN o = 0 .. m - 1 /\ m <= RowCount' /\ (status' = "rows" => m < RowCount')
      BY <1>1, <3>1, <3>2, <3>3, <3>5
    <3>7. \A r \in 0 .. m - 1 : o[r] = Element(r)'
      BY <3>1, <3>2, <3>4, <3>5
    <3>8. WrittenTo(m)'
      BY <1>1, <3>5, <3>6, <3>7 DEF WrittenTo
    <3>9. QED
      BY <3>8
  <2>3. QED
    BY <2>1, <2>2
<1>7. QED
  BY <1>1, <1>3, <1>4, <1>6 DEF DotInv

LEMMA DotInvStutters == DotInv /\ UNCHANGED dotVars => DotInv'
<1> SUFFICES ASSUME DotInv, UNCHANGED dotVars PROVE DotInv'
  OBVIOUS
<1>1. /\ matrix' = matrix /\ x' = x /\ target' = target /\ blocks' = blocks /\ acts' = acts /\ out' = out
      /\ status' = status
  BY DEF dotVars
<1>2. IsRead => IsRead'
  BY <1>1, ReadKept
<1>3. IsQuantised => IsQuantised'
  BY <1>1 DEF IsQuantised, IsAct, Chunk, Cols, RowBlocks, ActLen, Format
<1>4. PICK n \in Nat : WrittenTo(n)
  BY DEF DotInv
<1>5. \A r : Element(r)' = Element(r)
  BY <1>1 DEF Element, Cols, RowBlocks, Weight, Activation, ActLen, Format, Q4KValue, Q6KValue
<1>6. WrittenTo(n)'
  BY <1>1, <1>4, <1>5 DEF WrittenTo, RowCount
<1>7. QED
  BY <1>1, <1>2, <1>3, <1>6 DEF DotInv

LEMMA DotInvIsEnough == DotInv => RowsAreProducts
<1> SUFFICES ASSUME DotInv, status \in {"rows", "done"} PROVE RowsAreProducts
  BY DEF RowsAreProducts
<1>1. PICK n \in Nat : WrittenTo(n)
  BY DEF DotInv
<1>2. \A r \in DOMAIN out : out[r] = Sum(Cols, [c \in 0..(Cols - 1) |-> Weight(r, c) * Activation(c)])
  BY <1>1 DEF WrittenTo, Element
<1>3. IsQuantised /\ IsProduct(matrix)
  BY DotAssumption DEF DotInv
<1>4. PICK nb \in Nat : nb = RowBlocks /\ nb > 0
  BY <1>3, ShapeOfProduct
<1>5. PICK per \in Nat, len \in Nat :
        /\ per = B!Weights(Format) /\ len = ActLen /\ len \in {32, 256} /\ per \in {32, 256}
        /\ (per = 32 => len = 32)
  <2>1. Format \in {"Q8_0", "Q4_0", "Q4_K", "Q6_K"}
    BY <1>3, ShapeOfProduct
  <2>2. /\ B!Weights(Format) \in {32, 256} /\ ActLen \in {32, 256}
        /\ B!Weights(Format) = 32 => ActLen = 32
        /\ ActLen = 256 <=> Format = "Q6_K"
    BY ONLY <2>1, LengthsOfFormat
  <2>3. QED
    BY ONLY <2>2
<1>6. PICK cols \in Nat : cols = Cols /\ cols = nb * per /\ cols = (cols \div len) * len
  BY <1>4, <1>5 DEF Cols
<1>7. ASSUME NEW c \in 0 .. cols - 1
      PROVE  2 * Abs(Activation(c) - 127 * x[c]) <= Abs(acts[c \div len].d)
  <2>1. PICK k \in Nat, i \in Nat : k = c \div len /\ i = c % len /\ c = k * len + i /\ i \in 0 .. len - 1 /\ k \in 0 .. cols \div len - 1
    <3>1. CASE len = 32
      BY <1>6, <3>1
    <3>2. CASE len = 256
      BY <1>6, <3>2
    <3>3. QED
      BY <1>5, <3>1, <3>2
  <2>2. IsAct(len, Chunk(k), acts[k])
    <3>1. Cols = cols /\ ActLen = len
      BY ONLY <1>5, <1>6
    <3>2. \A j \in 0 .. cols \div len - 1 : IsAct(len, Chunk(j), acts[j])
      BY ONLY <1>3, <3>1 DEF IsQuantised
    <3>3. QED
      BY ONLY <2>1, <3>2
  <2>3. 2 * Abs(acts[k].d * acts[k].q[i] - 127 * Chunk(k)[i]) <= Abs(acts[k].d)
    BY <2>1, <2>2 DEF IsAct
  <2>4. Chunk(k)[i] = x[c]
    BY <1>5, <2>1 DEF Chunk
  <2>5. Activation(c) = acts[k].d * acts[k].q[i]
    BY <1>5, <2>1 DEF Activation
  <2>6. QED
    BY <2>1, <2>3, <2>4, <2>5
<1>8. QED
  BY <1>2, <1>5, <1>6, <1>7 DEF RowsAreProducts

(***************************************************************************)
(* On every target each element of a product is the plain sum of weight    *)
(* times quantised activation, and no activation is further than half a    *)
(* step from the element of x it stands for: for matrices of any size in   *)
(* the four formats, and any vector of integers.                           *)
(***************************************************************************)
THEOREM RowsAreProductsTheorem == DotSpec => []RowsAreProducts
<1>1. DotInv /\ [DotNext]_dotVars => DotInv'
  BY DotInvLoad, DotInvQuantize, DotInvRow, DotInvStutters DEF DotNext
<1>2. QED
  BY <1>1, DotInvInit, DotInvIsEnough, PTL DEF DotSpec
=============================================================================
