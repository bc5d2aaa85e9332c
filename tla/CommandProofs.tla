--------------------------- MODULE CommandProofs ----------------------------
(***************************************************************************)
(* The safety of the commands: of an encode that is interrupted and       *)
(* resumed, for every set of processes and jobs, every input, window size  *)
(* and checkpoint interval, and any number of faults; of the scans         *)
(* that decide whether a file of the repository follows its policies, for  *)
(* files of any number of lines; and of the options they are given.        *)
(***************************************************************************)
EXTENDS CheckpointedEncode, PolicyScan, Options, SequenceTheorems, NumberLemmas

Size(job) == Len(Symbols[job.input])
Context(job, n) == TokensBefore(Symbols[job.input], n)
Values(job) == {Symbols[job.input][i] : i \in DOMAIN Symbols[job.input]}

LEMMA InputOf ==
  ASSUME NEW job \in Jobs
  PROVE  /\ job.n_ctx \in Nat /\ job.n_ctx > 0
         /\ Symbols[job.input] \in Seq(Values(job))
         /\ Size(job) \in Nat
         /\ \A i \in 1 .. Size(job) : Symbols[job.input][i] \in Values(job)
  <1>1. job.n_ctx \in Nat \ {0}
    BY CheckpointAssumption
  <1>2. Symbols[job.input] \in Seq(Values(job))
    BY CheckpointAssumption, Zenon DEF Values
  <1>3. Size(job) \in Nat /\ \A i \in 1 .. Size(job) : Symbols[job.input][i] \in Values(job)
    BY <1>2 DEF Size
  <1>4. QED
    BY <1>1, <1>2, <1>3

-----------------------------------------------------------------------------
(***************************************************************************)
(* The window.  A resumed encode recomputes its start by the same steps    *)
(* and stops one step short, as the loop's sync makes the last one.        *)
(***************************************************************************)
LEMMA WindowForms ==
  ASSUME NEW c \in Nat, c > 0
  PROVE  /\ Window(c)!Stride \in 1 .. c
         /\ \A n : Window(c)!StartAt(n) = StartOf(c, Window(c)!Stride, n)
         /\ \A n, s : Window(c)!NextWindowStart(n, s) = Slid(c, Window(c)!Stride, n, s)
  <1>1. c \div 4 \in Nat /\ c \div 4 < c
    OBVIOUS
  <1>2. Window(c)!Stride \in 1 .. c /\ c - Window(c)!Stride = c \div 4
    BY <1>1 DEF Window!Stride
  <1>3. QED
    BY <1>2 DEF Window!StartAt, StartOf, Window!NextWindowStart, Slid

LEMMA StartInside ==
  ASSUME NEW c \in Nat, c > 0, NEW n \in Nat
  PROVE  Window(c)!StartAt(n) \in 0 .. n /\ n - Window(c)!StartAt(n) < c
  BY WindowForms, WindowHasRoom

LEMMA SlideStable ==
  ASSUME NEW c \in Nat, c > 0, NEW n \in Nat
  PROVE  Window(c)!NextWindowStart(n, Window(c)!StartAt(n)) = Window(c)!StartAt(n)
  BY WindowForms, WindowIsStable

LEMMA SlideNext ==
  ASSUME NEW c \in Nat, c > 0, NEW n \in Nat
  PROVE  Window(c)!NextWindowStart(n + 1, Window(c)!StartAt(n)) = Window(c)!StartAt(n + 1)
  BY WindowForms, WindowSlides

LEMMA StartOfPrefix ==
  ASSUME NEW c \in Nat, c > 0, NEW n \in Nat
  PROVE  PrefixStart(n, c) = IF n = 0 THEN 0 ELSE Window(c)!StartAt(n - 1)
  <1> DEFINE E(f) == [i \in 0 .. n |->
               IF i = 0 THEN 0 ELSE Window(c)!NextWindowStart(i - 1, f[i - 1])]
             g == [i \in 0 .. n |-> IF i = 0 THEN 0 ELSE Window(c)!StartAt(i - 1)]
             f == CHOOSE f : f = E(f)
  <1>1. PrefixStart(n, c) = f[n]
    BY DEF PrefixStart
  <1>2. ASSUME NEW i \in 1 .. n
        PROVE  Window(c)!NextWindowStart(i - 1, g[i - 1]) = Window(c)!StartAt(i - 1)
    <2>1. CASE i = 1
      <3>1. g[i - 1] = 0 /\ Window(c)!StartAt(0) = 0
        BY <2>1, StartInside
      <3>2. QED
        BY <2>1, <3>1, SlideStable
    <2>2. CASE i > 1
      <3>1. i - 2 \in Nat /\ g[i - 1] = Window(c)!StartAt(i - 2) /\ (i - 2) + 1 = i - 1
        BY <2>2
      <3> HIDE DEF g
      <3>2. QED
        BY <3>1, SlideNext
    <2>3. QED
      BY <2>1, <2>2
  <1>3. g = E(g)
    <2>1. ASSUME NEW i \in 0 .. n PROVE g[i] = E(g)[i]
      <3>1. CASE i = 0
        BY <3>1
      <3>2. CASE i \in 1 .. n
        BY <1>2, <3>2
      <3>3. QED
        BY <3>1, <3>2
    <2>2. QED
      BY <2>1
  <1> HIDE DEF E
  <1>4. f = E(f)
    BY <1>3
  <1> HIDE DEF f
  <1>5. f[0] = 0 /\ \A i \in 1 .. n : f[i] = Window(c)!NextWindowStart(i - 1, f[i - 1])
    BY <1>4 DEF E
  <1>6. g[0] = 0 /\ \A i \in 1 .. n : g[i] = Window(c)!NextWindowStart(i - 1, g[i - 1])
    <2>1. ASSUME NEW i \in 1 .. n PROVE g[i] = Window(c)!StartAt(i - 1)
      OBVIOUS
    <2>2. g[0] = 0
      OBVIOUS
    <2> HIDE DEF g
    <2>3. QED
      BY <1>2, <2>1, <2>2
  <1>7. g[n] = IF n = 0 THEN 0 ELSE Window(c)!StartAt(n - 1)
    OBVIOUS
  <1> HIDE DEF g
  <1>8. \A i \in 0 .. n : f[i] = g[i]
    <2>1. StepAlike(f, g, n)
      BY <1>5, <1>6 DEF StepAlike
    <2>2. QED
      BY <2>1, Determined
  <1>9. QED
    BY <1>1, <1>7, <1>8

(***************************************************************************)
(* The context grows by a symbol's token, and not by an escape.            *)
(***************************************************************************)
LEMMA ContextGrows ==
  ASSUME NEW job \in Jobs
  PROVE  /\ Context(job, 0) = <<>>
         /\ \A n \in 0 .. Size(job) : Context(job, n) \in Seq(Values(job))
         /\ \A n \in 0 .. Size(job) - 1 :
              LET symbol == Symbols[job.input][n + 1]
              IN  Context(job, n + 1) = IF IsToken(symbol) THEN Append(Context(job, n), symbol)
                                        ELSE Context(job, n)
  <1> DEFINE s == Symbols[job.input]
             V == Seq(Values(job))
             Added(i, t) == IF IsToken(s[i]) THEN Append(t, s[i]) ELSE t
  <1>1. PICK N \in Nat : N = Size(job)
    BY InputOf
  <1>2. \A i \in 1 .. N : s[i] \in Values(job)
    BY <1>1, InputOf
  <1>3. PICK F \in [0 .. N -> V] :
          F[0] = <<>> /\ \A i \in 1 .. N : F[i] = Added(i, F[i - 1])
    <2>1. PICK step \in [1 .. N -> [V -> V]] :
            step = [i \in 1 .. N |-> [t \in V |-> Added(i, t)]]
      <3>1. \A i \in 1 .. N, t \in V : Added(i, t) \in V
        BY <1>2
      <3> HIDE DEF Added, V
      <3>2. QED
        BY <3>1
    <2>2. PICK empty \in V : empty = <<>>
      <3>1. <<>> \in V
        OBVIOUS
      <3> HIDE DEF V
      <3>2. QED
        BY <3>1
    <2> HIDE DEF V
    <2>3. StepsIn(V, empty, N, step)
      BY DEF StepsIn
    <2>4. PICK F : IsRun(F, V, empty, N, step)
      BY <2>3, Recursion
    <2>5. ASSUME NEW i \in 1 .. N PROVE F[i] = Added(i, F[i - 1])
      <3>1. F[i - 1] \in V
        BY <2>4 DEF IsRun
      <3>2. step[i][F[i - 1]] = Added(i, F[i - 1])
        BY <2>1, <3>1
      <3>3. QED
        BY <2>4, <3>2 DEF IsRun
    <2>6. QED
      BY <2>2, <2>4, <2>5 DEF IsRun
  <1> HIDE DEF V
  <1>4. \A i \in 1 .. N : F[i - 1] \in V
    OBVIOUS
  <1>5. ASSUME NEW n \in Nat, n <= N PROVE Context(job, n) = F[n]
    <2> DEFINE E(f) == [i \in 0 .. n |-> IF i = 0 THEN <<>> ELSE
                          IF IsToken(s[i]) THEN Append(f[i - 1], s[i]) ELSE f[i - 1]]
               g == [i \in 0 .. n |-> F[i]]
               f == CHOOSE f : f = E(f)
    <2>1. Context(job, n) = f[n]
      BY DEF Context, TokensBefore
    <2>2. g = E(g)
      BY <1>3, <1>4, <1>5
    <2> HIDE DEF E
    <2>3. f = E(f)
      BY <2>2
    <2> HIDE DEF f
    <2>4. f[0] = <<>> /\ \A i \in 1 .. n : f[i] = Added(i, f[i - 1])
      <3>1. f[0] = E(f)[0] /\ E(f)[0] = <<>>
        BY <2>3 DEF E
      <3>2. ASSUME NEW i \in 1 .. n PROVE f[i] = Added(i, f[i - 1])
        <4>1. i \in 0 .. n /\ i # 0
          OBVIOUS
        <4>2. E(f)[i] = Added(i, f[i - 1])
          BY <4>1 DEF E
        <4>3. QED
          BY <2>3, <4>2
      <3>3. QED
        BY <3>1, <3>2
    <2>5. PICK h : h = F
      OBVIOUS
    <2>6. h[0] = <<>> /\ \A i \in 1 .. n : h[i] = Added(i, h[i - 1])
      BY <1>3, <1>5, <2>5
    <2> HIDE DEF Added, g
    <2>7. StepAlike(f, h, n)
      BY <2>4, <2>6 DEF StepAlike
    <2>8. \A i \in 0 .. n : f[i] = h[i]
      BY <2>7, Determined
    <2>9. QED
      BY <2>1, <2>5, <2>8
  <1>6. ASSUME NEW n \in 0 .. N - 1
        PROVE  Context(job, n + 1) = Added(n + 1, Context(job, n))
    <2>1. n + 1 \in 1 .. N /\ (n + 1) - 1 = n
      OBVIOUS
    <2>2. Context(job, n) = F[n] /\ Context(job, n + 1) = F[n + 1]
      BY <1>5, <2>1
    <2> HIDE DEF Added
    <2>3. F[n + 1] = Added(n + 1, F[n])
      BY <1>3, <2>1
    <2>4. QED
      BY <2>2, <2>3
  <1>7. \A n \in 0 .. N : Context(job, n) \in V
    BY <1>5
  <1>8. Context(job, 0) = <<>>
    BY <1>3, <1>5
  <1>9. QED
    BY <1>1, <1>6, <1>7, <1>8 DEF V

\* The uninterrupted encoding, symbol by symbol.
EncodingValues(job) == {Encoding(job)[i] : i \in DOMAIN Encoding(job)}

LEMMA EncodingOf ==
  ASSUME NEW job \in Jobs
  PROVE  /\ Encoding(job) \in Seq(EncodingValues(job))
         /\ Len(Encoding(job)) = Size(job)
         /\ \A n \in 0 .. Size(job) - 1 :
              Encoding(job)[n + 1] =
                Coded(job, Symbols[job.input][n + 1],
                      Window(job.n_ctx)!WindowOf(Context(job, n)))
  <1> DEFINE code(i) == Coded(job, Symbols[job.input][i],
                              Window(job.n_ctx)!WindowOf(Context(job, i - 1)))
  <1>1. PICK N \in Nat : N = Size(job)
    BY InputOf
  <1>2. Encoding(job) = [i \in 1 .. N |-> code(i)]
    BY <1>1 DEF Encoding, Size, Context
  <1> HIDE DEF code
  <1>3. Encoding(job) \in Seq(EncodingValues(job)) /\ Len(Encoding(job)) = N
    BY <1>2 DEF EncodingValues
  <1>4. \A n \in 0 .. N - 1 : Encoding(job)[n + 1] = code(n + 1) /\ (n + 1) - 1 = n
    BY <1>2
  <1>5. QED
    BY <1>1, <1>3, <1>4 DEF code

-----------------------------------------------------------------------------
(***************************************************************************)
(* Prefixes and suffixes that grow by an element.                          *)
(***************************************************************************)
LEMMA PrefixGrows ==
  ASSUME NEW S, NEW s \in Seq(S), NEW n \in 0 .. Len(s) - 1
  PROVE  Append(SubSeq(s, 1, n), s[n + 1]) = SubSeq(s, 1, n + 1)
  <1>1. SubSeq(s, 1, n) \in Seq(S) /\ Len(SubSeq(s, 1, n)) = n
        /\ \A i \in 1 .. n : SubSeq(s, 1, n)[i] = s[i]
    BY SubSeqProperties
  <1>2. SubSeq(s, 1, n + 1) \in Seq(S) /\ Len(SubSeq(s, 1, n + 1)) = n + 1
        /\ \A i \in 1 .. n + 1 : SubSeq(s, 1, n + 1)[i] = s[i]
    BY SubSeqProperties
  <1> DEFINE t == SubSeq(s, 1, n)
             u == SubSeq(s, 1, n + 1)
  <1>3. s[n + 1] \in S
    OBVIOUS
  <1> HIDE DEF t, u
  <1>4. t \in Seq(S) /\ Len(t) = n /\ \A i \in 1 .. n : t[i] = s[i]
    BY <1>1 DEF t
  <1>5. u \in Seq(S) /\ Len(u) = n + 1 /\ \A i \in 1 .. n + 1 : u[i] = s[i]
    BY <1>2 DEF u
  <1>6. Append(t, s[n + 1]) = u
    BY <1>3, <1>4, <1>5
  <1>7. QED
    BY <1>6 DEF t, u

LEMMA SuffixGrows ==
  ASSUME NEW S, NEW s \in Seq(S), NEW e \in S, NEW n \in 0 .. Len(s)
  PROVE  SubSeq(Append(s, e), n + 1, Len(Append(s, e))) =
           Append(SubSeq(s, n + 1, Len(s)), e)
  <1> DEFINE a == Append(s, e)
             t == SubSeq(s, n + 1, Len(s))
             u == SubSeq(a, n + 1, Len(a))
  <1>1. a \in Seq(S) /\ Len(a) = Len(s) + 1 /\ a[Len(s) + 1] = e
        /\ \A i \in 1 .. Len(s) : a[i] = s[i]
    OBVIOUS
  <1> HIDE DEF a
  <1>2. t \in Seq(S) /\ Len(t) = Len(s) - n /\ \A i \in 1 .. Len(s) - n : t[i] = s[n + i]
    BY SubSeqProperties
  <1>3. u \in Seq(S) /\ Len(u) = Len(s) + 1 - n /\ \A i \in 1 .. Len(s) + 1 - n : u[i] = a[n + i]
    BY <1>1, SubSeqProperties
  <1> HIDE DEF t, u
  <1>4. PICK k \in Nat : k = Len(s) - n
    OBVIOUS
  <1>5. Len(t) = k /\ Len(u) = k + 1 /\ u[k + 1] = e /\ \A i \in 1 .. k : t[i] = u[i]
    <2>1. PICK l \in Nat : l = Len(s)
      OBVIOUS
    <2>2. Len(t) = k /\ Len(u) = k + 1 /\ l = n + k
      BY <1>2, <1>3, <1>4, <2>1
    <2>3. u[k + 1] = e
      <3>1. k + 1 \in 1 .. l + 1 - n /\ n + (k + 1) = l + 1
        BY <2>1, <2>2
      <3>2. QED
        BY <1>1, <1>3, <2>1, <3>1
    <2>4. ASSUME NEW i \in 1 .. k PROVE t[i] = u[i]
      <3>1. i \in 1 .. l - n /\ i \in 1 .. l + 1 - n /\ n + i \in 1 .. l
        BY <2>1, <2>2
      <3>2. QED
        BY <1>1, <1>2, <1>3, <2>1, <3>1
    <2>5. QED
      BY <2>2, <2>3, <2>4
  <1>6. Append(t, e) = u
    BY <1>2, <1>3, <1>5
  <1>7. QED
    BY <1>6 DEF a, t, u

-----------------------------------------------------------------------------
(***************************************************************************)
(* The inductive invariant.  Whatever interrupted it and wherever it       *)
(* resumed, a running process holds what an uninterrupted encode of its    *)
(* job holds after as many symbols, except that its window may lag one     *)
(* token behind, as the uninterrupted one's does before a sync.  Its       *)
(* temporary file is its own from OpenTmp to the rename, so that what it   *)
(* renames is what it has just written.                                    *)
(***************************************************************************)
LagsAtMostOne(job, n, start) ==
  \/ start = Window(job.n_ctx)!StartAt(n)
  \/ n > 0 /\ start = Window(job.n_ctx)!StartAt(n - 1)

AsUninterrupted(m) ==
  /\ m.job \in Jobs
  /\ m.done \in 0 .. Size(m.job)
  /\ m.enc = SubSeq(Encoding(m.job), 1, m.done)
  /\ m.context = Context(m.job, m.done)
  /\ LagsAtMostOne(m.job, Len(m.context), m.window_start)
  /\ m.cached = SubSeq(m.context, m.window_start + 1, Len(m.context))

Placed(m) ==
  /\ m.pc \in {"encode", "open", "write", "rename", "verify", "remove"}
  /\ m.writing \in {"checkpoint", "dtlz"}
  /\ m.pc = "encode" => m.writing = "checkpoint"
  /\ m.writing = "checkpoint" /\ m.pc # "encode" => m.done > 0
  /\ m.writing = "dtlz" => m.done = Size(m.job)

Memory(m) ==
  /\ m = [pc |-> m.pc, job |-> m.job, done |-> m.done, enc |-> m.enc,
          context |-> m.context, window_start |-> m.window_start,
          cached |-> m.cached, writing |-> m.writing]
  /\ AsUninterrupted(m)
  /\ Placed(m)

CheckpointFile(f) ==
  \E job \in Jobs : \E n \in 1 .. Size(job) :
    f = [file |-> "checkpoint", job |-> job, done |-> n, enc |-> SubSeq(Encoding(job), 1, n)]

DtlzFile(f) ==
  \E job \in Jobs : f = [file |-> "dtlz", job |-> job, payload |-> Encoding(job)]

ProcInv(p) ==
  proc[p] # Off =>
    /\ Memory(proc[p])
    /\ proc[p].pc = "rename" => tmp[p] = Body(proc[p])
    /\ proc[p].pc \in {"verify", "remove"} => dtlz # None

Inv ==
  /\ proc = [p \in Procs |-> proc[p]]
  /\ tmp = [p \in Procs |-> tmp[p]]
  /\ \A p \in Procs : ProcInv(p)
  /\ checkpoint = None \/ CheckpointFile(checkpoint)
  /\ dtlz = None \/ DtlzFile(dtlz)

-----------------------------------------------------------------------------
(***************************************************************************)
(* What a process loads is what an uninterrupted encode has at that point. *)
(***************************************************************************)
LEMMA ResumedIsUninterrupted ==
  ASSUME NEW job \in Jobs, NEW n \in 0 .. Size(job)
  PROVE  Memory(Resumed(job, n, SubSeq(Encoding(job), 1, n)))
  <1> DEFINE context == Context(job, n)
             k == Len(context)
             start == PrefixStart(k, job.n_ctx)
             m == Resumed(job, n, SubSeq(Encoding(job), 1, n))
  <1>1. k \in Nat
    BY ContextGrows, InputOf
  <1> HIDE DEF context
  <1>2. m = [pc |-> "encode", job |-> job, done |-> n,
             enc |-> SubSeq(Encoding(job), 1, n), context |-> context,
             window_start |-> start, cached |-> SubSeq(context, start + 1, k),
             writing |-> "checkpoint"]
    BY DEF Resumed, context, Context
  <1>3. LagsAtMostOne(job, k, start)
    <2> HIDE DEF k
    <2>1. start = IF k = 0 THEN 0 ELSE Window(job.n_ctx)!StartAt(k - 1)
      BY <1>1, InputOf, StartOfPrefix
    <2>2. Window(job.n_ctx)!StartAt(0) = 0
      BY InputOf, StartInside
    <2>3. QED
      BY <1>1, <2>1, <2>2 DEF LagsAtMostOne
  <1> HIDE DEF m, k, start
  <1>4. AsUninterrupted(m)
    BY <1>2, <1>3 DEF AsUninterrupted, context, k
  <1>5. Placed(m)
    BY <1>2 DEF Placed
  <1>6. QED
    BY <1>2, <1>4, <1>5 DEF Memory, m

LEMMA LoadedIsUninterrupted ==
  ASSUME Inv, NEW job \in Jobs, CanStart(job)
  PROVE  Memory(Loaded(job))
  <1>1. CASE checkpoint = None
    <2>1. SubSeq(Encoding(job), 1, 0) = <<>> /\ 0 \in 0 .. Size(job)
      BY EncodingOf, InputOf, SubSeqEmpty
    <2>2. QED
      BY <1>1, <2>1, ResumedIsUninterrupted DEF Loaded
  <1>2. CASE checkpoint # None
    <2>1. PICK j \in Jobs : \E n \in 1 .. Size(j) :
            checkpoint = [file |-> "checkpoint", job |-> j, done |-> n,
                          enc |-> SubSeq(Encoding(j), 1, n)]
      BY <1>2 DEF Inv, CheckpointFile
    <2>2. checkpoint.job = job /\ checkpoint.job = j
      BY <1>2, <2>1 DEF CanStart, Matches
    <2>3. PICK n \in 1 .. Size(job) :
            checkpoint.done = n /\ checkpoint.enc = SubSeq(Encoding(job), 1, n)
      BY <2>1, <2>2
    <2>4. n \in 0 .. Size(job)
      BY <2>3
    <2>5. QED
      BY <1>2, <2>3, <2>4, ResumedIsUninterrupted DEF Loaded
  <1>3. QED
    BY <1>1, <1>2

(***************************************************************************)
(* Coding one symbol is a step of the uninterrupted encode.                *)
(***************************************************************************)
LEMMA ContextOf ==
  ASSUME NEW m, Memory(m)
  PROVE  /\ m.job \in Jobs
         /\ m.context \in Seq(Values(m.job))
         /\ Len(m.context) \in Nat
         /\ m.window_start \in 0 .. Len(m.context)
         /\ m.job.n_ctx \in Nat /\ m.job.n_ctx > 0
  <1>1. /\ m.job \in Jobs /\ m.done \in 0 .. Size(m.job)
        /\ m.context = Context(m.job, m.done)
        /\ LagsAtMostOne(m.job, Len(m.context), m.window_start)
    BY DEF Memory, AsUninterrupted
  <1>2. m.context \in Seq(Values(m.job)) /\ m.job.n_ctx \in Nat /\ m.job.n_ctx > 0
    BY <1>1, ContextGrows, InputOf
  <1>3. PICK n \in Nat : n = Len(m.context)
    BY <1>2
  <1>4. CASE m.window_start = Window(m.job.n_ctx)!StartAt(n)
    BY <1>1, <1>2, <1>3, <1>4, StartInside
  <1>5. CASE n > 0 /\ m.window_start = Window(m.job.n_ctx)!StartAt(n - 1)
    <2>1. n - 1 \in Nat /\ m.window_start \in 0 .. n - 1
      BY <1>2, <1>5, n - 1 \in Nat, StartInside
    <2>2. QED
      BY <1>1, <1>2, <1>3, <2>1
  <1>6. QED
    BY <1>1, <1>3, <1>4, <1>5 DEF LagsAtMostOne

LEMMA SyncedWindow ==
  ASSUME NEW m, Memory(m)
  PROVE  LET start == Window(m.job.n_ctx)!StartAt(Len(m.context))
             cached == Window(m.job.n_ctx)!WindowOf(m.context)
         IN  Synced(m) = [pc |-> m.pc, job |-> m.job, done |-> m.done, enc |-> m.enc,
                          context |-> m.context, window_start |-> start,
                          cached |-> cached, writing |-> m.writing]
  <1> DEFINE start == Window(m.job.n_ctx)!StartAt(Len(m.context))
             cached == Window(m.job.n_ctx)!WindowOf(m.context)
             next == Window(m.job.n_ctx)!NextWindowStart(Len(m.context), m.window_start)
  <1>1. cached = SubSeq(m.context, start + 1, Len(m.context))
    BY DEF Window!WindowOf
  <1>2. next = start
    <2>1. PICK n \in Nat : n = Len(m.context)
      BY ContextOf
    <2>2. CASE m.window_start = Window(m.job.n_ctx)!StartAt(n)
      BY <2>1, <2>2, ContextOf, SlideStable
    <2>3. CASE n > 0 /\ m.window_start = Window(m.job.n_ctx)!StartAt(n - 1)
      <3>1. n - 1 \in Nat /\ (n - 1) + 1 = n
        BY <2>3
      <3>2. QED
        BY <2>1, <2>3, <3>1, ContextOf, SlideNext
    <2>4. QED
      BY <2>1, <2>2, <2>3 DEF Memory, AsUninterrupted, LagsAtMostOne
  <1> HIDE DEF start, cached, next
  <1>3. Synced(m) = IF next = m.window_start THEN m
                    ELSE [m EXCEPT !.window_start = next,
                                   !.cached = SubSeq(m.context, next + 1, Len(m.context))]
    BY DEF Synced, next
  <1>4. m.cached = SubSeq(m.context, m.window_start + 1, Len(m.context))
    BY DEF Memory, AsUninterrupted
  <1>5. m = [pc |-> m.pc, job |-> m.job, done |-> m.done, enc |-> m.enc,
             context |-> m.context, window_start |-> m.window_start,
             cached |-> m.cached, writing |-> m.writing]
    BY DEF Memory
  <1>6. Synced(m) = [pc |-> m.pc, job |-> m.job, done |-> m.done, enc |-> m.enc,
                     context |-> m.context, window_start |-> start,
                     cached |-> cached, writing |-> m.writing]
    BY <1>1, <1>2, <1>3, <1>4, <1>5
  <1>7. QED
    BY <1>6 DEF start, cached

OneMore(m, r) ==
  r # Off => /\ Memory(r)
             /\ r.pc \in {"encode", "open"}
             /\ r.writing = "checkpoint"
             /\ r.job = m.job
             /\ r.done = m.done + 1

LEMMA EncodedIsUninterrupted ==
  ASSUME Inv, NEW p \in Procs, EncodeSymbol(p)
  PROVE  \E r : proc' = [proc EXCEPT ![p] = r] /\ OneMore(proc[p], r)
  <1> DEFINE m == proc[p]
             job == m.job
             n == m.done
             symbol == Symbols[job.input][n + 1]
             c == Coded(job, symbol, Window(job.n_ctx)!WindowOf(m.context))
             pc == IF n + 1 = Size(job) \/ (n + 1) % Every = 0 THEN "open" ELSE "encode"
             start == Window(job.n_ctx)!StartAt(Len(m.context))
             cached == Window(job.n_ctx)!WindowOf(m.context)
             d == n + 1
             e == Append(m.enc, c)
             Rec(cx, ca) == [pc |-> pc, job |-> job, done |-> d, enc |-> e,
                             context |-> cx, window_start |-> start, cached |-> ca,
                             writing |-> m.writing]
  <1>1. Memory(m) /\ m.pc = "encode" /\ n < Size(job)
    BY DEF EncodeSymbol, Inv, ProcInv, Size, Off
  <1>2. /\ job \in Jobs /\ n \in 0 .. Size(job) - 1 /\ Size(job) \in Nat
        /\ m.writing = "checkpoint"
    BY <1>1, InputOf DEF Memory, AsUninterrupted, Placed
  <1>3. Synced(m) = [pc |-> m.pc, job |-> job, done |-> n, enc |-> m.enc,
                     context |-> m.context, window_start |-> start,
                     cached |-> cached, writing |-> m.writing]
    BY <1>1, SyncedWindow
  <1> HIDE DEF start, cached
  <1>4. \/ ~IsToken(symbol) /\ proc' = [proc EXCEPT ![p] = Rec(m.context, cached)]
        \/ IsToken(symbol) /\ proc' = [proc EXCEPT ![p] = Off]
        \/ /\ IsToken(symbol)
           /\ proc' = [proc EXCEPT ![p] = Rec(Append(m.context, symbol), Append(cached, symbol))]
    <2> DEFINE s == Synced(m)
               coded == [s EXCEPT !.enc = Append(s.enc, Coded(s.job, symbol, s.cached)),
                                  !.done = s.done + 1, !.pc = pc]
    <2>1. s.job = job /\ s.done = n /\ s.cached = cached /\ s.enc = m.enc /\ s.context = m.context
      BY <1>3
    <2>2. c = Coded(job, symbol, cached)
      BY DEF cached
    <2> HIDE DEF c, symbol, pc, job, n, m, e, d
    <2>3. coded = Rec(m.context, cached)
      <3>1. coded = [s EXCEPT !.enc = e, !.done = d, !.pc = pc]
        BY <2>1, <2>2 DEF e, d
      <3> HIDE DEF s, coded
      <3>2. s = [pc |-> m.pc, job |-> job, done |-> n, enc |-> m.enc,
                 context |-> m.context, window_start |-> start,
                 cached |-> cached, writing |-> m.writing]
        BY <1>3 DEF s
      <3>3. QED
        BY <3>1, <3>2
    <2>4. [coded EXCEPT !.context = Append(s.context, symbol), !.cached = Append(s.cached, symbol)]
            = Rec(Append(m.context, symbol), Append(cached, symbol))
      <3> HIDE DEF s, coded
      <3>1. s.context = m.context /\ s.cached = cached
        BY <2>1
      <3>2. ASSUME NEW x, NEW y
            PROVE  [coded EXCEPT !.context = x, !.cached = y] = Rec(x, y)
        <4>1. PICK r : r = Rec(x, cached)
          OBVIOUS
        <4>2. r = [coded EXCEPT !.context = x]
          BY <2>3, <4>1
        <4>3. [r EXCEPT !.cached = y] = Rec(x, y)
          BY ONLY <4>1
        <4> HIDE DEF Rec
        <4>4. QED
          BY ONLY <4>2, <4>3
      <3> HIDE DEF Rec
      <3>3. QED
        BY <3>1, <3>2
    <2> USE DEF symbol, pc, job, n, m, e, d
    <2>5. proc' = [proc EXCEPT ![p] =
            IF ~IsToken(symbol) THEN coded
            ELSE IF Len(s.cached) >= s.job.n_ctx THEN Off
            ELSE [coded EXCEPT !.context = Append(s.context, symbol), !.cached = Append(s.cached, symbol)]]
      BY <2>1 DEF EncodeSymbol, Size
    <2> HIDE DEF s, coded, Rec, symbol, pc, job, n, m, e, d
    <2>6. QED
      BY <2>3, <2>4, <2>5
  <1>5. Append(m.enc, c) = SubSeq(Encoding(job), 1, n + 1)
    <2>1. m.enc = SubSeq(Encoding(job), 1, n) /\ m.context = Context(job, n)
      BY <1>1 DEF Memory, AsUninterrupted
    <2>2. Encoding(job)[n + 1] = c
      BY <1>2, <2>1, EncodingOf
    <2>3. /\ Encoding(job) \in Seq(EncodingValues(job))
          /\ n \in 0 .. Len(Encoding(job)) - 1
      BY <1>2, EncodingOf
    <2> HIDE DEF c
    <2>4. QED
      BY <2>1, <2>2, <2>3, PrefixGrows
  <1>6. cached = SubSeq(m.context, start + 1, Len(m.context))
    BY DEF Window!WindowOf, cached, start
  <1>7. /\ m.context = Context(job, n) /\ m.context \in Seq(Values(job))
        /\ Len(m.context) \in Nat
        /\ start \in 0 .. Len(m.context)
        /\ symbol \in Values(job)
    <2>1. m.context = Context(job, n) /\ m.context \in Seq(Values(job)) /\ Len(m.context) \in Nat
      BY <1>1, ContextOf DEF Memory, AsUninterrupted
    <2>2. symbol \in Values(job)
      BY <1>2, InputOf
    <2>3. start \in 0 .. Len(m.context)
      BY <1>2, <2>1, InputOf, StartInside DEF start
    <2>4. QED
      BY <2>1, <2>2, <2>3
  <1> HIDE DEF symbol, c, m, pc
  <1>8. ASSUME ~IsToken(symbol)
        PROVE  Memory(Rec(m.context, cached))
    <2>1. m.context = Context(job, n + 1)
      BY <1>2, <1>7, <1>8, ContextGrows DEF symbol
    <2>2. LagsAtMostOne(job, Len(m.context), start)
      BY DEF LagsAtMostOne, start
    <2>3. AsUninterrupted(Rec(m.context, cached))
      <3>1. PICK q : q = Rec(m.context, cached)
        OBVIOUS
      <3>2. /\ q.job = job /\ q.done = n + 1 /\ q.enc = Append(m.enc, c)
            /\ q.context = m.context /\ q.window_start = start /\ q.cached = cached
        BY <3>1
      <3> HIDE DEF Rec
      <3>3. AsUninterrupted(q)
        <4>1. q.job \in Jobs /\ q.done \in 0 .. Size(q.job)
          BY <1>2, <3>2
        <4>2. /\ q.enc = SubSeq(Encoding(q.job), 1, q.done)
              /\ q.context = Context(q.job, q.done)
          BY <1>5, <2>1, <3>2
        <4>3. /\ LagsAtMostOne(q.job, Len(q.context), q.window_start)
              /\ q.cached = SubSeq(q.context, q.window_start + 1, Len(q.context))
          BY <1>6, <2>2, <3>2
        <4>4. QED
          BY <4>1, <4>2, <4>3 DEF AsUninterrupted
      <3>4. QED
        BY <3>1, <3>3
    <2>4. Placed(Rec(m.context, cached))
      BY <1>2 DEF Placed, pc
    <2>5. QED
      BY <2>3, <2>4 DEF Memory
  <1>9. ASSUME IsToken(symbol)
        PROVE  Memory(Rec(Append(m.context, symbol), Append(cached, symbol)))
    <2> DEFINE cx == Append(m.context, symbol)
               ca == Append(cached, symbol)
    <2>1. cx = Context(job, n + 1)
      BY <1>2, <1>7, <1>9, ContextGrows DEF symbol
    <2>2. Len(cx) = Len(m.context) + 1 /\ Len(cx) > 0 /\ Len(cx) - 1 = Len(m.context)
      BY <1>7
    <2>3. LagsAtMostOne(job, Len(cx), start)
      BY <2>2 DEF LagsAtMostOne, start
    <2>4. ca = SubSeq(cx, start + 1, Len(cx))
      BY <1>6, <1>7, SuffixGrows
    <2> HIDE DEF cx, ca
    <2>5. AsUninterrupted(Rec(cx, ca))
      <3>1. PICK q : q = Rec(cx, ca)
        OBVIOUS
      <3>2. /\ q.job = job /\ q.done = n + 1 /\ q.enc = Append(m.enc, c)
            /\ q.context = cx /\ q.window_start = start /\ q.cached = ca
        BY <3>1
      <3> HIDE DEF Rec
      <3>3. AsUninterrupted(q)
        BY <1>2, <1>5, <2>1, <2>3, <2>4, <3>2 DEF AsUninterrupted
      <3>4. QED
        BY <3>1, <3>3
    <2>6. Placed(Rec(cx, ca))
      BY <1>2 DEF Placed, pc
    <2>7. Memory(Rec(cx, ca))
      BY <2>5, <2>6 DEF Memory
    <2>8. QED
      BY <2>7 DEF cx, ca
  <1>10. ASSUME NEW cx, NEW ca, Memory(Rec(cx, ca)) PROVE OneMore(m, Rec(cx, ca))
    BY <1>2, <1>10 DEF m, pc, OneMore
  <1>11. OneMore(m, Off)
    BY DEF OneMore
  <1> HIDE DEF Rec
  <1>12. CASE ~IsToken(symbol)
    BY <1>4, <1>8, <1>10, <1>12 DEF m
  <1>13. CASE IsToken(symbol)
    BY <1>4, <1>9, <1>10, <1>11, <1>13 DEF m
  <1>14. QED
    BY <1>12, <1>13

-----------------------------------------------------------------------------
(***************************************************************************)
(* Every step preserves the invariant.  A process moves on, or its place   *)
(* in the program changes; the files change only by a rename, which puts   *)
(* in place what the process has written, or by being removed.             *)
(***************************************************************************)
Record(m, pc, writing) ==
  [pc |-> pc, job |-> m.job, done |-> m.done, enc |-> m.enc,
   context |-> m.context, window_start |-> m.window_start,
   cached |-> m.cached, writing |-> writing]

LEMMA RecordIsMemory ==
  ASSUME NEW m, Memory(m), NEW pc, NEW writing, NEW r, r = Record(m, pc, writing), Placed(r)
  PROVE  Memory(r)
  <1>1. /\ r.job = m.job /\ r.done = m.done /\ r.enc = m.enc /\ r.context = m.context
        /\ r.window_start = m.window_start /\ r.cached = m.cached
        /\ r.pc = pc /\ r.writing = writing
    BY DEF Record
  <1>2. AsUninterrupted(m)
    BY DEF Memory
  <1>3. AsUninterrupted(r)
    BY <1>1, <1>2 DEF AsUninterrupted
  <1>4. QED
    BY <1>1, <1>3 DEF Memory, Record

LEMMA PlaceChanges ==
  ASSUME NEW m, Memory(m),
         NEW pc \in {"encode", "open", "write", "rename", "verify", "remove"},
         pc = "encode" => m.writing = "checkpoint",
         pc # "encode" => m.pc # "encode",
         NEW r, r = [m EXCEPT !.pc = pc]
  PROVE  Memory(r) /\ r = Record(m, pc, m.writing) /\ r.pc = pc
  <1>1. m = [pc |-> m.pc, job |-> m.job, done |-> m.done, enc |-> m.enc,
             context |-> m.context, window_start |-> m.window_start,
             cached |-> m.cached, writing |-> m.writing]
    BY DEF Memory
  <1>2. r = Record(m, pc, m.writing)
    BY <1>1 DEF Record
  <1>3. r.pc = pc /\ r.job = m.job /\ r.done = m.done /\ r.writing = m.writing
    BY <1>2 DEF Record
  <1>4. Placed(r)
    BY <1>3 DEF Memory, Placed
  <1>5. Memory(r)
    BY <1>2, <1>4, RecordIsMemory
  <1>6. QED
    BY <1>2, <1>3, <1>5

LEMMA FinishedIsMemory ==
  ASSUME NEW m, Memory(m), m.done = Size(m.job),
         NEW r, r = [m EXCEPT !.pc = "open", !.writing = "dtlz"]
  PROVE  Memory(r) /\ r = Record(m, "open", "dtlz") /\ r.pc = "open"
  <1>1. m = Record(m, m.pc, m.writing)
    BY DEF Memory, Record
  <1>2. PICK s : s = Record(m, "open", m.writing)
    OBVIOUS
  <1>3. [m EXCEPT !.pc = "open"] = s
    BY <1>1, <1>2 DEF Record
  <1>4. [s EXCEPT !.writing = "dtlz"] = Record(m, "open", "dtlz")
    BY ONLY <1>2 DEF Record
  <1>5. r = [s EXCEPT !.writing = "dtlz"]
    BY ONLY <1>3, r = [m EXCEPT !.pc = "open", !.writing = "dtlz"]
  <1>6. r = Record(m, "open", "dtlz")
    BY ONLY <1>4, <1>5
  <1>7. r.pc = "open" /\ r.job = m.job /\ r.done = m.done /\ r.writing = "dtlz"
    BY ONLY <1>6 DEF Record
  <1>8. Placed(r)
    BY <1>7 DEF Placed
  <1>9. Memory(r)
    BY <1>6, <1>8, RecordIsMemory
  <1>10. QED
    BY <1>6, <1>7, <1>9

\* What a process writes under its temporary name may be renamed into place.
LEMMA BodyIsFile ==
  ASSUME NEW m, Memory(m), m.pc = "rename"
  PROVE  /\ m.writing = "dtlz" =>
              /\ Body(m) = [file |-> "dtlz", job |-> m.job, payload |-> Encoding(m.job)]
              /\ DtlzFile(Body(m)) /\ Body(m) # None
         /\ m.writing = "checkpoint" =>
              /\ CheckpointFile(Body(m)) /\ Body(m) # None
              /\ Body(m).job = m.job /\ Body(m).done = m.done
  <1>1. /\ m.job \in Jobs /\ m.done \in 0 .. Size(m.job)
        /\ m.enc = SubSeq(Encoding(m.job), 1, m.done)
        /\ m.writing = "checkpoint" => m.done > 0
        /\ m.writing = "dtlz" => m.done = Size(m.job)
    BY DEF Memory, AsUninterrupted, Placed
  <1>2. CASE m.writing = "dtlz"
    <2>1. m.enc = Encoding(m.job)
      BY <1>1, <1>2, EncodingOf, SubSeqFull
    <2>2. Body(m) = [file |-> "dtlz", job |-> m.job, payload |-> Encoding(m.job)]
      BY <1>2, <2>1 DEF Body
    <2>3. QED
      BY <1>1, <1>2, <2>2 DEF DtlzFile, None
  <1>3. CASE m.writing = "checkpoint"
    <2>1. Body(m) = [file |-> "checkpoint", job |-> m.job, done |-> m.done, enc |-> m.enc]
      BY <1>3 DEF Body
    <2>2. m.done \in 1 .. Size(m.job)
      BY <1>1, <1>3
    <2>3. CheckpointFile(Body(m))
      BY <1>1, <2>1, <2>2 DEF CheckpointFile
    <2>4. QED
      BY <1>3, <2>1, <2>3 DEF None
  <1>4. QED
    BY <1>2, <1>3

LEMMA ProcessStep ==
  ASSUME Inv, NEW p \in Procs, NEW r, NEW f,
         proc' = [proc EXCEPT ![p] = r],
         tmp' = [tmp EXCEPT ![p] = f],
         r # Off => /\ Memory(r)
                    /\ r.pc = "rename" => f = Body(r)
                    /\ r.pc \in {"verify", "remove"} => dtlz' # None,
         checkpoint' = None \/ CheckpointFile(checkpoint'),
         dtlz' = None \/ DtlzFile(dtlz'),
         dtlz # None => dtlz' # None
  PROVE  Inv'
  <1>1. proc = [q \in Procs |-> proc[q]] /\ tmp = [q \in Procs |-> tmp[q]]
    BY DEF Inv
  <1>2. /\ proc' = [q \in Procs |-> IF q = p THEN r ELSE proc[q]]
        /\ tmp' = [q \in Procs |-> IF q = p THEN f ELSE tmp[q]]
    BY <1>1
  <1>3. /\ \A q \in Procs : proc'[q] = IF q = p THEN r ELSE proc[q]
        /\ \A q \in Procs : tmp'[q] = IF q = p THEN f ELSE tmp[q]
    BY <1>2
  <1>4. /\ proc' = [q \in Procs |-> proc'[q]]
        /\ tmp' = [q \in Procs |-> tmp'[q]]
    BY <1>2
  <1>5. ASSUME NEW q \in Procs PROVE ProcInv(q)'
    <2>1. CASE q = p
      BY <1>3, <2>1 DEF ProcInv
    <2>2. CASE q # p
      BY <1>3, <2>2 DEF Inv, ProcInv
    <2>3. QED
      BY <2>1, <2>2
  <1>6. QED
    BY <1>4, <1>5 DEF Inv

LEMMA InitInv == Init => Inv
  BY DEF Init, Inv, ProcInv

\* A running process, by where it is.
LEMMA Running ==
  ASSUME Inv, NEW p \in Procs, proc[p].pc # "off"
  PROVE  /\ proc[p] # Off /\ Memory(proc[p])
         /\ proc[p].pc = "rename" => tmp[p] = Body(proc[p])
         /\ proc[p].pc \in {"verify", "remove"} => dtlz # None
  BY DEF Inv, ProcInv, Off

LEMMA TmpUntouched ==
  ASSUME Inv, NEW p \in Procs, UNCHANGED tmp
  PROVE  tmp' = [tmp EXCEPT ![p] = tmp[p]]
  BY DEF Inv

LEMMA StepInv == Inv /\ [Next]_vars => Inv'
  <1> SUFFICES ASSUME Inv, [Next]_vars PROVE Inv'
    OBVIOUS
  <1>0. /\ checkpoint = None \/ CheckpointFile(checkpoint)
        /\ dtlz = None \/ DtlzFile(dtlz)
    BY DEF Inv
  <1>1. ASSUME NEW p \in Procs, NEW job \in Jobs, Start(p, job) PROVE Inv'
    <2>1. Memory(Loaded(job)) /\ Loaded(job).pc = "encode"
      BY <1>1, LoadedIsUninterrupted DEF Start, Loaded, Resumed
    <2>2. QED
      BY <1>0, <1>1, <2>1, TmpUntouched, ProcessStep DEF Start
  <1>2. ASSUME NEW p \in Procs, EncodeSymbol(p) PROVE Inv'
    <2>1. PICK r : proc' = [proc EXCEPT ![p] = r] /\ OneMore(proc[p], r)
      BY <1>2, EncodedIsUninterrupted
    <2>2. UNCHANGED <<checkpoint, dtlz, tmp>>
      BY <1>2 DEF EncodeSymbol
    <2>3. QED
      BY <1>0, <2>1, <2>2, TmpUntouched, ProcessStep DEF OneMore
  <1>3. ASSUME NEW p \in Procs, FinishEncode(p) PROVE Inv'
    <2>0. PICK r : r = [proc[p] EXCEPT !.pc = "open", !.writing = "dtlz"]
      OBVIOUS
    <2>1. Memory(r) /\ r.pc = "open"
      BY <2>0, <1>3, Running, FinishedIsMemory DEF FinishEncode, Size
    <2>2. proc' = [proc EXCEPT ![p] = r] /\ UNCHANGED <<checkpoint, dtlz, tmp>>
      BY <2>0, <1>3 DEF FinishEncode
    <2>3. QED
      BY <1>0, <2>1, <2>2, TmpUntouched, ProcessStep
  <1>4. ASSUME NEW p \in Procs, OpenTmp(p) PROVE Inv'
    <2>0. PICK r : r = [proc[p] EXCEPT !.pc = "write"]
      OBVIOUS
    <2>1. Memory(r) /\ r.pc = "write"
      BY <2>0, <1>4, Running, PlaceChanges DEF OpenTmp
    <2>2. /\ proc' = [proc EXCEPT ![p] = r] /\ tmp' = [tmp EXCEPT ![p] = Torn]
          /\ UNCHANGED <<checkpoint, dtlz>>
      BY <2>0, <1>4 DEF OpenTmp, TmpName
    <2>3. QED
      BY <1>0, <2>1, <2>2, ProcessStep
  <1>5. ASSUME NEW p \in Procs, WriteTmp(p) PROVE Inv'
    <2>0. PICK r : r = [proc[p] EXCEPT !.pc = "rename"]
      OBVIOUS
    <2>1. Memory(r) /\ r = Record(proc[p], "rename", proc[p].writing)
      BY <2>0, <1>5, Running, PlaceChanges DEF WriteTmp
    <2>2. r.pc = "rename" /\ Body(r) = Body(proc[p])
      BY <2>1 DEF Record, Body
    <2>3. /\ proc' = [proc EXCEPT ![p] = r] /\ tmp' = [tmp EXCEPT ![p] = Body(proc[p])]
          /\ UNCHANGED <<checkpoint, dtlz>>
      BY <2>0, <1>5 DEF WriteTmp, TmpName
    <2>4. QED
      BY <1>0, <2>1, <2>2, <2>3, ProcessStep
  <1>6. ASSUME NEW p \in Procs, RenameCheckpoint(p) PROVE Inv'
    <2>0. PICK r : r = [proc[p] EXCEPT !.pc = "encode"]
      OBVIOUS
    <2>1. Memory(r) /\ r.pc = "encode"
      BY <2>0, <1>6, Running, PlaceChanges DEF RenameCheckpoint
    <2>2. CheckpointFile(tmp[p])
      BY <1>6, Running, BodyIsFile DEF RenameCheckpoint
    <2>3. /\ proc' = [proc EXCEPT ![p] = r] /\ tmp' = [tmp EXCEPT ![p] = None]
          /\ checkpoint' = tmp[p] /\ UNCHANGED dtlz
      BY <2>0, <1>6 DEF RenameCheckpoint, TmpName
    <2>4. QED
      BY <1>0, <2>1, <2>2, <2>3, ProcessStep
  <1>7. ASSUME NEW p \in Procs, RenameDtlz(p) PROVE Inv'
    <2>0. PICK r : r = [proc[p] EXCEPT !.pc = "verify"]
      OBVIOUS
    <2>1. Memory(r) /\ r.pc = "verify"
      BY <2>0, <1>7, Running, PlaceChanges DEF RenameDtlz
    <2>2. DtlzFile(tmp[p]) /\ tmp[p] # None
      BY <1>7, Running, BodyIsFile DEF RenameDtlz
    <2>3. /\ proc' = [proc EXCEPT ![p] = r] /\ tmp' = [tmp EXCEPT ![p] = None]
          /\ dtlz' = tmp[p] /\ UNCHANGED checkpoint
      BY <2>0, <1>7 DEF RenameDtlz, TmpName
    <2>4. QED
      BY <1>0, <2>1, <2>2, <2>3, ProcessStep
  <1>8. ASSUME NEW p \in Procs, Verify(p) PROVE Inv'
    <2>0. PICK r : r = [proc[p] EXCEPT !.pc = "remove"]
      OBVIOUS
    <2>1. Memory(r) /\ r.pc = "remove" /\ dtlz # None
      BY <2>0, <1>8, Running, PlaceChanges DEF Verify
    <2>2. /\ proc' = [proc EXCEPT ![p] = r] \/ proc' = [proc EXCEPT ![p] = Off]
          /\ UNCHANGED <<checkpoint, dtlz, tmp>>
      BY <2>0, <1>8 DEF Verify
    <2>3. CASE proc' = [proc EXCEPT ![p] = r]
      BY <1>0, <2>1, <2>2, <2>3, TmpUntouched, ProcessStep
    <2>4. CASE proc' = [proc EXCEPT ![p] = Off]
      BY <1>0, <2>2, <2>4, TmpUntouched, ProcessStep
    <2>5. QED
      BY <2>2, <2>3, <2>4
  <1>9. ASSUME NEW p \in Procs, RemoveCheckpoint(p) PROVE Inv'
    BY <1>0, <1>9, TmpUntouched, ProcessStep DEF RemoveCheckpoint
  <1>10. ASSUME NEW p \in Procs, RenameFails(p) PROVE Inv'
    BY <1>0, <1>10, ProcessStep DEF RenameFails, TmpName
  <1>11. ASSUME NEW p \in Procs, Crash(p) PROVE Inv'
    BY <1>0, <1>11, TmpUntouched, ProcessStep DEF Crash
  <1>12. ASSUME UNCHANGED vars PROVE Inv'
    BY <1>12 DEF vars, Inv, ProcInv
  <1>13. QED
    BY <1>1, <1>2, <1>3, <1>4, <1>5, <1>6, <1>7, <1>8, <1>9, <1>10, <1>11, <1>12
       DEF Next, Step, Refuse

THEOREM Invariant == Spec => []Inv
  BY InitInv, StepInv, PTL DEF Spec

-----------------------------------------------------------------------------
(***************************************************************************)
(* However often an encode was interrupted and resumed, by crashes, failed *)
(* renames or other processes on the same paths, the payload in its output *)
(* is that of an encode run at once (bench_file).                          *)
(***************************************************************************)
THEOREM OutputSurvivesInterruption == Spec => []OutputIsUninterrupted
  <1>1. Inv => OutputIsUninterrupted
    BY DEF Inv, DtlzFile, OutputIsUninterrupted, Torn
  <1>2. QED
    BY <1>1, Invariant, PTL

(***************************************************************************)
(* A checkpoint is at any time a whole prefix of the encode of the job it  *)
(* names (write_bench_file_checkpoint, BenchFileEncodeCheckpoint).         *)
(***************************************************************************)
THEOREM CheckpointsArePrefixes == Spec => []CheckpointIsPrefix
  <1>1. Inv => CheckpointIsPrefix
    BY DEF Inv, CheckpointFile, CheckpointIsPrefix, Torn
  <1>2. QED
    BY <1>1, Invariant, PTL

-----------------------------------------------------------------------------
(***************************************************************************)
(* When one process at a time uses the paths, or all of them run the same  *)
(* job, finished work is not lost.  For one process the invariant is that  *)
(* the checkpoint is of the job it runs, and not further than it is; it is *)
(* behind it when a new one is being written.                              *)
(***************************************************************************)
OneProcess == \A p, q \in Procs : p = q
OneJob     == \A j, k \in Jobs : j = k

Follows(m) ==
  /\ checkpoint # None =>
       /\ checkpoint.job = m.job
       /\ checkpoint.done <= m.done
       /\ m.pc # "encode" /\ m.writing = "checkpoint" => checkpoint.done < m.done
  /\ m.pc \in {"verify", "remove"} => dtlz.job = m.job

Alone == OneProcess => \A p \in Procs : proc[p] # Off => Follows(proc[p])

LEMMA InitAlone == Init => Alone
  BY DEF Init, Alone

LEMMA AloneStep ==
  ASSUME Inv, NEW p \in Procs, NEW r, proc' = [proc EXCEPT ![p] = r],
         OneProcess => (r # Off => Follows(r)')
  PROVE  Alone'
  <1> SUFFICES ASSUME OneProcess, NEW q \in Procs, proc'[q] # Off
               PROVE  Follows(proc[q])'
    BY DEF Alone
  <1>1. q = p /\ proc'[p] = r
    BY DEF OneProcess, Inv
  <1>2. QED
    BY <1>1 DEF Follows

LEMMA MemoryDone ==
  ASSUME NEW m, Memory(m)
  PROVE  m.done \in Nat
  <1>1. m.job \in Jobs /\ m.done \in 0 .. Size(m.job)
    BY DEF Memory, AsUninterrupted
  <1>2. QED
    BY <1>1, InputOf

LEMMA CheckpointDone ==
  ASSUME Inv
  PROVE  /\ checkpoint # None => checkpoint.done \in Nat /\ checkpoint.job \in Jobs
         /\ dtlz # None => dtlz.job \in Jobs
  <1>1. ASSUME checkpoint # None PROVE checkpoint.done \in Nat /\ checkpoint.job \in Jobs
    <2>1. PICK job \in Jobs : \E n \in 1 .. Size(job) :
            checkpoint = [file |-> "checkpoint", job |-> job, done |-> n,
                          enc |-> SubSeq(Encoding(job), 1, n)]
      BY <1>1 DEF Inv, CheckpointFile
    <2>2. PICK n \in 1 .. Size(job) :
            checkpoint = [file |-> "checkpoint", job |-> job, done |-> n,
                          enc |-> SubSeq(Encoding(job), 1, n)]
      BY <2>1
    <2>3. n \in Nat
      BY InputOf
    <2>4. QED
      BY <2>2, <2>3
  <1>2. ASSUME dtlz # None PROVE dtlz.job \in Jobs
    BY <1>2 DEF Inv, DtlzFile
  <1>3. QED
    BY <1>1, <1>2

\* A change of place alone.
LEMMA PlaceFollows ==
  ASSUME NEW m, NEW r, NEW pc, Follows(m), r = Record(m, pc, m.writing),
         pc \in {"write", "rename", "remove"}, m.pc # "encode",
         pc = "remove" => m.pc = "verify",
         UNCHANGED <<checkpoint, dtlz>>
  PROVE  Follows(r)'
  <1>1. r.pc = pc /\ r.job = m.job /\ r.done = m.done /\ r.writing = m.writing
    BY DEF Record
  <1>2. QED
    BY <1>1 DEF Follows

LEMMA StepAlone == Inv /\ Alone /\ [Next]_vars => Alone'
  <1> SUFFICES ASSUME Inv, Alone, [Next]_vars PROVE Alone'
    OBVIOUS
  <1>0. ASSUME OneProcess, NEW p \in Procs, proc[p] # Off PROVE Follows(proc[p])
    BY <1>0 DEF Alone
  <1>1. ASSUME NEW p \in Procs, NEW job \in Jobs, Start(p, job) PROVE Alone'
    <2>1. PICK r : r = Loaded(job)
      OBVIOUS
    <2>2. /\ r.pc = "encode" /\ r.job = job
          /\ checkpoint # None => r.done = checkpoint.done
      BY <2>1 DEF Loaded, Resumed
    <2>3. /\ checkpoint # None => checkpoint.job = job
          /\ proc' = [proc EXCEPT ![p] = r] /\ UNCHANGED <<checkpoint, dtlz>>
      BY <1>1, <2>1 DEF Start, CanStart, Matches
    <2>4. Follows(r)'
      BY <2>2, <2>3, CheckpointDone DEF Follows
    <2>5. QED
      BY <2>3, <2>4, AloneStep
  <1>2. ASSUME NEW p \in Procs, EncodeSymbol(p) PROVE Alone'
    <2>1. PICK r : proc' = [proc EXCEPT ![p] = r] /\ OneMore(proc[p], r)
      BY <1>2, EncodedIsUninterrupted
    <2>2. UNCHANGED <<checkpoint, dtlz>> /\ proc[p].pc = "encode"
      BY <1>2 DEF EncodeSymbol
    <2>3. proc[p] # Off /\ proc[p].done \in Nat
      BY <2>2, Running, MemoryDone
    <2>4. ASSUME OneProcess, r # Off PROVE Follows(r)'
      <3>1. Follows(proc[p])
        BY <1>0, <2>3, <2>4
      <3>2. r.job = proc[p].job /\ r.done = proc[p].done + 1 /\ r.pc \in {"encode", "open"}
        BY <2>1, <2>4 DEF OneMore
      <3>3. QED
        BY <2>2, <2>3, <3>1, <3>2, CheckpointDone DEF Follows
    <2>5. QED
      BY <2>1, <2>4, AloneStep
  <1>3. ASSUME NEW p \in Procs, FinishEncode(p) PROVE Alone'
    <2>1. PICK r : r = [proc[p] EXCEPT !.pc = "open", !.writing = "dtlz"]
      OBVIOUS
    <2>2. proc[p] # Off /\ r = Record(proc[p], "open", "dtlz")
      BY <2>1, <1>3, Running, FinishedIsMemory DEF FinishEncode, Size
    <2>3. r.pc = "open" /\ r.job = proc[p].job /\ r.done = proc[p].done /\ r.writing = "dtlz"
      BY <2>2 DEF Record
    <2>4. proc' = [proc EXCEPT ![p] = r] /\ UNCHANGED <<checkpoint, dtlz>>
      BY <2>1, <1>3 DEF FinishEncode
    <2>5. ASSUME OneProcess PROVE Follows(r)'
      BY <1>0, <2>2, <2>3, <2>4, <2>5 DEF Follows
    <2>6. QED
      BY <2>4, <2>5, AloneStep
  <1>4. ASSUME NEW p \in Procs, OpenTmp(p) PROVE Alone'
    <2>1. PICK r : r = [proc[p] EXCEPT !.pc = "write"]
      OBVIOUS
    <2>2. proc[p] # Off /\ r = Record(proc[p], "write", proc[p].writing)
      BY <2>1, <1>4, Running, PlaceChanges DEF OpenTmp
    <2>3. proc' = [proc EXCEPT ![p] = r] /\ UNCHANGED <<checkpoint, dtlz>> /\ proc[p].pc = "open"
      BY <2>1, <1>4 DEF OpenTmp
    <2>4. OneProcess => Follows(r)'
      BY <1>0, <2>2, <2>3, PlaceFollows
    <2>5. QED
      BY <2>3, <2>4, AloneStep
  <1>5. ASSUME NEW p \in Procs, WriteTmp(p) PROVE Alone'
    <2>1. PICK r : r = [proc[p] EXCEPT !.pc = "rename"]
      OBVIOUS
    <2>2. proc[p] # Off /\ r = Record(proc[p], "rename", proc[p].writing)
      BY <2>1, <1>5, Running, PlaceChanges DEF WriteTmp
    <2>3. proc' = [proc EXCEPT ![p] = r] /\ UNCHANGED <<checkpoint, dtlz>> /\ proc[p].pc = "write"
      BY <2>1, <1>5 DEF WriteTmp
    <2>4. OneProcess => Follows(r)'
      BY <1>0, <2>2, <2>3, PlaceFollows
    <2>5. QED
      BY <2>3, <2>4, AloneStep
  <1>6. ASSUME NEW p \in Procs, RenameCheckpoint(p) PROVE Alone'
    <2>1. PICK r : r = [proc[p] EXCEPT !.pc = "encode"]
      OBVIOUS
    <2>2. r = Record(proc[p], "encode", proc[p].writing) /\ Memory(proc[p])
      BY <2>1, <1>6, Running, PlaceChanges DEF RenameCheckpoint
    <2>3. r.pc = "encode" /\ r.job = proc[p].job /\ r.done = proc[p].done
      BY <2>2 DEF Record
    <2>4. /\ proc' = [proc EXCEPT ![p] = r] /\ checkpoint' = tmp[p]
      BY <2>1, <1>6 DEF RenameCheckpoint, TmpName
    <2>5. tmp[p].job = proc[p].job /\ tmp[p].done = proc[p].done
      BY <1>6, Running, BodyIsFile DEF RenameCheckpoint
    <2>6. proc[p].done \in Nat
      BY <2>2, MemoryDone
    <2>7. Follows(r)'
      BY <2>3, <2>4, <2>5, <2>6 DEF Follows
    <2>8. QED
      BY <2>4, <2>7, AloneStep
  <1>7. ASSUME NEW p \in Procs, RenameDtlz(p) PROVE Alone'
    <2>1. PICK r : r = [proc[p] EXCEPT !.pc = "verify"]
      OBVIOUS
    <2>2. /\ r = Record(proc[p], "verify", "dtlz") /\ Memory(proc[p])
          /\ proc[p].pc = "rename" /\ proc[p].writing = "dtlz" /\ proc[p] # Off
      BY <2>1, <1>7, Running, PlaceChanges DEF RenameDtlz
    <2>3. r.pc = "verify" /\ r.job = proc[p].job /\ r.done = proc[p].done /\ r.writing = "dtlz"
      BY <2>2 DEF Record
    <2>4. /\ proc' = [proc EXCEPT ![p] = r] /\ dtlz' = tmp[p] /\ UNCHANGED checkpoint
      BY <2>1, <1>7 DEF RenameDtlz, TmpName
    <2>5. tmp[p].job = proc[p].job
      BY <1>7, <2>2, Running, BodyIsFile DEF RenameDtlz
    <2>6. ASSUME OneProcess PROVE Follows(r)'
      BY <1>0, <2>2, <2>3, <2>4, <2>5, <2>6 DEF Follows
    <2>7. QED
      BY <2>4, <2>6, AloneStep
  <1>8. ASSUME NEW p \in Procs, Verify(p) PROVE Alone'
    <2>1. PICK r : r = [proc[p] EXCEPT !.pc = "remove"]
      OBVIOUS
    <2>2. proc[p] # Off /\ r = Record(proc[p], "remove", proc[p].writing)
      BY <2>1, <1>8, Running, PlaceChanges DEF Verify
    <2>3. /\ proc' = [proc EXCEPT ![p] = r] \/ proc' = [proc EXCEPT ![p] = Off]
          /\ UNCHANGED <<checkpoint, dtlz>> /\ proc[p].pc = "verify"
      BY <2>1, <1>8 DEF Verify
    <2>4. OneProcess => Follows(r)'
      BY <1>0, <2>2, <2>3, PlaceFollows
    <2>5. CASE proc' = [proc EXCEPT ![p] = r]
      BY <2>4, <2>5, AloneStep
    <2>6. CASE proc' = [proc EXCEPT ![p] = Off]
      BY <2>6, AloneStep
    <2>7. QED
      BY <2>3, <2>5, <2>6
  <1>9. ASSUME NEW p \in Procs, RemoveCheckpoint(p) \/ RenameFails(p) \/ Crash(p) PROVE Alone'
    BY <1>9, AloneStep DEF RemoveCheckpoint, RenameFails, Crash
  <1>10. ASSUME UNCHANGED vars PROVE Alone'
    BY <1>10 DEF vars, Alone, Follows
  <1>11. QED
    BY <1>1, <1>2, <1>3, <1>4, <1>5, <1>6, <1>7, <1>8, <1>9, <1>10 DEF Next, Step, Refuse

\* How the checkpoint changes in a step.
LEMMA CheckpointChange ==
  ASSUME Inv, [Next]_vars, checkpoint' # checkpoint
  PROVE  \E p \in Procs : \/ RemoveCheckpoint(p)
                         \/ /\ RenameCheckpoint(p) /\ proc[p] # Off
                            /\ checkpoint' # None
                            /\ checkpoint'.job = proc[p].job
                            /\ checkpoint'.done = proc[p].done
  <1>1. PICK p \in Procs : RemoveCheckpoint(p) \/ RenameCheckpoint(p)
    BY DEF Next, Step, Start, Refuse, EncodeSymbol, FinishEncode, OpenTmp, WriteTmp,
           RenameDtlz, Verify, RenameFails, Crash, vars
  <1>2. CASE RenameCheckpoint(p)
    <2>1. checkpoint' = tmp[p] /\ proc[p].pc = "rename" /\ proc[p].writing = "checkpoint"
      BY <1>2 DEF RenameCheckpoint, TmpName
    <2>2. proc[p] # Off /\ Memory(proc[p]) /\ tmp[p] = Body(proc[p])
      BY <2>1, Running
    <2>3. tmp[p] # None /\ tmp[p].job = proc[p].job /\ tmp[p].done = proc[p].done
      BY <2>1, <2>2, BodyIsFile
    <2>4. QED
      BY <1>2, <2>1, <2>2, <2>3
  <1>3. QED
    BY <1>1, <1>2

(***************************************************************************)
(* Then a checkpoint is removed only once the output of its job is in      *)
(* place (remove_bench_file_checkpoint), ...                               *)
(***************************************************************************)
THEOREM RemovedOnlyAfterOutput ==
  ASSUME OneProcess \/ OneJob
  PROVE  Spec => RemovedAfterOutput
  <1> DEFINE Removal == checkpoint # None /\ checkpoint' = None =>
                          dtlz # None /\ dtlz.job = checkpoint.job
  <1>1. ASSUME Inv, Alone, [Next]_vars, checkpoint # None, checkpoint' = None
        PROVE  dtlz # None /\ dtlz.job = checkpoint.job
    <2>1. PICK p \in Procs : RemoveCheckpoint(p)
      BY <1>1, CheckpointChange
    <2>2. proc[p].pc = "remove"
      BY <2>1 DEF RemoveCheckpoint
    <2>3. dtlz # None /\ proc[p] # Off
      BY <1>1, <2>2, Running
    <2>4. CASE OneProcess
      BY <1>1, <2>2, <2>3, <2>4 DEF Alone, Follows
    <2>5. CASE OneJob
      BY <1>1, <2>3, <2>5, CheckpointDone DEF OneJob
    <2>6. QED
      BY <2>3, <2>4, <2>5
  <1>2. Inv /\ Alone /\ [Next]_vars => [Removal]_vars
    BY <1>1
  <1>3. Spec => []Alone
    BY InitAlone, StepAlone, Invariant, PTL DEF Spec
  <1>4. QED
    BY <1>2, <1>3, Invariant, PTL DEF Spec, RemovedAfterOutput

(***************************************************************************)
(* ... and for one process at a time it is replaced only by a checkpoint   *)
(* of the same job that is further on (write_bench_file_checkpoint).       *)
(***************************************************************************)
THEOREM CheckpointsAdvance ==
  ASSUME OneProcess
  PROVE  Spec => [][FurtherOn]_vars
  <1>1. ASSUME Inv, Alone, [Next]_vars,
               checkpoint # None, checkpoint' # None, checkpoint' # checkpoint
        PROVE  checkpoint'.job = checkpoint.job /\ checkpoint'.done > checkpoint.done
    <2>1. PICK p \in Procs :
            /\ RenameCheckpoint(p) /\ proc[p] # Off
            /\ checkpoint'.job = proc[p].job
            /\ checkpoint'.done = proc[p].done
      BY <1>1, CheckpointChange DEF RemoveCheckpoint
    <2>2. proc[p].pc = "rename" /\ proc[p].writing = "checkpoint"
      BY <2>1 DEF RenameCheckpoint
    <2>3. Follows(proc[p])
      BY <1>1, <2>1 DEF Alone
    <2>4. proc[p].done \in Nat /\ checkpoint.done \in Nat
      BY <1>1, <2>1, <2>2, Running, MemoryDone, CheckpointDone
    <2>5. QED
      BY <1>1, <2>1, <2>2, <2>3, <2>4 DEF Follows
  <1>2. Inv /\ Alone /\ [Next]_vars => [FurtherOn]_vars
    BY <1>1 DEF FurtherOn
  <1>3. Spec => []Alone
    BY InitAlone, StepAlone, Invariant, PTL DEF Spec
  <1>4. QED
    BY <1>2, <1>3, Invariant, PTL DEF Spec

-----------------------------------------------------------------------------
(***************************************************************************)
(* What the three scans have learned of the text so far.                   *)
(***************************************************************************)
Whole == Len(text)
CodeFile == file \notin Manifests \cup {Lock, "no Cargo.lock"}
Excused(i) == InDefinition(i) \/ NamedElsewhere(i)
Scanned(i) == ~Excused(i) /\ "allow" \notin text[i]

CodeInv ==
  /\ inTable => \E d \in 1 .. Whole : "table" \in text[d] /\ \A k \in d .. Whole : text[k] # EndOfArray
  /\ \A i \in 1 .. Whole : Scanned(i) /\ "par" \in text[i] /\ OnePiece(i, Whole + 1) => chain
  /\ ~violated => CodeIsClean

LockInv ==
  /\ (\E h \in 1 .. Whole : text[h].kind = "[[package]]") => inPackage
  /\ ~violated => PackagesArePure

\* The entries under a header are in order, its own table's source apart.
EntriesOk(h) ==
  LET name == text[h].name
      last == Len(name)
  IN  /\ name[last] \in Lists => \A i \in Under(h) : Settled(i) /\ text[i].key \notin Native
      /\ last > 1 /\ name[last - 1] \in Lists => name[last] \notin Native
      /\ name = <<"package">> => \A i \in Under(h) : text[i].key \notin {"build", "links"}
Sourced(h) == \E i \in Under(h) : text[i].key \in {"path", "workspace"} \/ (text[i].key = "version" /\ Settled(i))
IsTable(h) == LET name == text[h].name IN Len(name) > 1 /\ name[Len(name) - 1] \in Lists

Current(h) == h \in Headers /\ \A i \in Headers : i <= h

ManifestInv ==
  /\ \A i \in 1 .. Whole : text[i] \in ManifestLines
  /\ Headers = {} => section = "other" /\ ~table.open
  /\ \A h \in Headers : Current(h) =>
       /\ section = Classify(text[h].name)
       /\ table.open = (section = "table")
       /\ table.source => \E i \in Under(h) : text[i].key \in {"path", "workspace"}
       /\ table.version /\ ~violated => \E i \in Under(h) : text[i].key = "version" /\ Settled(i)
  /\ ~violated => \A h \in Headers : EntriesOk(h) /\ (IsTable(h) => Current(h) \/ Sourced(h))

PolicyInv ==
  /\ text \in Seq(CodeLines \cup ManifestLines \cup LockLines)
  /\ file \in PolicyFiles \cup {Lock, "no Cargo.lock"}
  /\ inTable \in BOOLEAN /\ chain \in BOOLEAN /\ inPackage \in BOOLEAN /\ violated \in BOOLEAN
  /\ table \in [source : BOOLEAN, version : BOOLEAN, open : BOOLEAN]
  /\ file = "no Cargo.lock" => violated
  /\ outcome = "reading" =>
       /\ CodeFile => CodeInv
       /\ file = Lock => LockInv
       /\ file \in Manifests => ManifestInv
  /\ PassedFilesAreClean

\* What was read stays as it is when a line comes.
Grows(line) ==
  /\ Whole \in Nat /\ Whole' = Whole + 1 /\ text'[Whole + 1] = line
  /\ \A i \in 1 .. Whole : text'[i] = text[i]

LEMMA LineComes ==
  ASSUME NEW S, text \in Seq(S), NEW line \in S, text' = Append(text, line)
  PROVE  text' \in Seq(S) /\ Grows(line)
<1>1. Len(text) \in Nat
  OBVIOUS
<1>2. Len(text') = Len(text) + 1
  OBVIOUS
<1>3. text'[Len(text) + 1] = line /\ \A i \in 1 .. Len(text) : text'[i] = text[i]
  OBVIOUS
<1>4. text' \in Seq(S)
  OBVIOUS
<1> QED
  BY ONLY <1>1, <1>2, <1>3, <1>4 DEF Whole, Grows

(***************************************************************************)
(* Code.                                                                   *)
(***************************************************************************)
LEMMA CodeStays ==
  ASSUME NEW line, Grows(line)
  PROVE  /\ \A i \in 1 .. Whole : Excused(i)' = Excused(i) /\ Scanned(i)' = Scanned(i)
         /\ \A i \in 1 .. Whole, j \in 1 .. Whole + 1 : OnePiece(i, j)' = OnePiece(i, j)
<1>1. /\ Whole \in Nat /\ Whole' = Whole + 1
      /\ \A i \in 1 .. Whole : text'[i] = text[i]
  BY DEF Grows
<1>2. ASSUME NEW i \in 1 .. Whole PROVE Excused(i)' = Excused(i)
  <2>1. \A d \in 1 .. i : text'[d] = text[d] /\ \A k \in d .. (i - 1) : text'[k] = text[k]
    BY <1>1
  <2>2. InDefinition(i)' = InDefinition(i)
    BY <2>1 DEF InDefinition
  <2>3. NamedElsewhere(i)' = NamedElsewhere(i)
    BY <2>1 DEF NamedElsewhere
  <2> QED
    BY <2>2, <2>3 DEF Excused
<1>3. ASSUME NEW i \in 1 .. Whole PROVE Scanned(i)' = Scanned(i)
  BY <1>1, <1>2 DEF Scanned
<1>4. ASSUME NEW i \in 1 .. Whole, NEW j \in 1 .. Whole + 1 PROVE OnePiece(i, j)' = OnePiece(i, j)
  <2>1. \A k \in i .. (j - 1) : text'[k] = text[k]
    BY <1>1
  <2> QED
    BY <2>1 DEF OnePiece
<1> QED
  BY <1>2, <1>3, <1>4

LEMMA CodeStep ==
  ASSUME PolicyInv, outcome = "reading", NEW line \in CodeLines, ScanCode(line)
  PROVE  CodeInv'
<1>1. Grows(line)
  BY LineComes DEF PolicyInv, ScanCode, Read
<1> PICK n \in Nat : n = Whole
  BY <1>1 DEF Grows
<1>2. /\ n = Whole /\ Whole' = n + 1 /\ text'[n + 1] = line
      /\ \A i \in 1 .. n : text'[i] = text[i]
  BY <1>1 DEF Grows
<1>3. /\ \A i \in 1 .. n : Excused(i)' = Excused(i) /\ Scanned(i)' = Scanned(i)
      /\ \A i \in 1 .. n, j \in 1 .. n + 1 : OnePiece(i, j)' = OnePiece(i, j)
  BY <1>1, CodeStays
<1>b. inTable \in BOOLEAN /\ chain \in BOOLEAN /\ violated \in BOOLEAN
  BY DEF PolicyInv
<1>4. CodeInv
  BY DEF PolicyInv, ScanCode, CodeFile
\* A line that is passed over follows a line that names the table, with no end of an array between.
<1>5. inTable \/ "table" \in line => \E d \in 1 .. n + 1 : "table" \in text'[d] /\ \A k \in d .. n : text'[k] # EndOfArray
  <2>1. CASE "table" \in line
    <3>1. "table" \in text'[n + 1] /\ (n + 1) .. n = {}
      BY <2>1, <1>2
    <3> QED
      BY <3>1
  <2>2. CASE inTable
    <3>1. PICK d \in 1 .. n : "table" \in text[d] /\ \A k \in d .. n : text[k] # EndOfArray
      BY <2>2, <1>2, <1>4 DEF CodeInv
    <3>2. "table" \in text'[d] /\ \A k \in d .. n : text'[k] # EndOfArray
      BY <3>1, <1>2
    <3> QED
      BY <3>2, <1>2
  <2> QED
    BY <2>1, <2>2
<1>6. inTable' => \E d \in 1 .. n + 1 : "table" \in text'[d] /\ \A k \in d .. n + 1 : text'[k] # EndOfArray
  <2>1. SUFFICES ASSUME inTable'
                 PROVE  \E d \in 1 .. n + 1 : "table" \in text'[d] /\ \A k \in d .. n + 1 : text'[k] # EndOfArray
    BY <1>2
  <2>2. line # EndOfArray /\ (inTable \/ "table" \in line)
    BY <2>1 DEF ScanCode, SkipTable, Allowed, Statement
  <2>3. PICK d \in 1 .. n + 1 : "table" \in text'[d] /\ \A k \in d .. n : text'[k] # EndOfArray
    BY <2>2, <1>5
  <2>4. \A k \in d .. n + 1 : text'[k] # EndOfArray
    BY <2>2, <2>3, <1>2
  <2> QED
    BY <2>3, <2>4
\* That line defines the table, or it names it elsewhere.
<1>12. inTable \/ "table" \in line => Excused(n + 1)'
  <2>1. SUFFICES ASSUME inTable \/ "table" \in line PROVE Excused(n + 1)'
    OBVIOUS
  <2>2. PICK d \in 1 .. n + 1 : "table" \in text'[d] /\ \A k \in d .. n : text'[k] # EndOfArray
    BY <2>1, <1>5
  <2>3. CASE "definition" \in text'[d]
    BY <2>2, <2>3 DEF Excused, InDefinition
  <2>4. CASE "definition" \notin text'[d]
    BY <2>2, <2>4 DEF Excused, NamedElsewhere
  <2> QED
    BY <2>3, <2>4
<1>7. Scanned(n + 1)' => Statement(line)
  BY <1>2, <1>12 DEF Scanned, ScanCode, SkipTable, Allowed
\* An open chain of the lines before is open here.
<1>8. ASSUME NEW i \in 1 .. n, Scanned(i), "par" \in text[i], OnePiece(i, n + 1)
      PROVE  chain
  BY <1>2, <1>4, <1>8 DEF CodeInv
<1>9. ASSUME NEW i \in 1 .. n + 1, Scanned(i)', "par" \in text'[i],
             \A k \in i .. n + 1 : "semicolon" \notin text'[k]
      PROVE  chain'
  <2>1. "semicolon" \notin line
    <3>1. n + 1 \in i .. n + 1
      OBVIOUS
    <3>2. "semicolon" \notin text'[n + 1]
      BY <1>9, <3>1
    <3> QED
      BY <1>2, <3>2
  <2>2. CASE i = n + 1
    BY <1>7, <1>9, <2>1, <2>2, <1>2 DEF Statement
  <2>3. CASE i \in 1 .. n
    <3>1. OnePiece(i, n + 1)
      <4>1. ASSUME NEW k \in i .. (n + 1 - 1) PROVE "semicolon" \notin text[k]
        <5>1. k \in i .. n + 1 /\ k \in 1 .. n
          BY <2>3
        <5>2. "semicolon" \notin text'[k]
          BY <5>1, <1>9
        <5> QED
          BY <5>1, <5>2, <1>2
      <4> QED
        BY <4>1 DEF OnePiece
    <3>2. chain
      BY <3>1, <1>8, <1>9, <1>3, <1>2, <2>3
    <3> QED
      BY <3>2, <2>1 DEF ScanCode, SkipTable, Allowed, Statement
  <2> QED
    BY <2>2, <2>3, <1>2
<1>10. ASSUME ~violated' PROVE CodeIsClean'
  <2>1. CodeIsClean
    BY <1>4, <1>10 DEF CodeInv, ScanCode, SkipTable, Allowed, Statement
  <2>2. ASSUME NEW i \in 1 .. n + 1, Scanned(i)' PROVE "banned" \notin text'[i]
    <3>1. CASE i \in 1 .. n
      BY <3>1, <2>1, <2>2, <1>2, <1>3 DEF Whole, CodeIsClean, Scanned, Excused
    <3>2. CASE i = n + 1
      BY <3>2, <2>2, <1>7, <1>2, <1>10 DEF Statement
    <3> QED
      BY <3>1, <3>2, <1>2
  <2>3. ASSUME NEW i \in 1 .. n + 1, NEW j \in 1 .. n + 1, Scanned(i)', Scanned(j)', i <= j, OnePiece(i, j)'
        PROVE  ~("par" \in text'[i] /\ "reduce" \in text'[j])
    <3>1. CASE j \in 1 .. n
      <4>1. i \in 1 .. n /\ text'[i] = text[i] /\ text'[j] = text[j]
        BY <3>1, <2>3, <1>2
      <4>2. Scanned(i) /\ Scanned(j) /\ OnePiece(i, j)
        BY <4>1, <3>1, <2>3, <1>3, <1>2
      <4> QED
        BY <4>1, <4>2, <2>1, <2>3, <3>1, <1>2 DEF Whole, CodeIsClean, Scanned, Excused
    <3>2. CASE j = n + 1 /\ i = n + 1
      BY <3>2, <2>3, <1>7, <1>2, <1>10 DEF Statement
    <3>3. CASE j = n + 1 /\ i \in 1 .. n
      <4>1. Scanned(i) /\ OnePiece(i, n + 1) /\ text'[i] = text[i]
        BY <3>3, <2>3, <1>3, <1>2
      <4>2. "par" \in text[i] => chain
        BY <4>1, <3>3, <1>8
      <4> QED
        BY <4>1, <4>2, <3>3, <2>3, <1>7, <1>2, <1>10 DEF Statement
    <3> QED
      BY <3>1, <3>2, <3>3, <2>3, <1>2
  <2> QED
    BY <2>2, <2>3, <1>2 DEF Whole, CodeIsClean, Scanned, Excused
<1>11. \A i \in 1 .. Whole' : Scanned(i)' /\ "par" \in text'[i] /\ OnePiece(i, Whole + 1)' => chain'
  <2>1. ASSUME NEW i, OnePiece(i, Whole + 1)' PROVE \A k \in i .. n + 1 : "semicolon" \notin text'[k]
    BY <2>1, <1>2 DEF OnePiece
  <2> QED
    BY <1>2, <1>9, <2>1
<1> QED
  BY <1>2, <1>6, <1>10, <1>11 DEF CodeInv

(***************************************************************************)
(* The lock file.                                                          *)
(***************************************************************************)
LEMMA LockStep ==
  ASSUME PolicyInv, outcome = "reading", NEW line \in LockLines, ScanLock(line)
  PROVE  LockInv'
<1>1. Grows(line)
  BY LineComes DEF PolicyInv, ScanLock, Read
<1> PICK n \in Nat : n = Whole
  BY <1>1 DEF Grows
<1>2. /\ n = Whole /\ Whole' = n + 1 /\ text'[n + 1] = line
      /\ \A i \in 1 .. n : text'[i] = text[i]
  BY <1>1 DEF Grows
<1>3. LockInv /\ inPackage \in BOOLEAN /\ violated \in BOOLEAN
  BY DEF PolicyInv, ScanLock
<1>4. ASSUME NEW h \in 1 .. n + 1, text'[h].kind = "[[package]]" PROVE inPackage'
  <2>1. CASE h = n + 1
    BY <2>1, <1>2, <1>4 DEF ScanLock
  <2>2. CASE h \in 1 .. n
    BY <2>2, <1>2, <1>3, <1>4 DEF LockInv, ScanLock
  <2> QED
    BY <2>1, <2>2
<1>5. ASSUME ~violated', NEW i \in 1 .. n + 1, text'[i].kind = "name",
             NEW h \in 1 .. i, text'[h].kind = "[[package]]"
      PROVE  text'[i].package \notin Native
  <2>1. CASE i \in 1 .. n
    <3>1. text'[h] = text[h] /\ text'[i] = text[i] /\ PackagesArePure
      BY <2>1, <1>2, <1>3, <1>5 DEF LockInv, ScanLock
    <3> QED
      BY <3>1, <2>1, <1>2, <1>5 DEF PackagesArePure, Whole
  <2>2. CASE i = n + 1
    <3>1. h # n + 1
      BY <2>2, <1>5, <1>2
    <3>2. inPackage
      BY <3>1, <2>2, <1>2, <1>3, <1>5 DEF LockInv
    <3> QED
      BY <3>2, <2>2, <1>2, <1>5 DEF ScanLock
  <2> QED
    BY <2>1, <2>2
<1> QED
  BY <1>2, <1>4, <1>5 DEF LockInv, PackagesArePure, Whole

(***************************************************************************)
(* Manifests.                                                              *)
(***************************************************************************)
\* The section that the scan takes a header for is the one it opens.
LEMMA ClassOfName ==
  ASSUME NEW line \in ManifestLines, IsHeader(line)
  PROVE  LET name == line.name
             last == Len(name)
         IN  /\ last \in Nat /\ last > 0
             /\ name[last] \in Lists => Classify(name) = "list"
             /\ last > 1 /\ name[last - 1] \in Lists => Classify(name) = "table" /\ name[last] \notin Lists
             /\ name = <<"package">> => Classify(name) = "package"
             /\ Classify(name) = "table" => last > 1 /\ name[last - 1] \in Lists
<1> DEFINE name == line.name
           last == Len(name)
<1>1. /\ name \in Seq(STRING) /\ name # <<>>
      /\ DependencySection(name) \/ \A i \in DOMAIN name : name[i] \notin Lists
  BY ManifestAssumption DEF IsHeader
<1>2. last \in Nat /\ last > 0 /\ DOMAIN name = 1 .. last
  BY <1>1
<1>3. "package" \notin Lists /\ "workspace" \notin Lists /\ "target" \notin Lists
  BY DEF Lists
<1>4. name = <<"package">> => last = 1 /\ name[1] = "package"
  BY <1>2
<1> HIDE DEF name, last
<1>5. CASE \A i \in 1 .. last : name[i] \notin Lists
  <2>1. ~InList(name) /\ ~OwnTable(name)
    BY <1>2, <1>5 DEF InList, OwnTable, last
  <2> QED
    BY <1>2, <1>5, <2>1 DEF Classify, name, last
<1>6. CASE DependencySection(name)
  <2>1. PICK k \in 1 .. last :
          /\ {i \in 1 .. last : name[i] \in Lists} = {k} /\ last \in {k, k + 1}
          /\ k = 1 \/ (k = 2 /\ name[1] = "workspace") \/ (k = 3 /\ name[1] = "target")
    BY <1>2, <1>6 DEF DependencySection, last
  <2>2. name[k] \in Lists /\ \A i \in 1 .. last : name[i] \in Lists => i = k
    BY <2>1
  <2>3. CASE last = k
    <3>1. InList(name) /\ name # <<"package">>
      BY <1>3, <1>4, <2>1, <2>2, <2>3, <1>2 DEF InList, last
    <3>2. ~OwnTable(name)
      BY <1>2, <1>3, <2>1, <2>2, <2>3 DEF OwnTable, last
    <3>3. Classify(name) = "list"
      BY <3>1, <3>2 DEF Classify
    <3> QED
      BY <3>1, <3>3, <2>2, <2>3, <1>2 DEF name, last
  <2>4. CASE last = k + 1
    <3>1. ~InList(name) /\ OwnTable(name) /\ name # <<"package">>
      BY <1>3, <1>4, <2>1, <2>2, <2>4, <1>2 DEF InList, OwnTable, last
    <3>2. Classify(name) = "table"
      BY <3>1 DEF Classify
    <3> QED
      BY <3>1, <3>2, <2>2, <2>4, <1>2 DEF name, last
  <2> QED
    BY <2>1, <2>3, <2>4
<1> QED
  BY <1>1, <1>2, <1>5, <1>6

\* A line goes under the current header.
LEMMA UnderGrows ==
  ASSUME NEW line, Grows(line), NEW n, n = Whole
  PROVE  /\ Headers \subseteq 1 .. n
         /\ Headers' = IF IsHeader(line) THEN Headers \cup {n + 1} ELSE Headers
         /\ \A h \in Headers :
              Under(h)' = IF IsEntry(line) /\ ~IsHeader(line) /\ Current(h)
                          THEN Under(h) \cup {n + 1} ELSE Under(h)
         /\ \A h \in Headers : Under(h) \subseteq (h + 1) .. n
         /\ Under(n + 1)' = {}
<1>1. /\ n \in Nat /\ n = Whole /\ Whole' = n + 1 /\ text'[n + 1] = line
      /\ \A i \in 1 .. n : text'[i] = text[i]
  BY DEF Grows
<1>2. Headers = {i \in 1 .. n : IsHeader(text[i])} /\ Headers' = {i \in 1 .. n + 1 : IsHeader(text'[i])}
  BY <1>1 DEF Headers, Whole, IsHeader
<1>3. Headers' = IF IsHeader(line) THEN Headers \cup {n + 1} ELSE Headers
  BY <1>1, <1>2
<1>4. ASSUME NEW h \in Headers
      PROVE  Under(h) = {i \in (h + 1) .. n : IsEntry(text[i]) /\ (h + 1) .. i \cap Headers = {}}
  BY <1>1 DEF Under, Whole
<1>5. ASSUME NEW h \in Headers
      PROVE  Under(h)' = IF IsEntry(line) /\ ~IsHeader(line) /\ Current(h)
                         THEN Under(h) \cup {n + 1} ELSE Under(h)
  <2>1. Under(h)' = {i \in (h + 1) .. n + 1 : IsEntry(text'[i]) /\ (h + 1) .. i \cap Headers' = {}}
    BY <1>1 DEF Under, Whole, IsEntry
  <2>2. h \in 1 .. n
    BY <1>2
  <2>3. ASSUME NEW i \in (h + 1) .. n PROVE i \in Under(h)' <=> i \in Under(h)
    <3>1. (h + 1) .. i \cap Headers' = (h + 1) .. i \cap Headers
      BY <1>1, <1>3, <2>3, <2>2
    <3> QED
      BY <1>1, <1>4, <2>1, <2>2, <2>3, <3>1
  <2>4. n + 1 \in Under(h)' <=> IsEntry(line) /\ ~IsHeader(line) /\ Current(h)
    <3>1. (h + 1) .. (n + 1) \cap Headers' = {} <=> ~IsHeader(line) /\ \A i \in Headers : i <= h
      BY <1>1, <1>2, <1>3, <2>2
    <3> QED
      BY <1>1, <2>1, <2>2, <3>1 DEF Current
  <2>5. n + 1 \notin Under(h) /\ Under(h) \subseteq (h + 1) .. n /\ Under(h)' \subseteq (h + 1) .. n + 1
    BY <1>1, <1>4, <2>1, <2>2
  <2>6. \A i \in (h + 1) .. n + 1 : i \in (h + 1) .. n \/ i = n + 1
    BY <1>1, <2>2
  <2> QED
    BY <2>3, <2>4, <2>5, <2>6
<1>6. Under(n + 1)' = {}
  <2>1. n + 1 = Whole' /\ Len(text') = Whole'
    BY <1>1 DEF Whole
  <2>2. Under(n + 1)' = {i \in (n + 1 + 1) .. n + 1 : IsEntry(text'[i]) /\ (n + 1 + 1) .. i \cap Headers' = {}}
    BY <1>1, <2>1 DEF Under, IsEntry
  <2> QED
    BY <2>2, <1>1
<1> QED
  BY <1>2, <1>3, <1>4, <1>5, <1>6

\* The table that was open has a source or a version when nothing is wrong with it.
LEMMA OpenTableIsSourced ==
  ASSUME PolicyInv, outcome = "reading", file \in Manifests, ~violated, ~Unpinned,
         NEW h \in Headers, IsTable(h)
  PROVE  Sourced(h)
<1>1. ManifestInv
  BY DEF PolicyInv
<1>2. CASE Current(h)
  <2>1. text[h] \in ManifestLines /\ IsHeader(text[h])
    BY <1>1 DEF ManifestInv, Headers, Whole
  <2>2. Classify(text[h].name) = "table"
    BY <2>1, ClassOfName DEF IsTable
  <2>3. table.open
    BY <1>1, <1>2, <2>2 DEF ManifestInv
  <2>4. table.source \/ table.version
    BY <2>3 DEF Unpinned
  <2> QED
    BY <1>1, <1>2, <2>4 DEF ManifestInv, Sourced
<1>3. CASE ~Current(h)
  BY <1>1, <1>3 DEF ManifestInv
<1> QED
  BY <1>2, <1>3

LEMMA ManifestStep ==
  ASSUME PolicyInv, outcome = "reading", NEW line \in ManifestLines, ScanManifest(line)
  PROVE  ManifestInv'
<1>1. Grows(line)
  BY LineComes DEF PolicyInv, ScanManifest, Read
<1> PICK n \in Nat : n = Whole
  BY <1>1 DEF Grows
<1>2. /\ n = Whole /\ Whole' = n + 1 /\ text'[n + 1] = line
      /\ \A i \in 1 .. n : text'[i] = text[i]
  BY <1>1 DEF Grows
<1>3. /\ ManifestInv /\ violated \in BOOLEAN /\ file \in Manifests
      /\ table \in [source : BOOLEAN, version : BOOLEAN, open : BOOLEAN]
  BY DEF PolicyInv, ScanManifest
<1>4. /\ Headers \subseteq 1 .. n
      /\ Headers' = IF IsHeader(line) THEN Headers \cup {n + 1} ELSE Headers
      /\ \A h \in Headers :
           Under(h)' = IF IsEntry(line) /\ ~IsHeader(line) /\ Current(h)
                       THEN Under(h) \cup {n + 1} ELSE Under(h)
      /\ \A h \in Headers : Under(h) \subseteq (h + 1) .. n
      /\ Under(n + 1)' = {}
  BY <1>1, <1>2, UnderGrows
<1>5. \A i \in 1 .. Whole' : text'[i] \in ManifestLines
  BY <1>2, <1>3 DEF ManifestInv
<1>6. violated => violated'
  BY DEF ScanManifest, EnterSection, PackageEntry, ListEntry, TableEntry, OtherLine
\* What is under a header of before keeps its text.
<1>7. ASSUME NEW h \in Headers
      PROVE  /\ text'[h] = text[h]
             /\ \A i \in Under(h) : text'[i] = text[i] /\ Settled(i)' = Settled(i)
             /\ IsTable(h)' = IsTable(h)
             /\ Sourced(h) => Sourced(h)'
  <2>1. h \in 1 .. n /\ text'[h] = text[h]
    BY <1>2, <1>4
  <2>2. \A i \in Under(h) : i \in 1 .. n
    BY <2>1, <1>4
  <2>3. \A i \in Under(h) : text'[i] = text[i] /\ Settled(i)' = Settled(i)
    BY <2>2, <1>2 DEF Settled, ReadRight, Pinned
  <2>4. Under(h) \subseteq Under(h)'
    BY <1>4
  <2>5. Sourced(h) => Sourced(h)'
    BY <2>3, <2>4 DEF Sourced
  <2> QED
    BY <2>1, <2>3, <2>5 DEF IsTable
\* A header comes.
<1>8. CASE IsHeader(line)
  <2>1. EnterSection(line)
    BY <1>8 DEF ScanManifest, IsHeader, IsEntry
  <2>2. Headers' = Headers \cup {n + 1} /\ \A h \in Headers : Under(h)' = Under(h)
    BY <1>4, <1>8
  <2>3. n + 1 \in Headers' /\ Headers' # {} /\ \A h \in Headers' : Current(h)' => h = n + 1
    BY <2>2, <1>4 DEF Current
  <2>4. table' = [source |-> FALSE, version |-> FALSE, open |-> section' = "table"] /\ section' = Classify(line.name)
    BY <2>1 DEF EnterSection, NoTable
  <2>5. \A h \in Headers' : Current(h)' =>
          /\ section' = Classify(text'[h].name)
          /\ table'.open = (section' = "table")
          /\ ~table'.source /\ ~table'.version
    BY <2>3, <2>4, <1>2
  <2>6. ASSUME ~violated', NEW h \in Headers'
        PROVE  EntriesOk(h)' /\ (IsTable(h)' => Current(h)' \/ Sourced(h)')
    <3>1. CASE h \in Headers
      <4>1. ~violated /\ ~Unpinned
        BY <2>1, <2>6 DEF EnterSection
      <4>2. EntriesOk(h)
        BY <3>1, <4>1, <1>3 DEF ManifestInv
      <4>3. EntriesOk(h)'
        BY <4>2, <3>1, <2>2, <1>7 DEF EntriesOk
      <4>4. IsTable(h) => Sourced(h)
        BY <4>1, <3>1, <1>3, OpenTableIsSourced
      <4> QED
        BY <4>3, <4>4, <3>1, <1>7
    <3>2. CASE h = n + 1
      <4>1. text'[h] = line /\ Under(h)' = {}
        BY <3>2, <1>2, <1>4
      <4>2. Len(line.name) > 1 /\ line.name[Len(line.name) - 1] \in Lists => line.name[Len(line.name)] \notin Native
        BY <2>1, <2>6, <2>4, <1>8, ClassOfName DEF EnterSection
      <4>3. EntriesOk(h)'
        BY <4>1, <4>2 DEF EntriesOk
      <4>4. Current(h)'
        BY <3>2, <2>2, <1>4 DEF Current
      <4> QED
        BY <4>3, <4>4
    <3> QED
      BY <3>1, <3>2, <2>2
  <2> QED
    BY <1>5, <2>3, <2>5, <2>6 DEF ManifestInv
\* An entry or a comment comes.
<1>9. CASE ~IsHeader(line)
  <2>1. section' = section /\ Headers' = Headers
    BY <1>4, <1>9 DEF ScanManifest, EnterSection
  <2>2. \/ IsEntry(line) /\ (PackageEntry(line) \/ ListEntry(line) \/ TableEntry(line))
        \/ OtherLine(line)
    BY <1>9 DEF ScanManifest, EnterSection
  <2>3. Headers' = {} => section' = "other" /\ ~table'.open
    BY <2>1, <2>2, <1>3 DEF ManifestInv, PackageEntry, ListEntry, TableEntry, OtherLine
  <2>4. \A h \in Headers' : h \in Headers /\ Current(h)' = Current(h)
    BY <2>1 DEF Current
  <2>5. table'.open = table.open
    BY <2>2, <1>3 DEF PackageEntry, ListEntry, TableEntry, OtherLine
  <2>6. ASSUME NEW h \in Headers', Current(h)'
        PROVE  /\ section' = Classify(text'[h].name)
               /\ table'.open = (section' = "table")
               /\ table'.source => \E i \in Under(h)' : text'[i].key \in {"path", "workspace"}
               /\ table'.version /\ ~violated' => \E i \in Under(h)' : text'[i].key = "version" /\ Settled(i)'
    <3>1. h \in Headers /\ Current(h)
      BY <2>4, <2>6
    <3>2. /\ section = Classify(text[h].name)
          /\ table.open = (section = "table")
          /\ table.source => \E i \in Under(h) : text[i].key \in {"path", "workspace"}
          /\ table.version /\ ~violated => \E i \in Under(h) : text[i].key = "version" /\ Settled(i)
      BY <3>1, <1>3 DEF ManifestInv
    <3>3. \A i \in Under(h) : i \in Under(h)' /\ text'[i] = text[i] /\ Settled(i)' = Settled(i)
      BY <3>1, <1>4, <1>7
    <3>4. CASE table' = table
      BY <3>1, <3>2, <3>3, <3>4, <2>1, <1>6, <1>7
    <3>5. CASE IsEntry(line) /\ TableEntry(line)
      <4>1. n + 1 \in Under(h)'
        BY <3>1, <3>5, <1>4, <1>9
      <4>2. /\ table'.source => table.source \/ line.key \in {"path", "workspace"}
            /\ table'.version => table.version \/ line.key = "version"
            /\ ~violated' /\ line.key = "version" => "=" \in line.value
        BY <3>5, <1>3 DEF TableEntry
      <4>3. "=" \in line.value => Settled(n + 1)'
        BY <1>2 DEF Settled, ReadRight, ExactVersion, Pinned
      <4>4. table'.source => \E i \in Under(h)' : text'[i].key \in {"path", "workspace"}
        BY <4>1, <4>2, <3>2, <3>3, <1>2
      <4>5. table'.version /\ ~violated' => \E i \in Under(h)' : text'[i].key = "version" /\ Settled(i)'
        BY <4>1, <4>2, <4>3, <3>2, <3>3, <1>2, <1>6
      <4> QED
        BY <4>4, <4>5, <3>1, <3>2, <2>1, <2>5, <1>7
    <3> QED
      BY <3>4, <3>5, <2>2 DEF PackageEntry, ListEntry, OtherLine
  <2>7. ASSUME ~violated', NEW h \in Headers'
        PROVE  EntriesOk(h)' /\ (IsTable(h)' => Current(h)' \/ Sourced(h)')
    <3>1. h \in Headers /\ Current(h)' = Current(h)
      BY <2>4, <2>7
    <3>2. EntriesOk(h) /\ (IsTable(h) => Current(h) \/ Sourced(h))
      BY <3>1, <2>7, <1>3, <1>6 DEF ManifestInv
    <3>3. CASE Under(h)' = Under(h)
      <4>1. EntriesOk(h)'
        BY <3>1, <3>2, <3>3, <1>7 DEF EntriesOk
      <4> QED
        BY <4>1, <3>1, <3>2, <1>7
    <3>4. CASE IsEntry(line) /\ Current(h) /\ Under(h)' = Under(h) \cup {n + 1}
      <4>1. text[h] \in ManifestLines /\ IsHeader(text[h]) /\ section = Classify(text[h].name)
        BY <3>1, <3>4, <1>3 DEF ManifestInv, Headers, Whole
      <4> DEFINE name == text[h].name
      <4>2. /\ name[Len(name)] \in Lists => section = "list"
            /\ name = <<"package">> => section = "package"
            /\ Len(name) > 1 /\ name[Len(name) - 1] \in Lists => section = "table"
        BY <4>1, ClassOfName
      <4>3. /\ section = "list" => Settled(n + 1)' /\ line.key \notin Native
            /\ section = "package" => line.key \notin {"build", "links"}
        BY <3>4, <2>2, <2>7, <1>2
           DEF PackageEntry, ListEntry, TableEntry, OtherLine, Settled, ReadRight, Pinned
      <4>4. /\ name[Len(name)] \in Lists => \A i \in Under(h)' : Settled(i)' /\ text'[i].key \notin Native
            /\ name = <<"package">> => \A i \in Under(h)' : text'[i].key \notin {"build", "links"}
            /\ Len(name) > 1 /\ name[Len(name) - 1] \in Lists => name[Len(name)] \notin Native
        BY <4>2, <4>3, <3>1, <3>2, <3>4, <1>2, <1>7 DEF EntriesOk
      <4>5. EntriesOk(h)'
        BY <4>4, <3>1, <1>7 DEF EntriesOk
      <4> QED
        BY <4>5, <3>1, <3>4
    <3> QED
      BY <3>1, <3>3, <3>4, <1>4
  <2> QED
    BY <1>5, <2>3, <2>6, <2>7 DEF ManifestInv
<1> QED
  BY <1>8, <1>9

LEMMA PolicyStarts ==
  ASSUME PolicyInit
  PROVE  PolicyInv
<1>1. 1 .. Whole = {} /\ 1 .. Len(text) = {}
  <2>1. Len(<<>>) = 0 /\ 1 .. 0 = {}
    OBVIOUS
  <2> QED
    BY <2>1, Zenon DEF PolicyInit, Whole
<1>2. text \in Seq(CodeLines \cup ManifestLines \cup LockLines)
  <2>1. <<>> \in Seq(CodeLines \cup ManifestLines \cup LockLines)
    OBVIOUS
  <2> QED
    BY <2>1, Zenon DEF PolicyInit
<1>3. /\ inTable = FALSE /\ chain = FALSE /\ inPackage = FALSE /\ outcome = "reading" /\ section = "other"
      /\ table = [source |-> FALSE, version |-> FALSE, open |-> FALSE]
      /\ violated = (file = "no Cargo.lock") /\ file \in PolicyFiles \cup {Lock, "no Cargo.lock"}
  BY DEF PolicyInit, NoTable
<1> HIDE DEF Whole
<1>4. CodeInv
  BY ONLY <1>1, <1>3 DEF CodeInv, CodeIsClean
<1>5. LockInv
  BY ONLY <1>1, <1>3 DEF LockInv, PackagesArePure
<1>6. Headers = {}
  BY ONLY <1>1 DEF Headers
<1>7. ManifestInv
  BY ONLY <1>1, <1>3, <1>6 DEF ManifestInv
<1>8. PassedFilesAreClean
  BY ONLY <1>3 DEF PassedFilesAreClean
<1> QED
  BY ONLY <1>2, <1>3, <1>4, <1>5, <1>7, <1>8 DEF PolicyInv

LEMMA PassedIsClean ==
  ASSUME PolicyInv, Finish, outcome' = "passed"
  PROVE  PassedFilesAreClean'
<1>1. ~violated /\ UNCHANGED <<text, file>> /\ outcome = "reading"
  BY DEF Finish
<1>2. CASE file = Lock
  <2>1. PackagesArePure
    BY <1>1, <1>2 DEF PolicyInv, LockInv
  <2>2. PackagesArePure' /\ file' = Lock
    BY <2>1, <1>1, <1>2 DEF PackagesArePure
  <2>3. file' \notin PolicyFiles
    BY <2>2 DEF PolicyFiles, Manifests, Lock, Root, Quant
  <2> QED
    BY <2>2, <2>3 DEF PassedFilesAreClean, PolicyFiles
<1>3. CASE file \in Manifests
  <2>1. ~Unpinned /\ ~LintViolated /\ ManifestInv
    BY <1>1, <1>3 DEF Finish, PolicyInv
  <2>2. ASSUME NEW h \in Headers
        PROVE  EntriesOk(h) /\ (IsTable(h) => Sourced(h))
    BY <1>1, <1>3, <2>1, OpenTableIsSourced DEF ManifestInv
  <2>3. DependenciesArePinned
    BY <2>2 DEF DependenciesArePinned, EntriesOk, IsTable, Sourced
  <2>4. DependenciesArePinned'
    <3>1. Headers' = Headers /\ (\A h : Under(h)' = Under(h)) /\ (\A i : Settled(i)' = Settled(i))
      BY <1>1 DEF Headers, Under, Settled, ReadRight, Pinned
    <3> QED
      BY <2>3, <3>1, <1>1 DEF DependenciesArePinned
  <2>5. file' \in Manifests /\ file' # Lock
    BY <1>1, <1>3 DEF Manifests, Lock, Root, Quant
  <2> QED
    BY <2>4, <2>5 DEF PassedFilesAreClean
<1>4. CASE file \in PolicyFiles \ Manifests
  <2>1. file' \in PolicyFiles \ Manifests /\ file' # Lock /\ CodeFile
    BY <1>1, <1>4 DEF PolicyFiles, Manifests, Lock, Root, Quant, CodeFile
  <2>2. CodeIsClean
    BY <2>1, <1>1 DEF PolicyInv, CodeInv
  <2>3. CodeIsClean'
    BY <2>2, <1>1 DEF CodeIsClean, InDefinition, NamedElsewhere, OnePiece
  <2> QED
    BY <2>1, <2>3 DEF PassedFilesAreClean
<1> QED
  BY <1>1, <1>2, <1>3, <1>4 DEF PolicyInv

LEMMA PolicyStep ==
  ASSUME PolicyInv, [PolicyNext]_policyVars
  PROVE  PolicyInv'
<1>1. ASSUME NEW line \in CodeLines, ScanCode(line) PROVE PolicyInv'
  <2>1. CodeInv' /\ text' \in Seq(CodeLines \cup ManifestLines \cup LockLines)
    BY <1>1, CodeStep, LineComes DEF PolicyInv, ScanCode, Read
  <2>2. /\ file' = file /\ outcome' = outcome /\ outcome = "reading" /\ table' = table /\ inPackage' = inPackage
        /\ file \notin Manifests /\ file # Lock /\ file # "no Cargo.lock"
    BY <1>1 DEF ScanCode, Read
  <2>3. inTable' \in BOOLEAN /\ chain' \in BOOLEAN /\ violated' \in BOOLEAN
    BY <1>1 DEF PolicyInv, ScanCode, SkipTable, Allowed, Statement
  <2> QED
    BY <2>1, <2>2, <2>3 DEF PolicyInv, PassedFilesAreClean
<1>2. ASSUME NEW line \in ManifestLines, ScanManifest(line) PROVE PolicyInv'
  <2>1. ManifestInv' /\ text' \in Seq(CodeLines \cup ManifestLines \cup LockLines)
    BY <1>2, ManifestStep, LineComes DEF PolicyInv, ScanManifest, Read
  <2>2. /\ file' = file /\ outcome' = outcome /\ outcome = "reading" /\ inTable' = inTable /\ chain' = chain
        /\ inPackage' = inPackage /\ file \in Manifests /\ file # Lock /\ file # "no Cargo.lock"
    BY <1>2 DEF ScanManifest, Read, Manifests, Lock, Root, Quant
  <2>3. violated' \in BOOLEAN /\ table' \in [source : BOOLEAN, version : BOOLEAN, open : BOOLEAN]
    BY <1>2 DEF PolicyInv, ScanManifest, EnterSection, PackageEntry, ListEntry, TableEntry, OtherLine, NoTable
  <2> QED
    BY <2>1, <2>2, <2>3 DEF PolicyInv, PassedFilesAreClean, CodeFile
<1>3. ASSUME NEW line \in LockLines, ScanLock(line) PROVE PolicyInv'
  <2>1. LockInv' /\ text' \in Seq(CodeLines \cup ManifestLines \cup LockLines)
    BY <1>3, LockStep, LineComes DEF PolicyInv, ScanLock, Read
  <2>2. /\ file' = file /\ outcome' = outcome /\ outcome = "reading" /\ inTable' = inTable /\ chain' = chain
        /\ table' = table /\ file \notin Manifests /\ file = Lock /\ file # "no Cargo.lock"
    BY <1>3 DEF ScanLock, Read, Manifests, Lock, Root, Quant
  <2>3. violated' \in BOOLEAN /\ inPackage' \in BOOLEAN
    BY <1>3 DEF PolicyInv, ScanLock
  <2> QED
    BY <2>1, <2>2, <2>3 DEF PolicyInv, PassedFilesAreClean, CodeFile
<1>4. CASE Finish
  <2>1. PassedFilesAreClean'
    BY <1>4, PassedIsClean DEF PassedFilesAreClean
  <2>2. outcome' # "reading" /\ UNCHANGED <<file, text, inTable, chain, section, table, inPackage, violated>>
    BY <1>4 DEF Finish
  <2> QED
    BY <2>1, <2>2 DEF PolicyInv
<1>5. CASE UNCHANGED policyVars
  <2>1. UNCHANGED <<file, text, inTable, chain, section, table, inPackage, violated, outcome>>
    BY <1>5 DEF policyVars
  <2>2. /\ CodeInv' = CodeInv /\ LockInv' = LockInv
        /\ CodeIsClean' = CodeIsClean /\ PackagesArePure' = PackagesArePure
    BY <2>1 DEF CodeInv, LockInv, CodeIsClean, PackagesArePure, Whole, Scanned, Excused, InDefinition, NamedElsewhere,
                   OnePiece
  <2>3. /\ Whole' = Whole /\ Headers' = Headers /\ (\A h : Under(h)' = Under(h)) /\ (\A i : Settled(i)' = Settled(i))
    BY <2>1 DEF Whole, Headers, Under, Settled, ReadRight, Pinned
  <2>4. ASSUME NEW h
        PROVE  Current(h)' = Current(h) /\ EntriesOk(h)' = EntriesOk(h) /\ Sourced(h)' = Sourced(h) /\ IsTable(h)' = IsTable(h)
    <3>1. text' = text /\ Under(h)' = Under(h)
      BY <2>1, <2>3
    <3>2. Current(h)' = Current(h) /\ IsTable(h)' = IsTable(h)
      BY <2>3, <3>1 DEF Current, IsTable
    <3>3. EntriesOk(h)' = EntriesOk(h)
      BY <2>3, <3>1, Zenon DEF EntriesOk
    <3>4. Sourced(h)' = Sourced(h)
      BY <2>3, <3>1, Zenon DEF Sourced
    <3> QED
      BY <3>2, <3>3, <3>4
  <2>5. ManifestInv' = ManifestInv /\ DependenciesArePinned' = DependenciesArePinned
    BY <2>1, <2>3, <2>4 DEF ManifestInv, DependenciesArePinned
  <2>6. PassedFilesAreClean' = PassedFilesAreClean
    BY <2>1, <2>2, <2>3, <2>5 DEF PassedFilesAreClean
  <2>7. CodeFile' = CodeFile
    BY <2>1 DEF CodeFile
  <2> QED
    BY <2>1, <2>2, <2>5, <2>6, <2>7 DEF PolicyInv
<1> QED
  BY <1>1, <1>2, <1>3, <1>4, <1>5 DEF PolicyNext

(***************************************************************************)
(* However long a file is that check-determinism passes, and whatever its  *)
(* lines are, the state that each scan carries from line to line loses     *)
(* nothing that counts: up to the first line that names the table of       *)
(* banned constructs without defining it no banned construct and no        *)
(* reduction before a semicolon is missed, every dependency whose text     *)
(* says what it is is pinned or local, and no package builds native code.  *)
(***************************************************************************)
THEOREM PassedFilesAreCleanTheorem == PolicySpec => []PassedFilesAreClean
<1>1. PolicyInv => PassedFilesAreClean
  BY DEF PolicyInv
<1> QED
  BY <1>1, PolicyStarts, PolicyStep, PTL DEF PolicySpec

-----------------------------------------------------------------------------
(***************************************************************************)
(* The options of the commands.                                            *)
(***************************************************************************)
LEMMA KindsOfBenchFile ==
  /\ DOMAIN Options["bench-file"] =
       {"--model", "--input", "--limit-bytes", "--limit-tokens", "--threads", "--progress-every", "--checkpoint-every",
        "--n-ctx", "--iters", "--summary", "--output-dtlz", "--verify-dtlz", "--checkpoint", "--progress-summary",
        "--no-warmup", "--encode-only", "--show-phases", "--estimate-full-run"}
  /\ \A o \in {"--model", "--input"} : Options["bench-file"][o] = "text"
  /\ \A o \in {"--limit-bytes", "--limit-tokens", "--threads", "--progress-every", "--checkpoint-every"} :
       Options["bench-file"][o] = "positive"
  /\ \A o \in {"--n-ctx", "--iters"} : Options["bench-file"][o] = "number"
  /\ \A o \in {"--summary", "--output-dtlz", "--verify-dtlz", "--checkpoint", "--progress-summary"} :
       Options["bench-file"][o] = "nonempty"
  /\ \A o \in {"--no-warmup", "--encode-only", "--show-phases", "--estimate-full-run"} : Options["bench-file"][o] = "flag"
<1> DEFINE K == [text |-> {"--model", "--input"},
   positive |-> {"--limit-bytes", "--limit-tokens", "--threads", "--progress-every", "--checkpoint-every"},
   number |-> {"--n-ctx", "--iters"},
   nonempty |-> {"--summary", "--output-dtlz", "--verify-dtlz", "--checkpoint", "--progress-summary"},
   flag |-> {"--no-warmup", "--encode-only", "--show-phases", "--estimate-full-run"}]
<1>1. Kinds("bench-file") = K
  BY DEF Kinds, BenchFileOptions
<1>2. DOMAIN K = {"text", "positive", "number", "nonempty", "flag"}
  OBVIOUS
<1>3. Options["bench-file"] = OptionsOf("bench-file")
  BY DEF Options
<1>4. OptionsOf("bench-file") = [o \in UNION { K[kind] : kind \in DOMAIN K } |-> CHOOSE kind \in DOMAIN K : o \in K[kind]]
  BY <1>1 DEF OptionsOf
<1>5. QED
  BY <1>2, <1>3, <1>4

LEMMA KindOfRowSize == "--row-size" \in DOMAIN Options["compare-logits"] /\ Options["compare-logits"]["--row-size"] = "positive"
<1>1. Options["compare-logits"] = OptionsOf("compare-logits")
  BY DEF Options
<1>2. "--row-size" \in DOMAIN OptionsOf("compare-logits") /\ OptionsOf("compare-logits")["--row-size"] = "positive"
  BY DEF OptionsOf, Kinds
<1>3. QED
  BY <1>1, <1>2

(***************************************************************************)
(* What is given to an option above 0 is not 0.                            *)
(***************************************************************************)
OptInv ==
  /\ DOMAIN opts = DOMAIN Options[command]
  /\ \A o \in DOMAIN opts : Options[command][o] = "positive" => opts[o] # "0"
  /\ pending # NoOption => pending \in DOMAIN opts
  /\ status = "accepted" => Complete

LEMMA OptInvInit == OptionsInit => OptInv
<1> SUFFICES ASSUME OptionsInit PROVE OptInv
  OBVIOUS
<1>1. PICK first : opts = [o \in DOMAIN Options[command] |-> IF o \in first THEN "path" ELSE NotGiven]
  BY DEF OptionsInit
<1>2. \A o \in DOMAIN opts : opts[o] \in {"path", NotGiven}
  BY <1>1
<1>3. QED
  BY <1>1, <1>2 DEF OptionsInit, OptInv, NotGiven

LEMMA OptInvStep == OptInv /\ [OptionsNext]_optionVars => OptInv'
<1> SUFFICES ASSUME OptInv, [OptionsNext]_optionVars PROVE OptInv'
  OBVIOUS
<1>1. ASSUME NEW arg, TakeOption(arg) PROVE OptInv'
  <2>1. command' = command /\ status = "parsing" /\ status' \in {"parsing", "error"}
    BY <1>1 DEF TakeOption, NextArg
  <2>2. PICK option : option = Option(command, arg)
    OBVIOUS
  <2>3. option = NoOption \/ option \in DOMAIN opts
    BY <2>2 DEF Option, OptInv
  <2>4. \/ opts' = opts /\ pending' = pending
        \/ option \in DOMAIN opts /\ opts' = [opts EXCEPT ![option] = "given"] /\ pending' = pending
        \/ option \in DOMAIN opts /\ opts' = opts /\ pending' = option
    BY <1>1, <2>2, <2>3 DEF TakeOption
  <2>5. QED
    BY <2>1, <2>4 DEF OptInv
<1>2. ASSUME NEW arg, TakeValue(arg) PROVE OptInv'
  <2>1. command' = command /\ status = "parsing" /\ status' \in {"parsing", "error"} /\ pending' = NoOption
        /\ pending \in DOMAIN opts
    BY <1>2 DEF TakeValue, NextArg, OptInv
  <2>2. \/ opts' = opts
        \/ opts' = [opts EXCEPT ![pending] = arg] /\ (Options[command][pending] = "positive" => arg # "0")
    BY <1>2 DEF TakeValue, Valid
  <2>3. QED
    BY <2>1, <2>2 DEF OptInv
<1>3. ASSUME EndOfArgs PROVE OptInv'
  <2>1. /\ command' = command /\ opts' = opts /\ pending' = pending
        /\ status' = "accepted" => Complete
    BY <1>3 DEF EndOfArgs
  <2>2. Complete => Complete'
    BY <2>1 DEF Complete, BenchFileOk, Has
  <2>3. QED
    BY <2>1, <2>2 DEF OptInv
<1>4. ASSUME MissingValue PROVE OptInv'
  <2>1. command' = command /\ status' \in {"ended", "error"} /\ pending' = NoOption /\ pending \in DOMAIN opts
    BY <1>4 DEF MissingValue, OptInv
  <2>2. opts' = opts \/ opts' = [opts EXCEPT ![pending] = NotGiven]
    BY <1>4 DEF MissingValue
  <2>3. QED
    BY <2>1, <2>2 DEF OptInv, NotGiven
<1>5. ASSUME UNCHANGED optionVars PROVE OptInv'
  BY <1>5 DEF OptInv, optionVars, Complete, BenchFileOk, Has
<1>6. QED
  BY <1>1, <1>2, <1>3, <1>4, <1>5 DEF OptionsNext

LEMMA AcceptedIsUsable == OptInv /\ status = "accepted" => Usable
<1> SUFFICES ASSUME OptInv, status = "accepted" PROVE Usable
  OBVIOUS
<1>1. Complete
  BY DEF OptInv
<1>2. ASSUME command = "bench-file"
      PROVE  /\ opts["--progress-every"] # "0" /\ opts["--checkpoint-every"] # "0"
             /\ Has("--checkpoint") => Has("--checkpoint-every") /\ Has("--output-dtlz")
             /\ Has("--output-dtlz") \/ Has("--verify-dtlz") => opts["--iters"] \notin {"0", "2"}
             /\ Has("--verify-dtlz") => \A o \in {"--output-dtlz", "--checkpoint", "--encode-only", "--estimate-full-run"} : ~Has(o)
  <2>1. opts["--progress-every"] # "0" /\ opts["--checkpoint-every"] # "0"
    BY <1>2, KindsOfBenchFile DEF OptInv
  <2>2. BenchFileOk
    BY <1>1, <1>2 DEF Complete
  <2>3. QED
    BY <2>1, <2>2 DEF BenchFileOk, NotGiven
<1>3. command = "tokenize" => ~(Has("--prompt") /\ Has("--input"))
  BY <1>1 DEF Complete, Has
<1>4. command = "logits" => Has("--tokens") # Has("--prompt")
  BY <1>1 DEF Complete
<1>5. ASSUME command = "compare-logits" PROVE opts["--row-size"] # "0" /\ (Has("--rows") => Has("--row-size"))
  <2>1. opts["--row-size"] # "0"
    BY <1>5, KindOfRowSize DEF OptInv
  <2>2. QED
    BY <1>1, <1>5, <2>1 DEF Complete
<1>6. QED
  BY <1>2, <1>3, <1>4, <1>5 DEF Usable

(***************************************************************************)
(* What a script passes on: every option has its value behind it, and what *)
(* is behind a value or a flag is an option.                               *)
(***************************************************************************)
BenchOptions == DOMAIN Options["bench-file"]
TakesValue(o) == o \in BenchOptions /\ Options["bench-file"][o] # "flag"
IsValue(o, v) ==
  /\ v \notin BenchOptions /\ v # NotGiven /\ Valid(Options["bench-file"][o], v)
  /\ o = "--iters" => v = "1"
InPairs(s) ==
  \A i \in 1 .. Len(s) :
    IF TakesValue(s[i]) THEN i < Len(s) /\ IsValue(s[i], s[i + 1]) ELSE i < Len(s) => s[i + 1] \in BenchOptions
Starts(s) == s = <<>> \/ s[1] \in BenchOptions
Members(s) == { s[i] : i \in DOMAIN s }

LEMMA PairsConcat ==
  ASSUME NEW S, NEW s \in Seq(S), NEW t \in Seq(S), InPairs(s), Starts(s), InPairs(t), Starts(t)
  PROVE  /\ s \o t \in Seq(S) /\ InPairs(s \o t) /\ Starts(s \o t)
         /\ \A o : o \in Members(s \o t) <=> o \in Members(s) \/ o \in Members(t)
<1>1. PICK u : u = s \o t
  OBVIOUS
<1>2. /\ u \in Seq(S) /\ Len(u) = Len(s) + Len(t)
      /\ \A i \in 1 .. Len(s) : u[i] = s[i]
      /\ \A i \in 1 .. Len(t) : u[Len(s) + i] = t[i]
  BY <1>1
<1>3. PICK m \in Nat, n \in Nat : m = Len(s) /\ n = Len(t)
  OBVIOUS
<1>4. ASSUME NEW i \in 1 .. m + n, i > m PROVE i - m \in 1 .. n /\ u[i] = t[i - m]
  <2>1. i - m \in 1 .. n /\ m + (i - m) = i
    BY <1>4
  <2>2. QED
    BY <1>2, <1>3, <2>1
<1>5. InPairs(u)
  <2> SUFFICES ASSUME NEW i \in 1 .. m + n
               PROVE  IF TakesValue(u[i]) THEN i < m + n /\ IsValue(u[i], u[i + 1]) ELSE i < m + n => u[i + 1] \in BenchOptions
    BY <1>2, <1>3 DEF InPairs
  <2>1. CASE i < m
    <3>1. u[i] = s[i] /\ u[i + 1] = s[i + 1] /\ i \in 1 .. m
      BY <1>2, <1>3, <2>1
    <3>2. IF TakesValue(s[i]) THEN i < m /\ IsValue(s[i], s[i + 1]) ELSE i < m => s[i + 1] \in BenchOptions
      BY <1>3, <3>1 DEF InPairs
    <3>3. QED
      BY <2>1, <3>1, <3>2
  <2>2. CASE i = m
    <3>1. u[i] = s[i] /\ i \in 1 .. m
      BY <1>2, <1>3, <2>2
    <3>2. ~ TakesValue(s[i])
      BY <1>3, <2>2, <3>1 DEF InPairs
    <3>3. i < m + n => u[i + 1] = t[1] /\ t # <<>>
      <4>1. i < m + n => i + 1 \in 1 .. m + n /\ i + 1 > m /\ (i + 1) - m = 1
        BY <2>2
      <4>2. i < m + n => u[i + 1] = t[(i + 1) - m]
        BY <1>4, <4>1
      <4>3. QED
        BY <1>3, <2>2, <4>1, <4>2
    <3>4. QED
      BY <3>1, <3>2, <3>3 DEF Starts
  <2>3. CASE i > m
    <3>1. i - m \in 1 .. n /\ u[i] = t[i - m]
      BY <1>4, <2>3
    <3>2. IF TakesValue(t[i - m]) THEN i - m < n /\ IsValue(t[i - m], t[(i - m) + 1])
          ELSE i - m < n => t[(i - m) + 1] \in BenchOptions
      BY <1>3, <3>1 DEF InPairs
    <3>3. i < m + n => u[i + 1] = t[(i - m) + 1]
      <4>1. i < m + n => i + 1 \in 1 .. m + n /\ i + 1 > m /\ (i + 1) - m = (i - m) + 1
        BY <2>3
      <4>2. i < m + n => u[i + 1] = t[(i + 1) - m]
        BY <1>4, <4>1
      <4>3. QED
        BY <4>1, <4>2
    <3>4. QED
      BY <3>1, <3>2, <3>3
  <2>4. QED
    BY <2>1, <2>2, <2>3
<1>6. Starts(u)
  <2>1. CASE m = 0
    <3>1. n = 0 => u = <<>>
      BY <1>2, <1>3, <2>1
    <3>2. n > 0 => u[1] = t[1] /\ t # <<>>
      BY <1>2, <1>3, <2>1
    <3>3. QED
      BY <3>1, <3>2 DEF Starts
  <2>2. CASE m > 0
    <3>1. u[1] = s[1] /\ s # <<>>
      BY <1>2, <1>3, <2>2
    <3>2. QED
      BY <3>1 DEF Starts
  <2>3. QED
    BY <2>1, <2>2
<1>7. ASSUME NEW o PROVE o \in Members(u) <=> o \in Members(s) \/ o \in Members(t)
  <2>1. ASSUME NEW i \in 1 .. m PROVE s[i] \in Members(u)
    <3>1. u[i] = s[i] /\ i \in DOMAIN u
      BY <1>2, <1>3
    <3>2. QED
      BY <3>1 DEF Members
  <2>2. ASSUME NEW i \in 1 .. n PROVE t[i] \in Members(u)
    <3>1. u[m + i] = t[i] /\ m + i \in DOMAIN u
      BY <1>2, <1>3
    <3>2. QED
      BY <3>1 DEF Members
  <2>3. ASSUME NEW i \in 1 .. m + n PROVE u[i] \in Members(s) \/ u[i] \in Members(t)
    <3>1. CASE i <= m
      BY <1>2, <1>3, <3>1 DEF Members
    <3>2. CASE i > m
      <4>1. i - m \in 1 .. n /\ u[i] = t[i - m]
        BY <1>4, <3>2
      <4>2. QED
        BY <1>3, <4>1 DEF Members
    <3>3. QED
      BY <3>1, <3>2
  <2>4. QED
    <3>1. o \in Members(s) => o \in Members(u)
      BY <1>3, <2>1 DEF Members
    <3>2. o \in Members(t) => o \in Members(u)
      BY <1>3, <2>2 DEF Members
    <3>3. o \in Members(u) => o \in Members(s) \/ o \in Members(t)
      <4> SUFFICES ASSUME o \in Members(u) PROVE o \in Members(s) \/ o \in Members(t)
        OBVIOUS
      <4>1. PICK i \in 1 .. m + n : o = u[i]
        BY <1>2, <1>3 DEF Members
      <4>2. QED
        BY <2>3, <4>1
    <3>4. QED
      BY <3>1, <3>2, <3>3
<1>8. QED
  BY <1>1, <1>2, <1>5, <1>6, <1>7

Words == BenchOptions \cup {"path", "1", "2"}

\* What becomes of the values of the script: those of a limit are positive numbers.
LEMMA ValuesOfScript ==
  /\ \A v \in {"path", "1", "2"} : v \notin BenchOptions /\ v # NotGiven
  /\ \A o \in {"--model", "--input", "--summary", "--progress-summary", "--verify-dtlz", "--output-dtlz", "--checkpoint"} :
       o \in Words /\ TakesValue(o) /\ IsValue(o, "path")
  /\ \A o \in {"--limit-bytes", "--n-ctx", "--threads", "--progress-every", "--checkpoint-every"} :
       o \in Words /\ TakesValue(o) /\ IsValue(o, "2")
  /\ \A v \in {"1", "2"} : IsValue("--limit-tokens", v)
  /\ "--limit-tokens" \in Words /\ TakesValue("--limit-tokens")
  /\ "--iters" \in Words /\ TakesValue("--iters") /\ IsValue("--iters", "1")
  /\ \A o \in {"--show-phases", "--no-warmup", "--encode-only", "--estimate-full-run"} :
       o \in BenchOptions /\ o \in Words /\ ~ TakesValue(o)
<1>1. \A v \in {"path", "1", "2"} : v \notin BenchOptions /\ v # NotGiven
  BY KindsOfBenchFile DEF BenchOptions, NotGiven
<1>2. \A o \in {"--model", "--input", "--summary", "--progress-summary", "--verify-dtlz", "--output-dtlz", "--checkpoint"} :
       o \in Words /\ TakesValue(o) /\ IsValue(o, "path")
  <2>1. ASSUME NEW o \in {"--model", "--input", "--summary", "--progress-summary", "--verify-dtlz", "--output-dtlz", "--checkpoint"}
        PROVE  o \in BenchOptions /\ Options["bench-file"][o] \in {"text", "nonempty"} /\ o # "--iters"
    BY KindsOfBenchFile DEF BenchOptions
  <2>2. ASSUME NEW kind \in {"text", "nonempty"} PROVE Valid(kind, "path") /\ kind # "flag"
    BY DEF Valid
  <2>3. QED
    BY <1>1, <2>1, <2>2 DEF Words, TakesValue, IsValue
<1>3. \A o \in {"--limit-bytes", "--n-ctx", "--threads", "--progress-every", "--checkpoint-every"} :
       o \in Words /\ TakesValue(o) /\ IsValue(o, "2")
  <2>1. ASSUME NEW o \in {"--limit-bytes", "--n-ctx", "--threads", "--progress-every", "--checkpoint-every"}
        PROVE  o \in BenchOptions /\ Options["bench-file"][o] \in {"positive", "number"} /\ o # "--iters"
    BY KindsOfBenchFile DEF BenchOptions
  <2>2. ASSUME NEW kind \in {"positive", "number"} PROVE Valid(kind, "2") /\ kind # "flag"
    BY DEF Valid, Numbers
  <2>3. QED
    BY <1>1, <2>1, <2>2 DEF Words, TakesValue, IsValue
<1>4. (\A v \in {"1", "2"} : IsValue("--limit-tokens", v)) /\ "--limit-tokens" \in Words /\ TakesValue("--limit-tokens")
  <2>1. "--limit-tokens" \in BenchOptions /\ Options["bench-file"]["--limit-tokens"] = "positive"
    BY KindsOfBenchFile DEF BenchOptions
  <2>2. \A v \in {"1", "2"} : Valid("positive", v)
    BY DEF Valid, Numbers
  <2>3. QED
    BY <1>1, <2>1, <2>2 DEF Words, TakesValue, IsValue
<1>5. "--iters" \in Words /\ TakesValue("--iters") /\ IsValue("--iters", "1")
  <2>1. "--iters" \in BenchOptions /\ Options["bench-file"]["--iters"] = "number"
    BY KindsOfBenchFile DEF BenchOptions
  <2>2. Valid("number", "1")
    BY DEF Valid, Numbers
  <2>3. QED
    BY <1>1, <2>1, <2>2 DEF Words, TakesValue, IsValue
<1>6. \A o \in {"--show-phases", "--no-warmup", "--encode-only", "--estimate-full-run"} : o \in BenchOptions /\ o \in Words /\ ~ TakesValue(o)
  BY KindsOfBenchFile DEF BenchOptions, Words, TakesValue
<1>7. QED
  BY <1>1, <1>2, <1>3, <1>4, <1>5, <1>6

\* An option and its value, a flag, or nothing.
LEMMA PairIsPaired ==
  ASSUME NEW o \in Words, NEW v \in Words, TakesValue(o), IsValue(o, v)
  PROVE  <<o, v>> \in Seq(Words) /\ InPairs(<<o, v>>) /\ Starts(<<o, v>>) /\ Members(<<o, v>>) = {o, v}
<1>1. ~ TakesValue(v)
  BY DEF IsValue, TakesValue
<1>2. o \in BenchOptions
  BY DEF TakesValue
<1>3. QED
  BY <1>1, <1>2 DEF InPairs, Starts, Members

LEMMA FlagIsPaired ==
  ASSUME NEW o \in Words, o \in BenchOptions, ~ TakesValue(o)
  PROVE  <<o>> \in Seq(Words) /\ InPairs(<<o>>) /\ Starts(<<o>>) /\ Members(<<o>>) = {o}
BY DEF InPairs, Starts, Members

LEMMA NothingIsPaired == <<>> \in Seq(Words) /\ InPairs(<<>>) /\ Starts(<<>>) /\ Members(<<>>) = {}
BY DEF InPairs, Starts, Members

LEMMA FixedIsPaired ==
  /\ FixedArgs \in Seq(Words) /\ InPairs(FixedArgs) /\ Starts(FixedArgs)
  /\ {"--model", "--input"} \subseteq Members(FixedArgs)
  /\ \A o \in {"--output-dtlz", "--verify-dtlz", "--checkpoint", "--checkpoint-every", "--encode-only", "--estimate-full-run"} :
       o \notin Members(FixedArgs)
<1>1. PICK s : s = FixedArgs
  OBVIOUS
<1>2. /\ Len(s) = 19 /\ DOMAIN s = 1 .. 19
      /\ s[1] = "--model" /\ s[2] = "path" /\ s[3] = "--input" /\ s[4] = "path" /\ s[5] = "--limit-bytes" /\ s[6] = "2"
      /\ s[7] = "--n-ctx" /\ s[8] = "2" /\ s[9] = "--threads" /\ s[10] = "2" /\ s[11] = "--iters" /\ s[12] = "1"
      /\ s[13] = "--show-phases" /\ s[14] = "--summary" /\ s[15] = "path" /\ s[16] = "--progress-every" /\ s[17] = "2"
      /\ s[18] = "--progress-summary" /\ s[19] = "path"
  BY <1>1 DEF FixedArgs
<1>3. s \in Seq(Words)
  <2>1. FixedArgs \in Seq(Words)
    BY ValuesOfScript DEF FixedArgs, Words
  <2>2. QED
    BY <1>1, <2>1
<1>4. \A i \in {1, 3, 5, 7, 9, 11, 14, 16, 18} : TakesValue(s[i]) /\ s[i] \in BenchOptions /\ IsValue(s[i], s[i + 1])
  BY <1>2, ValuesOfScript DEF TakesValue
<1>5. \A i \in {2, 4, 6, 8, 10, 12, 13, 15, 17, 19} : ~ TakesValue(s[i]) /\ (i # 19 => i + 1 \in {3, 5, 7, 9, 11, 13, 14, 16, 18})
  BY <1>2, ValuesOfScript DEF TakesValue
<1>6. \A i \in {1, 3, 5, 7, 9, 11, 13, 14, 16, 18} : s[i] \in BenchOptions
  BY <1>2, <1>4, ValuesOfScript
<1>7. InPairs(s)
  <2> SUFFICES ASSUME NEW i \in 1 .. 19
               PROVE  IF TakesValue(s[i]) THEN i < 19 /\ IsValue(s[i], s[i + 1]) ELSE i < 19 => s[i + 1] \in BenchOptions
    BY <1>2 DEF InPairs
  <2>1. CASE i \in {1, 3, 5, 7, 9, 11, 14, 16, 18}
    BY <1>4, <2>1
  <2>2. CASE i \in {2, 4, 6, 8, 10, 12, 13, 15, 17, 19}
    <3>1. i # 19 => s[i + 1] \in BenchOptions
      BY <1>5, <1>6, <2>2
    <3>2. QED
      BY <1>5, <2>2, <3>1
  <2>3. QED
    BY <2>1, <2>2
<1>8. Starts(s)
  BY <1>2, <1>6 DEF Starts
<1>9. {"--model", "--input"} \subseteq Members(s)
  BY <1>2 DEF Members
<1>10. ASSUME NEW i \in 1 .. 19
       PROVE  s[i] \notin {"--output-dtlz", "--verify-dtlz", "--checkpoint", "--checkpoint-every", "--encode-only", "--estimate-full-run"}
  BY <1>2
<1>11. QED
  BY <1>1, <1>2, <1>3, <1>7, <1>8, <1>9, <1>10 DEF Members

(***************************************************************************)
(* What the script passes on, whatever it is run with.                     *)
(***************************************************************************)
Paired(s) == s \in Seq(Words) /\ InPairs(s) /\ Starts(s)

LEMMA PairedConcat ==
  ASSUME NEW s, NEW t, Paired(s), Paired(t)
  PROVE  Paired(s \o t) /\ \A o : o \in Members(s \o t) <=> o \in Members(s) \/ o \in Members(t)
BY PairsConcat DEF Paired

LEMMA FileArgs ==
  ASSUME NEW w \in Wrapped
  PROVE  \E s : /\ s = (IF w.verify_dtlz THEN <<"--verify-dtlz", "path">>
                        ELSE <<"--output-dtlz", "path", "--checkpoint", "path", "--checkpoint-every", "2">>)
                /\ Paired(s)
                /\ Members(s) \cap BenchOptions =
                     IF w.verify_dtlz THEN {"--verify-dtlz"} ELSE {"--output-dtlz", "--checkpoint", "--checkpoint-every"}
<1>1. "path" \in Words /\ "2" \in Words /\ "path" \notin BenchOptions /\ "2" \notin BenchOptions
  BY ValuesOfScript DEF Words
<1>2. \A o \in {"--verify-dtlz", "--output-dtlz", "--checkpoint"} : o \in Words /\ TakesValue(o) /\ IsValue(o, "path") /\ o \in BenchOptions
  BY ValuesOfScript DEF TakesValue
<1>3. "--checkpoint-every" \in Words /\ TakesValue("--checkpoint-every") /\ IsValue("--checkpoint-every", "2")
      /\ "--checkpoint-every" \in BenchOptions
  BY ValuesOfScript DEF TakesValue
<1>4. CASE w.verify_dtlz
  <2>1. Paired(<<"--verify-dtlz", "path">>) /\ Members(<<"--verify-dtlz", "path">>) = {"--verify-dtlz", "path"}
    BY <1>1, <1>2, PairIsPaired DEF Paired
  <2>2. {"--verify-dtlz", "path"} \cap BenchOptions = {"--verify-dtlz"}
    BY <1>1, <1>2
  <2>3. QED
    BY <1>4, <2>1, <2>2
<1>5. CASE ~ w.verify_dtlz
  <2>1. PICK s : s = <<"--output-dtlz", "path", "--checkpoint", "path", "--checkpoint-every", "2">>
    OBVIOUS
  <2>2. /\ Len(s) = 6 /\ DOMAIN s = 1 .. 6
        /\ s[1] = "--output-dtlz" /\ s[2] = "path" /\ s[3] = "--checkpoint" /\ s[4] = "path"
        /\ s[5] = "--checkpoint-every" /\ s[6] = "2"
    BY <2>1
  <2>3. s \in Seq(Words)
    BY <1>1, <1>2, <1>3, <2>1
  <2>4. \A i \in {1, 3, 5} : TakesValue(s[i]) /\ IsValue(s[i], s[i + 1]) /\ s[i] \in BenchOptions
    BY <1>2, <1>3, <2>2
  <2>5. \A i \in {2, 4, 6} : ~ TakesValue(s[i]) /\ s[i] \notin BenchOptions /\ (i # 6 => i + 1 \in {1, 3, 5})
    BY <1>1, <2>2 DEF TakesValue
  <2>6. InPairs(s)
    <3> SUFFICES ASSUME NEW i \in 1 .. 6
                 PROVE  IF TakesValue(s[i]) THEN i < 6 /\ IsValue(s[i], s[i + 1]) ELSE i < 6 => s[i + 1] \in BenchOptions
      BY <2>2 DEF InPairs
    <3>1. i \in {1, 3, 5} \/ i \in {2, 4, 6}
      OBVIOUS
    <3>2. QED
      BY <2>4, <2>5, <3>1
  <2>7. Paired(s)
    BY <2>2, <2>3, <2>4, <2>6 DEF Paired, Starts
  <2>8. Members(s) = {"--output-dtlz", "path", "--checkpoint", "--checkpoint-every", "2"}
    BY <2>2 DEF Members
  <2>9. Members(s) \cap BenchOptions = {"--output-dtlz", "--checkpoint", "--checkpoint-every"}
    BY <1>1, <1>2, <1>3, <2>8
  <2>10. QED
    BY <1>5, <2>1, <2>7, <2>9
<1>6. QED
  BY <1>4, <1>5

\* A list that may be there has what it has only if it is.
LEMMA IfPaired ==
  ASSUME NEW given \in BOOLEAN, NEW s, given => Paired(s)
  PROVE  /\ Paired(If(given, s)) /\ \A o : o \in Members(If(given, s)) <=> given /\ o \in Members(s)
<1>1. CASE given
  BY <1>1 DEF If
<1>2. CASE ~ given
  BY <1>2, NothingIsPaired DEF If, Paired
<1>3. QED
  BY <1>1, <1>2

LEMMA FlagsOfScript ==
  \A f \in {"--no-warmup", "--encode-only", "--estimate-full-run"} : Paired(<<f>>) /\ \A o : o \in Members(<<f>>) <=> o = f
<1> SUFFICES ASSUME NEW f \in {"--no-warmup", "--encode-only", "--estimate-full-run"}
             PROVE  Paired(<<f>>) /\ Members(<<f>>) = {f}
  OBVIOUS
<1>1. f \in Words /\ f \in BenchOptions /\ ~ TakesValue(f)
  BY ValuesOfScript
<1>2. QED
  BY <1>1, FlagIsPaired DEF Paired

LEMMA ScriptArgsArePaired ==
  ASSUME NEW w \in Wrapped, ScriptAccepts(w)
  PROVE  LET given == Members(ScriptArgs(w)) IN
         /\ Paired(ScriptArgs(w))
         /\ {"--model", "--input"} \subseteq given
         /\ w.verify_dtlz <=> "--verify-dtlz" \in given
         /\ \A o \in {"--output-dtlz", "--checkpoint", "--checkpoint-every"} : ~ w.verify_dtlz <=> o \in given
         /\ w.verify_dtlz => "--encode-only" \notin given /\ "--estimate-full-run" \notin given
<1> DEFINE S6 == If(w.estimate_full_run, <<"--estimate-full-run">>)
           S5 == If(w.encode_only, <<"--encode-only">>)
           S4 == If(~ w.warmup, <<"--no-warmup">>)
           S3 == If(w.limit_tokens # NotGiven, <<"--limit-tokens", w.limit_tokens>>)
           S2 == IF w.verify_dtlz THEN <<"--verify-dtlz", "path">>
                 ELSE <<"--output-dtlz", "path", "--checkpoint", "path", "--checkpoint-every", "2">>
<1>1. /\ w.limit_tokens \in {NotGiven, "1", "2"} /\ w.verify_dtlz \in BOOLEAN /\ w.encode_only \in BOOLEAN
      /\ w.estimate_full_run \in BOOLEAN /\ w.warmup \in BOOLEAN
  BY OptionsAssumption DEF NotGiven
<1>2. Paired(S6) /\ \A o : o \in Members(S6) <=> w.estimate_full_run /\ o = "--estimate-full-run"
  BY <1>1, IfPaired, FlagsOfScript
<1>3. Paired(S5) /\ \A o : o \in Members(S5) <=> w.encode_only /\ o = "--encode-only"
  BY <1>1, IfPaired, FlagsOfScript
<1>4. Paired(S4) /\ \A o : o \in Members(S4) <=> ~ w.warmup /\ o = "--no-warmup"
  BY <1>1, IfPaired, FlagsOfScript
<1>5. Paired(S3) /\ \A o : o \in Members(S3) => o \in {"--limit-tokens", "1", "2"}
  <2>1. PICK v : v = w.limit_tokens
    OBVIOUS
  <2>2. v # NotGiven => v \in {"1", "2"} /\ v \in Words /\ IsValue("--limit-tokens", v)
    BY <1>1, <2>1, ValuesOfScript DEF Words
  <2>3. v # NotGiven => Paired(<<"--limit-tokens", v>>) /\ Members(<<"--limit-tokens", v>>) = {"--limit-tokens", v}
    BY <2>2, PairIsPaired, ValuesOfScript DEF Paired
  <2>4. Paired(If(v # NotGiven, <<"--limit-tokens", v>>))
        /\ \A o : o \in Members(If(v # NotGiven, <<"--limit-tokens", v>>)) <=> v # NotGiven /\ o \in Members(<<"--limit-tokens", v>>)
    BY <2>3, IfPaired
  <2>5. QED
    BY <2>1, <2>2, <2>3, <2>4
<1>6. Paired(S2) /\ Members(S2) \cap BenchOptions =
        IF w.verify_dtlz THEN {"--verify-dtlz"} ELSE {"--output-dtlz", "--checkpoint", "--checkpoint-every"}
  BY FileArgs
<1>7. ScriptArgs(w) = ((((FixedArgs \o S2) \o S3) \o S4) \o S5) \o S6
  BY DEF ScriptArgs
<1>8. Paired(FixedArgs)
  BY FixedIsPaired DEF Paired
<1> HIDE DEF S2, S3, S4, S5, S6
<1>9. Paired(FixedArgs \o S2) /\ \A o : o \in Members(FixedArgs \o S2) <=> o \in Members(FixedArgs) \/ o \in Members(S2)
  BY <1>6, <1>8, PairedConcat
<1>10. PICK A : A = FixedArgs \o S2
  OBVIOUS
<1>11. Paired(A \o S3) /\ \A o : o \in Members(A \o S3) <=> o \in Members(A) \/ o \in Members(S3)
  BY <1>5, <1>9, <1>10, PairedConcat
<1>12. PICK B : B = A \o S3
  OBVIOUS
<1>13. Paired(B \o S4) /\ \A o : o \in Members(B \o S4) <=> o \in Members(B) \/ o \in Members(S4)
  BY <1>4, <1>11, <1>12, PairedConcat
<1>14. PICK C : C = B \o S4
  OBVIOUS
<1>15. Paired(C \o S5) /\ \A o : o \in Members(C \o S5) <=> o \in Members(C) \/ o \in Members(S5)
  BY <1>3, <1>13, <1>14, PairedConcat
<1>16. PICK D : D = C \o S5
  OBVIOUS
<1>17. Paired(D \o S6) /\ \A o : o \in Members(D \o S6) <=> o \in Members(D) \/ o \in Members(S6)
  BY <1>2, <1>15, <1>16, PairedConcat
<1>18. ScriptArgs(w) = D \o S6
  BY <1>7, <1>10, <1>12, <1>14, <1>16
<1>19. \A o : o \in Members(ScriptArgs(w)) <=>
          \/ o \in Members(FixedArgs) \/ o \in Members(S2) \/ o \in Members(S3) \/ o \in Members(S4) \/ o \in Members(S5) \/ o \in Members(S6)
  BY <1>9, <1>10, <1>11, <1>12, <1>13, <1>14, <1>15, <1>16, <1>17, <1>18
<1>20. \A o \in {"--output-dtlz", "--verify-dtlz", "--checkpoint", "--checkpoint-every", "--encode-only", "--estimate-full-run"} :
          o \in BenchOptions /\ o \notin Members(FixedArgs) /\ o \notin Members(S3) /\ o \notin Members(S4)
  BY <1>4, <1>5, FixedIsPaired, KindsOfBenchFile DEF BenchOptions
<1>21. \A o \in {"--output-dtlz", "--verify-dtlz", "--checkpoint", "--checkpoint-every"} :
          o \in Members(ScriptArgs(w)) <=> o \in Members(S2)
  BY <1>2, <1>3, <1>19, <1>20
<1>22. ("--encode-only" \in Members(ScriptArgs(w)) => w.encode_only)
       /\ ("--estimate-full-run" \in Members(ScriptArgs(w)) => w.estimate_full_run)
  BY <1>2, <1>3, <1>6, <1>19, <1>20
<1>23. (w.verify_dtlz <=> "--verify-dtlz" \in Members(S2))
       /\ \A o \in {"--output-dtlz", "--checkpoint", "--checkpoint-every"} : ~ w.verify_dtlz <=> o \in Members(S2)
  BY <1>6, <1>20
<1>24. w.verify_dtlz => ~ w.encode_only /\ ~ w.estimate_full_run
  BY DEF ScriptAccepts
<1>25. {"--model", "--input"} \subseteq Members(ScriptArgs(w))
  BY <1>19, FixedIsPaired
<1>26. QED
  BY <1>17, <1>18, <1>21, <1>22, <1>23, <1>24, <1>25

(***************************************************************************)
(* While the arguments of a script are parsed, each of its options is      *)
(* given already, waits for its value, or is still to come.                *)
(***************************************************************************)
ScriptInv ==
  wrapper # NoWrapper =>
    /\ wrapper \in Wrapped /\ ScriptAccepts(wrapper) /\ command = "bench-file"
    /\ status \in {"parsing", "accepted"}
    /\ args \in Seq(Words) /\ InPairs(args)
    /\ pending = NoOption => Starts(args)
    /\ pending # NoOption => TakesValue(pending) /\ args # <<>> /\ IsValue(pending, args[1])
    /\ \A o \in BenchOptions :
         o \in Members(ScriptArgs(wrapper)) <=> opts[o] # NotGiven \/ o = pending \/ o \in Members(args)
    /\ opts["--iters"] \in {NotGiven, "1"}
    /\ status = "accepted" => args = <<>> /\ pending = NoOption

LEMMA OptionIsItself == \A o \in BenchOptions : Option("bench-file", o) = o /\ o # NoOption
<1>1. ASSUME NEW o \in BenchOptions PROVE o \notin {"-m", "-i", "-o", "-p", NoOption}
  BY KindsOfBenchFile DEF BenchOptions, NoOption
<1>2. ASSUME NEW o \in BenchOptions PROVE Alias(o) = o
  BY <1>1 DEF Alias
<1>3. QED
  BY <1>1, <1>2 DEF Option, BenchOptions

LEMMA TailOf ==
  ASSUME NEW S, NEW s \in Seq(S), s # <<>>, InPairs(s)
  PROVE  /\ Head(s) = s[1] /\ Tail(s) \in Seq(S) /\ InPairs(Tail(s))
         /\ \A o : o \in Members(s) <=> o = s[1] \/ o \in Members(Tail(s))
         /\ ~ TakesValue(s[1]) => Starts(Tail(s))
         /\ TakesValue(s[1]) => Tail(s) # <<>> /\ IsValue(s[1], Tail(s)[1])
<1>1. PICK n \in Nat : n = Len(s)
  OBVIOUS
<1>2. PICK t : t = Tail(s)
  OBVIOUS
<1>3. n > 0 /\ t \in Seq(S) /\ Len(t) = n - 1 /\ \A i \in 1 .. n - 1 : t[i] = s[i + 1]
  BY <1>1, <1>2
<1>4. InPairs(t)
  <2> SUFFICES ASSUME NEW i \in 1 .. n - 1
               PROVE  IF TakesValue(t[i]) THEN i < n - 1 /\ IsValue(t[i], t[i + 1]) ELSE i < n - 1 => t[i + 1] \in BenchOptions
    BY <1>3 DEF InPairs
  <2>1. i + 1 \in 1 .. n /\ t[i] = s[i + 1] /\ (i < n - 1 => t[i + 1] = s[(i + 1) + 1])
    BY <1>3
  <2>2. IF TakesValue(s[i + 1]) THEN i + 1 < n /\ IsValue(s[i + 1], s[(i + 1) + 1]) ELSE i + 1 < n => s[(i + 1) + 1] \in BenchOptions
    BY <1>1, <2>1 DEF InPairs
  <2>3. QED
    BY <2>1, <2>2
<1>5. IF TakesValue(s[1]) THEN 1 < n /\ IsValue(s[1], s[1 + 1]) ELSE 1 < n => s[1 + 1] \in BenchOptions
  BY <1>1, <1>3 DEF InPairs
<1>6. 1 < n => t[1] = s[1 + 1] /\ t # <<>>
  BY <1>3
<1>7. n = 1 => t = <<>>
  BY <1>3
<1>8. ~ TakesValue(s[1]) => Starts(t)
  BY <1>3, <1>5, <1>6, <1>7 DEF Starts
<1>9. \A o : o \in Members(s) <=> o = s[1] \/ o \in Members(t)
  <2>1. DOMAIN s = 1 .. n /\ DOMAIN t = 1 .. n - 1
    BY <1>1, <1>3
  <2>2. ASSUME NEW i \in 1 .. n PROVE s[i] = s[1] \/ s[i] \in Members(t)
    <3>1. CASE i = 1
      BY <3>1
    <3>2. CASE i # 1
      <4>1. i - 1 \in 1 .. n - 1 /\ (i - 1) + 1 = i
        BY <3>2
      <4>2. t[i - 1] = s[i]
        BY <1>3, <4>1
      <4>3. QED
        BY <2>1, <4>1, <4>2 DEF Members
    <3>3. QED
      BY <3>1, <3>2
  <2>3. ASSUME NEW i \in 1 .. n - 1 PROVE t[i] \in Members(s)
    <3>1. i + 1 \in 1 .. n /\ t[i] = s[i + 1]
      BY <1>3
    <3>2. QED
      BY <2>1, <3>1 DEF Members
  <2>4. s[1] \in Members(s)
    BY <1>3, <2>1 DEF Members
  <2>5. QED
    BY <2>1, <2>2, <2>3, <2>4 DEF Members
<1>10. QED
  BY <1>2, <1>3, <1>4, <1>5, <1>6, <1>8, <1>9

LEMMA ScriptInvInit == OptionsInit => ScriptInv
<1> SUFFICES ASSUME OptionsInit, wrapper # NoWrapper PROVE ScriptInv
  BY DEF ScriptInv
<1>1. /\ command = "bench-file" /\ wrapper \in Wrapped /\ ScriptAccepts(wrapper) /\ args = ScriptArgs(wrapper)
      /\ pending = NoOption /\ status = "parsing"
  BY DEF OptionsInit
<1>2. opts = [o \in DOMAIN Options[command] |-> NotGiven]
  BY DEF OptionsInit
<1>3. Paired(args)
  BY <1>1, ScriptArgsArePaired
<1>4. \A o \in BenchOptions : opts[o] = NotGiven /\ o # NoOption
  BY <1>1, <1>2, OptionIsItself DEF BenchOptions
<1>5. opts["--iters"] = NotGiven
  BY <1>4, ValuesOfScript DEF TakesValue
<1>6. QED
  BY <1>1, <1>3, <1>4, <1>5 DEF ScriptInv, Paired

LEMMA ScriptInvStep == OptInv /\ ScriptInv /\ [OptionsNext]_optionVars => ScriptInv'
<1> SUFFICES ASSUME OptInv, ScriptInv, [OptionsNext]_optionVars, wrapper' # NoWrapper PROVE ScriptInv'
  BY DEF ScriptInv
<1>1. wrapper' = wrapper /\ command' = command
  BY DEF OptionsNext, TakeOption, TakeValue, EndOfArgs, MissingValue, optionVars
<1>2. /\ wrapper # NoWrapper /\ wrapper \in Wrapped /\ ScriptAccepts(wrapper) /\ command = "bench-file"
      /\ status \in {"parsing", "accepted"}
      /\ args \in Seq(Words) /\ InPairs(args)
      /\ pending = NoOption => Starts(args)
      /\ pending # NoOption => TakesValue(pending) /\ args # <<>> /\ IsValue(pending, args[1])
      /\ \A o \in BenchOptions :
           o \in Members(ScriptArgs(wrapper)) <=> opts[o] # NotGiven \/ o = pending \/ o \in Members(args)
      /\ opts["--iters"] \in {NotGiven, "1"}
      /\ status = "accepted" => args = <<>> /\ pending = NoOption
  BY <1>1 DEF ScriptInv
<1>3. DOMAIN opts = BenchOptions
  BY <1>2 DEF OptInv, BenchOptions
<1>4. "--iters" \in BenchOptions /\ TakesValue("--iters")
  BY ValuesOfScript DEF TakesValue
<1>5. ASSUME NEW arg, NextArg(arg)
      PROVE  /\ status = "parsing" /\ args # <<>> /\ arg = args[1] /\ args' = Tail(args) /\ args' \in Seq(Words) /\ InPairs(args')
             /\ \A o : o \in Members(args) <=> o = arg \/ o \in Members(args')
             /\ ~ TakesValue(arg) => Starts(args')
             /\ TakesValue(arg) => args' # <<>> /\ IsValue(arg, args'[1])
  <2>1. status = "parsing" /\ args # <<>> /\ arg = Head(args) /\ args' = Tail(args)
    BY <1>2, <1>5 DEF NextArg
  <2>2. QED
    BY <1>2, <2>1, TailOf
<1>6. ASSUME NEW arg, TakeOption(arg) PROVE ScriptInv'
  <2>1. pending = NoOption /\ NextArg(arg)
    BY <1>6 DEF TakeOption
  <2>2. arg \in BenchOptions /\ Option(command, arg) = arg /\ arg # NoOption
    BY <1>2, <1>5, <2>1, OptionIsItself DEF Starts
  <2>3. CASE Options["bench-file"][arg] = "flag"
    <3>1. status' = "parsing" /\ opts' = [opts EXCEPT ![arg] = "given"] /\ pending' = NoOption
      BY <1>2, <1>5, <1>6, <2>1, <2>2, <2>3 DEF TakeOption
    <3>2. ~ TakesValue(arg) /\ arg # "--iters"
      BY <1>4, <2>3 DEF TakesValue
    <3>3. ASSUME NEW o \in BenchOptions
          PROVE  o \in Members(ScriptArgs(wrapper)) <=> opts'[o] # NotGiven \/ o = pending' \/ o \in Members(args')
      BY <1>2, <1>3, <1>5, <2>1, <3>1, OptionIsItself DEF NotGiven
    <3>4. QED
      BY <1>1, <1>2, <1>3, <1>4, <1>5, <2>1, <3>1, <3>2, <3>3 DEF ScriptInv
  <2>4. CASE Options["bench-file"][arg] # "flag"
    <3>1. status' = "parsing" /\ opts' = opts /\ pending' = arg
      BY <1>2, <1>5, <1>6, <2>1, <2>2, <2>4 DEF TakeOption
    <3>2. TakesValue(arg)
      BY <2>2, <2>4 DEF TakesValue
    <3>3. ASSUME NEW o \in BenchOptions
          PROVE  o \in Members(ScriptArgs(wrapper)) <=> opts'[o] # NotGiven \/ o = pending' \/ o \in Members(args')
      BY <1>2, <1>5, <2>1, <3>1, OptionIsItself
    <3>4. QED
      BY <1>1, <1>2, <1>5, <2>1, <2>2, <3>1, <3>2, <3>3 DEF ScriptInv
  <2>5. QED
    BY <2>3, <2>4
<1>7. ASSUME NEW arg, TakeValue(arg) PROVE ScriptInv'
  <2>1. pending # NoOption /\ NextArg(arg)
    BY <1>7 DEF TakeValue
  <2>2. TakesValue(pending) /\ IsValue(pending, arg) /\ pending \in BenchOptions
    BY <1>2, <1>5, <2>1 DEF TakesValue
  <2>3. Valid(Options[command][pending], arg) /\ arg \notin BenchOptions /\ arg # NotGiven /\ (pending = "--iters" => arg = "1")
    BY <1>2, <2>2 DEF IsValue
  <2>4. status' = "parsing" /\ opts' = [opts EXCEPT ![pending] = arg] /\ pending' = NoOption
    BY <1>5, <1>7, <2>1, <2>3 DEF TakeValue
  <2>5. ~ TakesValue(arg)
    BY <2>3 DEF TakesValue
  <2>6. ASSUME NEW o \in BenchOptions
        PROVE  o \in Members(ScriptArgs(wrapper)) <=> opts'[o] # NotGiven \/ o = pending' \/ o \in Members(args')
    BY <1>2, <1>3, <1>5, <2>1, <2>2, <2>3, <2>4, OptionIsItself
  <2>7. opts'["--iters"] \in {NotGiven, "1"}
    BY <1>2, <1>3, <1>4, <2>3, <2>4
  <2>8. QED
    BY <1>1, <1>2, <1>5, <2>1, <2>4, <2>5, <2>6, <2>7 DEF ScriptInv
<1>8. ASSUME EndOfArgs PROVE ScriptInv'
  <2>1. args = <<>> /\ pending = NoOption /\ args' = args /\ opts' = opts /\ pending' = pending
        /\ status' = IF Complete THEN "accepted" ELSE "error"
    BY <1>8 DEF EndOfArgs
  <2>2. \A o \in BenchOptions : o \in Members(ScriptArgs(wrapper)) <=> Has(o)
    <3>1. Members(args) = {}
      BY <2>1 DEF Members
    <3>2. QED
      BY <1>2, <2>1, <3>1, OptionIsItself DEF Has
  <2>3. BenchFileOk
    <3>1. \A o \in {"--model", "--input", "--output-dtlz", "--verify-dtlz", "--checkpoint", "--checkpoint-every", "--encode-only",
                    "--estimate-full-run"} : o \in BenchOptions
      BY KindsOfBenchFile DEF BenchOptions
    <3>2. /\ Has("--model") /\ Has("--input")
          /\ wrapper.verify_dtlz <=> Has("--verify-dtlz")
          /\ ~ wrapper.verify_dtlz <=> Has("--output-dtlz")
          /\ ~ wrapper.verify_dtlz <=> Has("--checkpoint")
          /\ ~ wrapper.verify_dtlz <=> Has("--checkpoint-every")
          /\ wrapper.verify_dtlz => ~ Has("--encode-only") /\ ~ Has("--estimate-full-run")
      BY <1>2, <2>2, <3>1, ScriptArgsArePaired
    <3>3. opts["--iters"] \in {NotGiven, "1"} /\ opts["--iters"] # "0"
      BY <1>2 DEF NotGiven
    <3>4. QED
      BY <3>2, <3>3 DEF BenchFileOk
  <2>4. Complete
    BY <1>2, <2>3 DEF Complete
  <2>5. QED
    BY <1>1, <1>2, <2>1, <2>4 DEF ScriptInv
<1>9. ASSUME MissingValue PROVE ScriptInv'
  BY <1>2, <1>9 DEF MissingValue
<1>10. ASSUME UNCHANGED optionVars PROVE ScriptInv'
  BY <1>10, ScriptInv DEF ScriptInv, optionVars
<1>11. QED
  BY <1>6, <1>7, <1>8, <1>9, <1>10 DEF OptionsNext

LEMMA ScriptInvAccepts == ScriptInv => ScriptIsAccepted
<1> SUFFICES ASSUME ScriptInv, wrapper # NoWrapper
             PROVE  /\ status # "error"
                    /\ status = "accepted" => Has("--verify-dtlz") # (Has("--checkpoint") /\ Has("--output-dtlz"))
  BY DEF ScriptIsAccepted
<1>1. status # "error" /\ wrapper \in Wrapped /\ ScriptAccepts(wrapper)
  BY DEF ScriptInv
<1>2. ASSUME status = "accepted" PROVE Has("--verify-dtlz") # (Has("--checkpoint") /\ Has("--output-dtlz"))
  <2>1. args = <<>> /\ pending = NoOption
    BY <1>2 DEF ScriptInv
  <2>2. Members(args) = {}
    BY <2>1 DEF Members
  <2>3. \A o \in BenchOptions : o \in Members(ScriptArgs(wrapper)) <=> Has(o)
    BY <2>1, <2>2, OptionIsItself DEF ScriptInv, Has
  <2>4. \A o \in {"--output-dtlz", "--verify-dtlz", "--checkpoint"} : o \in BenchOptions
    BY KindsOfBenchFile DEF BenchOptions
  <2>5. /\ wrapper.verify_dtlz <=> Has("--verify-dtlz")
        /\ ~ wrapper.verify_dtlz <=> Has("--output-dtlz")
        /\ ~ wrapper.verify_dtlz <=> Has("--checkpoint")
    BY <1>1, <2>3, <2>4, ScriptArgsArePaired
  <2>6. QED
    BY <2>5 DEF Has
<1>3. QED
  BY <1>1, <1>2

(***************************************************************************)
(* For every set of commands, every text that is no option, any number of  *)
(* arguments and whatever the script is run with: options that are         *)
(* accepted are what the commands take for granted, no interval of         *)
(* bench-file is 0 and its files and iterations fit each other; and what   *)
(* the script does not refuse is never refused by bench-file.              *)
(***************************************************************************)
THEOREM OptionsAreUsableTheorem == OptionsSpec => []OptionsAreUsable
<1>1. OptionsInit => OptInv /\ ScriptInv
  BY OptInvInit, ScriptInvInit
<1>2. OptInv /\ ScriptInv /\ [OptionsNext]_optionVars => (OptInv /\ ScriptInv)'
  BY OptInvStep, ScriptInvStep
<1>3. OptInv /\ ScriptInv => OptionsAreUsable
  BY AcceptedIsUsable, ScriptInvAccepts DEF OptionsAreUsable
<1>4. QED
  BY <1>1, <1>2, <1>3, PTL DEF OptionsSpec
=============================================================================
