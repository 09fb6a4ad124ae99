--------------------------- MODULE DatasetProofs ---------------------------
(***************************************************************************)
(* For every plan, every number of slots, revisions and template contents, *)
(* and with edits and stops of the process at any moment: the variables    *)
(* have their types; no manifest is completed that does not list every     *)
(* case with its answer; as long as no container outlives its call, what a *)
(* completed manifest lists is whole; and as long as the process does not  *)
(* stop inside a wipe either, an archive is one whole batch beside its     *)
(* code. Each of the four rests on an inductive invariant that contains    *)
(* the one before: TypeInv, ListedInv, WholeInv, ExportInv. The module     *)
(* begins with the operators that order the cases, cut them into chunks    *)
(* and count those a loop gets through: their values are read off the      *)
(* cardinalities of finite sets, so that no induction is needed.           *)
(***************************************************************************)
EXTENDS DatasetProperties, SequenceTheorems, FiniteSetTheorems, WellFoundedInduction, TLAPS
-----------------------------------------------------------------------------
(* The cases of a selection and their order *)

LEMMA CasesFinite == \A sel : IsFiniteSet(CasesOf(sel)) /\ CasesOf(sel) \subseteq Cases
<1>1. IsFiniteSet(Subtasks)
  <2>1. Len(Plan) \in Nat /\ Subtasks = 1 .. Len(Plan)
    BY DatasetAssumption DEF Subtasks
  <2>2. 1 \in Int /\ Len(Plan) \in Int
    BY <2>1
  <2> QED BY <2>1, <2>2, FS_Interval
<1>2. IsFiniteSet(1 .. 10)
  <2>1. 1 \in Int /\ 10 \in Int
    OBVIOUS
  <2> QED BY <2>1, FS_Interval
<1>3. IsFiniteSet(Subtasks \X (1 .. 10))
  BY <1>1, <1>2, FS_Product
<1>4. \A sel : CasesOf(sel) \in SUBSET (Subtasks \X (1 .. 10)) /\ CasesOf(sel) \subseteq Cases
  BY DEF CasesOf, Cases
<1> QED BY <1>3, <1>4, FS_Subset

\* A case is a pair of numbers, and of two cases one comes first.
LEMMA Ordered ==
  ASSUME NEW c \in Cases, NEW e \in Cases
  PROVE  /\ c # e => Before(c, e) \/ Before(e, c)
         /\ ~ Before(c, c)
         /\ Before(c, e) => ~ Before(e, c)
         /\ \A d \in Cases : Before(c, e) /\ Before(e, d) => Before(c, d)
<1>1. \A d \in Cases : d = <<d[1], d[2]>> /\ d[1] \in Int /\ d[2] \in Int
  <2>1. Subtasks \subseteq Nat
    <3>1. Plan \in Seq(Nat \ {0})
      BY DatasetAssumption
    <3> QED BY <3>1 DEF Subtasks
  <2>2. \A d \in Cases : d \in Subtasks \X (1 .. 10)
    BY DEF Cases
  <2> QED BY <2>1, <2>2
<1>2. c # e => c[1] # e[1] \/ c[2] # e[2]
  <2>1. c = <<c[1], c[2]>> /\ e = <<e[1], e[2]>>
    BY <1>1
  <2> QED BY <2>1
<1> QED BY <1>1, <1>2 DEF Before

\* Each position of a set of cases is the position of one of them.
LEMMA Positions ==
  ASSUME NEW S \in SUBSET Cases, IsFiniteSet(S), NEW k \in 1 .. Cardinality(S)
  PROVE  \E c \in S : Position(c, S) = k
<1> DEFINE n == Cardinality(S)
           earlier(c) == {e \in S : Before(e, c)}
           f == [c \in S |-> Position(c, S)]
<1>1. n \in Nat
  BY FS_CardinalityType
<1>2. ASSUME NEW c \in S
      PROVE  /\ IsFiniteSet(earlier(c)) /\ Cardinality(earlier(c)) \in Nat
             /\ Cardinality(earlier(c)) < n
  <2>1. earlier(c) \in SUBSET S /\ c \notin earlier(c)
    BY Ordered
  <2> HIDE DEF earlier
  <2>2. IsFiniteSet(earlier(c)) /\ Cardinality(earlier(c)) <= n
        /\ (n = Cardinality(earlier(c)) => S = earlier(c))
    BY <2>1, FS_Subset
  <2>3. Cardinality(earlier(c)) \in Nat
    BY <2>2, FS_CardinalityType
  <2> QED BY <1>1, <2>1, <2>2, <2>3
<1>3. ASSUME NEW c \in S, NEW e \in S, Before(c, e) PROVE Position(c, S) # Position(e, S)
  <2>1. earlier(c) \in SUBSET earlier(e) /\ c \in earlier(e) /\ c \notin earlier(c)
    BY <1>3, Ordered
  <2>2. IsFiniteSet(earlier(e)) /\ Cardinality(earlier(e)) \in Nat /\ Cardinality(earlier(c)) \in Nat
    BY <1>2
  <2> HIDE DEF earlier
  <2>3. Cardinality(earlier(e)) # Cardinality(earlier(c))
    BY <2>1, <2>2, FS_Subset
  <2> QED BY <2>2, <2>3 DEF Position, earlier
<1>4. f \in Injection(S, 1 .. n)
  <2>1. ASSUME NEW c \in S PROVE Position(c, S) \in 1 .. n
    <3>1. Position(c, S) = Cardinality(earlier(c)) + 1
      BY DEF Position
    <3> HIDE DEF earlier, n
    <3> QED BY <1>1, <1>2, <3>1
  <2>2. \A c, e \in S : f[c] = f[e] => c = e
    BY <1>3, Ordered
  <2> QED BY <2>1, <2>2 DEF Injection, IsInjective
<1>5. IsFiniteSet(1 .. n) /\ Cardinality(1 .. n) = n
  <2>1. 1 \in Int /\ n \in Int
    BY <1>1
  <2>2. IsFiniteSet(1 .. n) /\ Cardinality(1 .. n) = IF 1 > n THEN 0 ELSE n - 1 + 1
    BY <2>1, FS_Interval
  <2> QED BY <1>1, <2>2
<1>6. f \in Surjection(S, 1 .. n)
  <2> HIDE DEF f
  <2> QED BY <1>4, <1>5, FS_Injection
<1> QED BY <1>6 DEF Surjection

\* The jobs of a selection are its cases, each once.
LEMMA JobsOf ==
  ASSUME NEW sel
  PROVE  /\ Jobs(sel) \in Seq(CasesOf(sel)) /\ Jobs(sel) \in Seq(Cases)
         /\ Len(Jobs(sel)) \in Nat /\ DOMAIN Jobs(sel) = 1 .. Len(Jobs(sel))
         /\ Range(Jobs(sel)) = CasesOf(sel)
         /\ \A i, j \in 1 .. Len(Jobs(sel)) : Jobs(sel)[i] = Jobs(sel)[j] => i = j
<1> DEFINE S == CasesOf(sel)
           n == Cardinality(S)
           q == Jobs(sel)
<1>1. S \in SUBSET Cases /\ IsFiniteSet(S) /\ n \in Nat
  BY CasesFinite, FS_CardinalityType
<1> HIDE DEF S
<1>2. q = [k \in 1 .. n |-> CHOOSE c \in S : Position(c, S) = k]
  BY DEF Jobs, S
<1>3. \A k \in 1 .. n : q[k] \in S /\ Position(q[k], S) = k
  <2> SUFFICES ASSUME NEW k \in 1 .. n PROVE q[k] \in S /\ Position(q[k], S) = k
    OBVIOUS
  <2>1. \E c \in S : Position(c, S) = k
    BY <1>1, Positions
  <2> QED BY <1>2, <2>1
<1> HIDE DEF q
<1>4. q \in [1 .. n -> S]
  BY <1>2, <1>3
<1>5. q \in Seq(S) /\ Len(q) = n /\ DOMAIN q = 1 .. n
  BY <1>1, <1>4
<1>6. q \in Seq(Cases)
  BY <1>1, <1>5, SeqMonotonic
<1>7. \A c \in S : \E k \in 1 .. n : q[k] = c
  <2>1. q \in Injection(1 .. n, S)
    BY <1>3, <1>4 DEF Injection, IsInjective
  <2>2. IsFiniteSet(1 .. n) /\ Cardinality(1 .. n) = n
    <3>1. 1 \in Int /\ n \in Int
      BY <1>1
    <3>2. IsFiniteSet(1 .. n) /\ Cardinality(1 .. n) = IF 1 > n THEN 0 ELSE n - 1 + 1
      BY <3>1, FS_Interval
    <3> QED BY <1>1, <3>2
  <2>3. q \in Surjection(1 .. n, S)
    BY <1>1, <2>1, <2>2, FS_Injection
  <2> QED BY <2>3 DEF Surjection
<1>8. Range(q) = S
  BY <1>3, <1>5, <1>7 DEF Range
<1>9. \A i, j \in 1 .. n : q[i] = q[j] => i = j
  BY <1>3
<1> QED BY <1>1, <1>5, <1>6, <1>8, <1>9 DEF q, S

\* Division, and a product that is smaller.
LEMMA Division ==
  ASSUME NEW a \in Nat, NEW b \in Nat \ {0}
  PROVE  /\ a \div b \in Nat
         /\ (a \div b) * b <= a
         /\ a < (a \div b) * b + b
OBVIOUS

LEMMA Smaller ==
  ASSUME NEW a \in Nat, NEW m \in Nat, NEW b \in Nat \ {0}, a * b < m * b
  PROVE  a < m
<1>1. CASE a < m
  BY <1>1
<1>2. CASE a >= m
  <2>1. PICK d \in Nat : a = m + d
    <3>1. a - m \in Nat /\ a = m + (a - m)
      BY <1>2
    <3> QED BY <3>1
  <2>2. a * b = m * b + d * b
    BY <2>1
  <2>3. d * b \in Nat /\ m * b \in Nat
    OBVIOUS
  <2> QED BY <2>2, <2>3
<1> QED BY <1>1, <1>2

\* The chunks hold the jobs, all of them.
LEMMA ChunksOf ==
  ASSUME NEW jobs \in Seq(Cases)
  PROVE  /\ Chunks(jobs) \in Seq(Seq(Cases))
         /\ \A k \in DOMAIN Chunks(jobs) : Range(Chunks(jobs)[k]) \subseteq Range(jobs)
         /\ \A c \in Range(jobs) : \E k \in DOMAIN Chunks(jobs) : c \in Range(Chunks(jobs)[k])
<1> DEFINE L == Len(jobs)
           m == (L + BatchSize - 1) \div BatchSize
           low(k) == (k - 1) * BatchSize + 1
           high(k) == IF k * BatchSize < L THEN k * BatchSize ELSE L
<1>1. L \in Nat /\ BatchSize \in Nat \ {0} /\ DOMAIN jobs = 1 .. L /\ \A i \in 1 .. L : jobs[i] \in Cases
  BY DatasetAssumption
<1>2. m \in Nat /\ m * BatchSize >= L
  <2>1. L + BatchSize - 1 \in Nat
    BY <1>1
  <2> HIDE DEF L
  <2>2. m \in Nat /\ L + BatchSize - 1 < m * BatchSize + BatchSize
    BY <1>1, <2>1, Division
  <2> HIDE DEF m
  <2>3. m * BatchSize \in Nat
    BY <1>1, <2>2
  <2> QED BY <1>1, <2>2, <2>3
<1>3. DOMAIN Chunks(jobs) = 1 .. m /\ \A k \in 1 .. m : Chunks(jobs)[k] = SubSeq(jobs, low(k), high(k))
  BY DEF Chunks
<1>4. Chunks(jobs) = [k \in 1 .. m |-> SubSeq(jobs, low(k), high(k))]
  BY DEF Chunks
<1> HIDE DEF m
<1>5. ASSUME NEW k \in 1 .. m
      PROVE  low(k) \in Nat \ {0} /\ high(k) \in Nat /\ high(k) <= L
  <2>1. (k - 1) * BatchSize \in Nat /\ k * BatchSize \in Nat
    <3>1. k - 1 \in Nat /\ k \in Nat
      BY <1>2
    <3> QED BY <1>1, <3>1
  <2> QED BY <1>1, <2>1
<1>6. ASSUME NEW k \in 1 .. m
      PROVE  /\ Chunks(jobs)[k] \in Seq(Cases)
             /\ Range(Chunks(jobs)[k]) \subseteq Range(jobs)
             /\ \A i \in low(k) .. high(k) : jobs[i] \in Range(Chunks(jobs)[k])
  <2> HIDE DEF L, low, high
  <2>1. \A i \in low(k) .. high(k) : i \in 1 .. L
    BY <1>1, <1>5
  <2>2. \A i \in low(k) .. high(k) : jobs[i] \in Range(jobs) /\ jobs[i] \in Cases
    BY <1>1, <2>1 DEF Range
  <2>3. low(k) \in Int /\ high(k) \in Int
    BY <1>5
  <2> DEFINE q == SubSeq(jobs, low(k), high(k))
  <2>4. /\ q \in Seq(Cases) /\ q \in Seq(Range(jobs))
        /\ Len(q) = IF low(k) <= high(k) THEN high(k) - low(k) + 1 ELSE 0
        /\ \A i \in 1 .. high(k) - low(k) + 1 : q[i] = jobs[low(k) + i - 1]
    BY <2>2, <2>3, SubSeqProperties
  <2> HIDE DEF q
  <2>5. Range(q) \subseteq Range(jobs) /\ DOMAIN q = 1 .. Len(q)
    BY <2>4, RangeOfSeq
  <2>6. ASSUME NEW i \in low(k) .. high(k) PROVE jobs[i] \in Range(q)
    <3>1. i - low(k) + 1 \in 1 .. Len(q) /\ i - low(k) + 1 \in 1 .. high(k) - low(k) + 1
          /\ low(k) + (i - low(k) + 1) - 1 = i
      BY <2>3, <2>4
    <3>2. q[i - low(k) + 1] = jobs[i]
      BY <2>4, <3>1
    <3> QED BY <2>5, <3>1, <3>2 DEF Range
  <2>7. Chunks(jobs)[k] = q
    BY <1>3 DEF q
  <2> QED BY <2>4, <2>5, <2>6, <2>7
<1>7. Chunks(jobs) \in Seq(Seq(Cases))
  <2>1. Chunks(jobs) \in [1 .. m -> Seq(Cases)]
    BY <1>3, <1>4, <1>6
  <2> QED BY <1>2, <2>1
<1>8. ASSUME NEW c \in Range(jobs) PROVE \E k \in 1 .. m : c \in Range(Chunks(jobs)[k])
  <2>1. PICK i \in 1 .. L : c = jobs[i]
    BY <1>1 DEF Range
  <2> HIDE DEF L
  <2> DEFINE h == (i - 1) \div BatchSize
  <2>2. i - 1 \in Nat /\ i <= L
    BY <1>1
  <2>3. h \in Nat /\ h * BatchSize <= i - 1 /\ i - 1 < h * BatchSize + BatchSize
    BY <1>1, <2>2, Division
  <2> HIDE DEF h
  <2>4. h * BatchSize \in Nat /\ m * BatchSize \in Nat /\ (h + 1) * BatchSize = h * BatchSize + BatchSize
    BY <1>1, <1>2, <2>3
  <2>5. h * BatchSize < m * BatchSize
    BY <1>1, <1>2, <2>2, <2>3, <2>4
  <2>6. h < m
    BY <1>1, <1>2, <2>3, <2>5, Smaller
  <2>7. h + 1 \in 1 .. m /\ (h + 1) - 1 = h
    BY <1>2, <2>3, <2>6
  <2>8. i \in low(h + 1) .. high(h + 1)
    BY <1>1, <2>1, <2>2, <2>3, <2>4, <2>7
  <2> QED BY <1>6, <2>1, <2>7, <2>8
<1> QED BY <1>3, <1>6, <1>7, <1>8

\* Of a set of numbers one is the least.
Less == {ss \in Nat \X Nat : ss[1] < ss[2]}

LEMMA Least ==
  ASSUME NEW S \in SUBSET Nat, S # {}
  PROVE  \E n \in S : \A m \in S : n <= m
<1>1. IsWellFoundedOn(Less, Nat)
  BY NatLessThanWellFounded DEF OpToRel, Less
<1>2. PICK n \in S : \A m \in S : ~ (<<m, n>> \in Less)
  BY <1>1, WFMin
<1>3. \A m \in S : <<m, n>> \in Less <=> m < n
  BY DEF Less
<1>4. ASSUME NEW m \in S PROVE n <= m
  <2>1. m \in Nat /\ n \in Nat /\ ~ (m < n)
    BY <1>2, <1>3
  <2> QED BY <2>1
<1> QED BY <1>4

\* All outcomes are taken only if no job has failed.
LEMMA TakenOf ==
  ASSUME NEW jobs \in Seq(Cases), NEW bad
  PROVE  /\ Taken(jobs, bad) \in 0 .. Len(jobs)
         /\ Taken(jobs, bad) = Len(jobs) => Range(jobs) \cap bad = {}
<1>1. Len(jobs) \in Nat /\ DOMAIN jobs = 1 .. Len(jobs)
  OBVIOUS
<1>2. CASE Range(jobs) \cap bad = {}
  BY <1>1, <1>2 DEF Taken
<1>3. CASE Range(jobs) \cap bad # {}
  <2> DEFINE failed == {k \in 1 .. Len(jobs) : jobs[k] \in bad}
             first(k) == jobs[k] \in bad /\ \A j \in 1 .. (k - 1) : jobs[j] \notin bad
  <2>1. failed \in SUBSET Nat /\ failed # {}
    BY <1>1, <1>3 DEF Range
  <2>2. PICK n \in failed : \A k \in failed : n <= k
    <3> HIDE DEF failed
    <3> QED BY <2>1, Least
  <2>3. n \in 1 .. Len(jobs) /\ first(n)
    BY <1>1, <2>2
  <2>4. \E k \in 1 .. Len(jobs) : first(k)
    BY <2>3
  <2>5. (CHOOSE k \in 1 .. Len(jobs) : first(k)) \in 1 .. Len(jobs)
    <3> HIDE DEF first
    <3> QED BY <2>4
  <2>6. Taken(jobs, bad) = (CHOOSE k \in 1 .. Len(jobs) : first(k)) - 1
    BY <1>3 DEF Taken
  <2> HIDE DEF first
  <2> QED BY <1>1, <2>5, <2>6
<1> QED BY <1>2, <1>3

\* The first jobs: all of them only if none is left out.
LEMMA FirstOf ==
  ASSUME NEW jobs \in Seq(Cases), NEW n \in 0 .. Len(jobs)
  PROVE  /\ FirstJobs(jobs, n) \subseteq Range(jobs)
         /\ FirstJobs(jobs, n) \subseteq Cases
         /\ n = Len(jobs) => FirstJobs(jobs, n) = Range(jobs)
<1> DEFINE q == SubSeq(jobs, 1, n)
<1>1. Len(jobs) \in Nat /\ DOMAIN jobs = 1 .. Len(jobs) /\ n \in Nat /\ 1 \in Int /\ n \in Int
  OBVIOUS
<1>2. \A i \in 1 .. n : jobs[i] \in Range(jobs) /\ jobs[i] \in Cases
  BY <1>1 DEF Range
<1>3. q \in Seq(Range(jobs)) /\ q \in Seq(Cases)
  BY <1>1, <1>2, SubSeqProperties
<1> HIDE DEF q
<1>4. Range(q) \subseteq Range(jobs) /\ Range(q) \subseteq Cases
  BY <1>3, RangeOfSeq
<1>5. n = Len(jobs) => q = jobs
  BY SubSeqFull DEF q
<1> QED BY <1>4, <1>5 DEF FirstJobs, q

\* Some of the first jobs are left out.
LEMMA FirstLeaves ==
  ASSUME NEW jobs \in Seq(Cases), NEW n \in 0 .. Len(jobs), n < Len(jobs),
         \A i, j \in 1 .. Len(jobs) : jobs[i] = jobs[j] => i = j
  PROVE  FirstJobs(jobs, n) # Range(jobs)
<1> DEFINE q == SubSeq(jobs, 1, n)
<1>1. Len(jobs) \in Nat /\ DOMAIN jobs = 1 .. Len(jobs) /\ n \in Nat /\ 1 \in Int /\ n \in Int
  OBVIOUS
<1>2. \A i \in 1 .. n : jobs[i] \in Cases
  BY <1>1
<1>3. /\ q \in Seq(Cases) /\ Len(q) = n
      /\ \A i \in 1 .. n : q[i] = jobs[i]
  <2>1. /\ q \in Seq(Cases) /\ Len(q) = IF 1 <= n THEN n - 1 + 1 ELSE 0
        /\ \A i \in 1 .. n - 1 + 1 : q[i] = jobs[1 + i - 1]
    BY <1>1, <1>2, SubSeqProperties
  <2> QED BY <1>1, <2>1
<1> HIDE DEF q
<1>4. jobs[Len(jobs)] \in Range(jobs)
  BY <1>1 DEF Range
<1>5. ASSUME NEW i \in DOMAIN q PROVE q[i] # jobs[Len(jobs)]
  <2>1. i \in 1 .. n /\ i \in 1 .. Len(jobs) /\ Len(jobs) \in 1 .. Len(jobs) /\ i # Len(jobs)
    BY <1>1, <1>3
  <2> QED BY <1>3, <2>1
<1>6. jobs[Len(jobs)] \notin Range(q)
  BY <1>5 DEF Range
<1> QED BY <1>4, <1>6 DEF FirstJobs, q

LEMMA CheckpointedOf ==
  ASSUME NEW n \in Nat
  PROVE  Checkpointed(n) \in 0 .. n
<1>1. Interval \in Nat \ {0}
  BY DatasetAssumption
<1>2. (n \div Interval) * Interval <= n /\ n \div Interval \in Nat
  BY <1>1, Division
<1>3. (n \div Interval) * Interval \in Nat
  BY <1>1, <1>2
<1> QED BY <1>2, <1>3 DEF Checkpointed

-----------------------------------------------------------------------------
(* Types *)

Working == op.at \in {"gencompile", "generating", "valcompile", "solving"}

\* A call that has a file open has a job left.
GoodCall == {c \in Call : c.open => c.todo # <<>>}

TypeInv ==
  /\ rec \in Record /\ disk \in Disk /\ op \in Task
  /\ calls \in Seq(GoodCall) /\ strays \subseteq GoodCall
  /\ wipe \in Wipe \cup {None}
  /\ Working => op.man # None

LEMMA TypeInvOK == TypeInv => TypeOK
<1>1. GoodCall \subseteq Call
  BY DEF GoodCall
<1>2. calls \in Seq(GoodCall) => calls \in Seq(Call)
  BY <1>1, SeqMonotonic
<1> QED BY <1>1, <1>2 DEF TypeInv, TypeOK

LEMMA NoneApart ==
  /\ None \notin Codes /\ None \notin Batch /\ None \notin File /\ None \notin Wipe
BY NoneAssumption

\* The manifest: what of it changes when it is saved.
Statuses == {"generating", "generated", "validating", "completed", "failed"}

LEMMA BatchStatus ==
  ASSUME NEW b \in Batch, NEW s \in Statuses, NEW x, x = [b EXCEPT !.status = s]
  PROVE  /\ x \in Batch /\ x.status = s
         /\ x.ver = b.ver /\ x.code = b.code /\ x.sel = b.sel
         /\ x.files = b.files /\ x.done = b.done
BY DEF Batch, Statuses

LEMMA BatchFiles ==
  ASSUME NEW b \in Batch, NEW s \in Statuses, NEW F \in SUBSET Cases,
         NEW x, x = [b EXCEPT !.files = F, !.status = s]
  PROVE  /\ x \in Batch /\ x.status = s
         /\ x.ver = b.ver /\ x.code = b.code /\ x.sel = b.sel
         /\ x.files = F /\ x.done = b.done
BY DEF Batch, Statuses

LEMMA BatchDone ==
  ASSUME NEW b \in Batch, NEW s \in Statuses, NEW F \in SUBSET Cases,
         NEW x, x = [b EXCEPT !.done = F, !.status = s]
  PROVE  /\ x \in Batch /\ x.status = s
         /\ x.ver = b.ver /\ x.code = b.code /\ x.sel = b.sel
         /\ x.files = b.files /\ x.done = F
BY DEF Batch, Statuses

\* The directory: what of it changes.
LEMMA DiskVerified ==
  ASSUME NEW d \in Disk
  PROVE  /\ Verified(d) \in Disk /\ Verified(d).proj = "release"
         /\ Verified(d).draft = d.draft /\ Verified(d).rel = d.rel
         /\ Verified(d).batch = d.batch
         /\ Verified(d).inp = d.inp /\ Verified(d).out = d.out
BY DEF Verified, Disk

LEMMA DiskBatch ==
  ASSUME NEW d \in Disk, NEW b \in Batch \cup {None}, NEW x, x = [d EXCEPT !.batch = b]
  PROVE  /\ x \in Disk /\ x.batch = b
         /\ x.draft = d.draft /\ x.rel = d.rel /\ x.proj = d.proj
         /\ x.inp = d.inp /\ x.out = d.out
BY DEF Disk

LEMMA DiskInput ==
  ASSUME NEW d \in Disk, NEW j \in Cases, NEW f \in File \cup {None},
         NEW x, x = [d EXCEPT !.inp[j] = f]
  PROVE  /\ x \in Disk /\ x.batch = d.batch
         /\ x.draft = d.draft /\ x.rel = d.rel /\ x.proj = d.proj
         /\ x.inp = [d.inp EXCEPT ![j] = f] /\ x.out = d.out
BY DEF Disk

LEMMA DiskOutput ==
  ASSUME NEW d \in Disk, NEW j \in Cases, NEW f \in File \cup {None},
         NEW x, x = [d EXCEPT !.out[j] = f]
  PROVE  /\ x \in Disk /\ x.batch = d.batch
         /\ x.draft = d.draft /\ x.rel = d.rel /\ x.proj = d.proj
         /\ x.inp = d.inp /\ x.out = [d.out EXCEPT ![j] = f]
BY DEF Disk

\* A failed pipeline leaves the files and the codes alone.
LEMMA FailFacts ==
  ASSUME NEW d \in Disk, TypeInv, FailToAgent4(d),
         d.inp = disk.inp, d.out = disk.out, d.draft = disk.draft, d.rel = disk.rel
  PROVE  /\ disk' \in Disk /\ rec' \in Record /\ rec'.ver = rec.ver
         /\ disk'.inp = disk.inp /\ disk'.out = disk.out
         /\ disk'.draft = disk.draft /\ disk'.rel = disk.rel
         /\ \/ disk' = disk /\ rec' = rec
            \/ /\ ~ rec'.ready
               /\ \/ d.batch = None /\ disk'.batch = None
                  \/ /\ d.batch # None /\ disk'.batch \in Batch
                     /\ disk'.batch.status = "failed"
                     /\ disk'.batch.ver = d.batch.ver /\ disk'.batch.code = d.batch.code
                     /\ disk'.batch.sel = d.batch.sel
                     /\ disk'.batch.files = d.batch.files /\ disk'.batch.done = d.batch.done
<1>1. CASE d.rel = None
  BY <1>1 DEF FailToAgent4, TypeInv
<1>2. CASE d.rel # None
  <2>1. rec' = PipelineFailure(rec)
    BY <1>2 DEF FailToAgent4
  <2>2. rec' \in Record /\ rec'.ver = rec.ver /\ ~ rec'.ready
    BY <2>1 DEF TypeInv, Record, PipelineFailure
  <2>3. CASE d.batch = None
    <3>1. disk' = Verified(d)
      BY <1>2, <2>3 DEF FailToAgent4
    <3> QED BY <2>2, <2>3, <3>1, DiskVerified
  <2>4. CASE d.batch # None
    <3> DEFINE b == [d.batch EXCEPT !.status = "failed"]
    <3>1. disk' = [Verified(d) EXCEPT !.batch.status = "failed"]
      BY <1>2, <2>4 DEF FailToAgent4
    <3>2. Verified(d) \in Disk /\ Verified(d).batch = d.batch /\ d.batch \in Batch
      BY <2>4, DiskVerified DEF Disk
    <3>3. disk' = [Verified(d) EXCEPT !.batch = b]
      BY <3>1, <3>2
    <3>4. /\ b \in Batch /\ b.status = "failed"
          /\ b.ver = d.batch.ver /\ b.code = d.batch.code /\ b.sel = d.batch.sel
          /\ b.files = d.batch.files /\ b.done = d.batch.done
      BY <3>2, BatchStatus DEF Statuses
    <3> HIDE DEF b
    <3>5. /\ disk' \in Disk /\ disk'.batch = b
          /\ disk'.draft = d.draft /\ disk'.rel = d.rel
          /\ disk'.inp = d.inp /\ disk'.out = d.out
      BY <3>2, <3>3, <3>4, DiskBatch, DiskVerified
    <3> QED BY <2>2, <2>4, <3>4, <3>5
  <2> QED BY <2>3, <2>4
<1> QED BY <1>1, <1>2

\* A job of a call is begun, and ended.
LEMMA OpenedCall ==
  ASSUME NEW c \in GoodCall, ~ c.open, c.todo # <<>>, NEW accepted \in BOOLEAN
  PROVE  /\ Opened(c, accepted) \in GoodCall
         /\ Opened(c, accepted).kind = c.kind /\ Opened(c, accepted).now = c.now
         /\ Opened(c, accepted).mine = c.mine
         /\ accepted => /\ Opened(c, accepted).todo = c.todo /\ Opened(c, accepted).open
                        /\ Opened(c, accepted).bad = c.bad
         /\ ~ accepted => /\ Opened(c, accepted).todo = Tail(c.todo) /\ ~ Opened(c, accepted).open
                          /\ Opened(c, accepted).bad = c.bad \cup {Head(c.todo)}
<1>1. c \in Call /\ c.todo \in Seq(Cases)
  BY DEF GoodCall, Call
<1>2. Head(c.todo) \in Cases /\ Tail(c.todo) \in Seq(Cases)
  BY <1>1, HeadTailProperties
<1>3. CASE accepted
  BY <1>1, <1>3 DEF Opened, GoodCall, Call
<1>4. CASE ~ accepted
  BY <1>1, <1>2, <1>4 DEF Opened, Skipped, GoodCall, Call
<1> QED BY <1>3, <1>4

LEMMA ClosedCall ==
  ASSUME NEW c \in GoodCall, c.open, NEW ok \in BOOLEAN
  PROVE  /\ Closed(c, ok) \in GoodCall
         /\ Closed(c, ok).kind = c.kind /\ Closed(c, ok).now = c.now
         /\ Closed(c, ok).mine = c.mine
         /\ Closed(c, ok).todo = Tail(c.todo) /\ ~ Closed(c, ok).open
         /\ ok => Closed(c, ok).bad = c.bad
         /\ ~ ok => Closed(c, ok).bad = c.bad \cup {Head(c.todo)}
<1>1. c \in Call /\ c.todo \in Seq(Cases) /\ c.todo # <<>>
  BY DEF GoodCall, Call
<1>2. Head(c.todo) \in Cases /\ Tail(c.todo) \in Seq(Cases)
  BY <1>1, HeadTailProperties
<1>3. CASE ok
  BY <1>1, <1>2, <1>3 DEF Closed, GoodCall, Call
<1>4. CASE ~ ok
  BY <1>1, <1>2, <1>4 DEF Closed, Skipped, GoodCall, Call
<1> QED BY <1>3, <1>4

\* What that writes.
OpenTag(c) == IF c.now THEN "part" ELSE "old"
AnswerTag(d, c) == IF d.inp[Head(c.todo)] = "whole" THEN OpenTag(c) ELSE "old"

LEMMA OpenedDisk ==
  ASSUME NEW d \in Disk, NEW c \in GoodCall, c.todo # <<>>
  PROVE  /\ OpenedOn(d, c) \in Disk /\ OpenedOn(d, c).batch = d.batch
         /\ OpenedOn(d, c).draft = d.draft /\ OpenedOn(d, c).rel = d.rel
         /\ OpenedOn(d, c).proj = d.proj
         /\ c.kind = "generate" =>
              /\ OpenedOn(d, c).out = d.out
              /\ OpenedOn(d, c).inp = [d.inp EXCEPT ![Head(c.todo)] = OpenTag(c)]
         /\ c.kind = "solve" =>
              /\ OpenedOn(d, c).inp = d.inp
              /\ OpenedOn(d, c).out = [d.out EXCEPT ![Head(c.todo)] = AnswerTag(d, c)]
<1>1. c \in Call /\ c.todo \in Seq(Cases)
  BY DEF GoodCall, Call
<1>2. Head(c.todo) \in Cases
  BY <1>1, HeadTailProperties
<1>3. "part" \in File \cup {None} /\ "old" \in File \cup {None} /\ c.kind \in {"generate", "solve"}
  BY <1>1 DEF File, Call
<1> DEFINE j == Head(c.todo)
           f == OpenTag(c)
           g == AnswerTag(d, c)
<1>4. CASE c.kind = "generate"
  <2>1. f \in File \cup {None} /\ OpenedOn(d, c) = [d EXCEPT !.inp[j] = f]
    BY <1>3, <1>4 DEF OpenedOn, OpenTag
  <2>2. j \in Cases /\ c.kind # "solve"
    BY <1>2, <1>4
  <2> HIDE DEF f, j
  <2>3. /\ OpenedOn(d, c) \in Disk /\ OpenedOn(d, c).batch = d.batch
        /\ OpenedOn(d, c).draft = d.draft /\ OpenedOn(d, c).rel = d.rel
        /\ OpenedOn(d, c).proj = d.proj
        /\ OpenedOn(d, c).inp = [d.inp EXCEPT ![j] = f] /\ OpenedOn(d, c).out = d.out
    BY <2>1, <2>2 DEF Disk
  <2> QED BY <2>2, <2>3 DEF f, j
<1>5. CASE c.kind = "solve"
  <2>1. g \in File \cup {None} /\ OpenedOn(d, c) = [d EXCEPT !.out[j] = g]
    BY <1>3, <1>5 DEF OpenedOn, OpenTag, AnswerTag
  <2>2. j \in Cases /\ c.kind # "generate"
    BY <1>2, <1>5
  <2> HIDE DEF g, j
  <2>3. /\ OpenedOn(d, c) \in Disk /\ OpenedOn(d, c).batch = d.batch
        /\ OpenedOn(d, c).draft = d.draft /\ OpenedOn(d, c).rel = d.rel
        /\ OpenedOn(d, c).proj = d.proj
        /\ OpenedOn(d, c).out = [d.out EXCEPT ![j] = g] /\ OpenedOn(d, c).inp = d.inp
    BY <2>1, <2>2 DEF Disk
  <2> QED BY <2>2, <2>3 DEF g, j
<1> QED BY <1>3, <1>4, <1>5

LEMMA ClosedDisk ==
  ASSUME NEW d \in Disk, NEW c \in GoodCall, c.open
  PROVE  /\ ClosedOn(d, c) \in Disk /\ ClosedOn(d, c).batch = d.batch
         /\ ClosedOn(d, c).draft = d.draft /\ ClosedOn(d, c).rel = d.rel
         /\ ClosedOn(d, c).proj = d.proj
         /\ c.kind = "generate" =>
              /\ ClosedOn(d, c).out = d.out
              /\ ClosedOn(d, c).inp =
                   [d.inp EXCEPT ![Head(c.todo)] = Finished(d.inp[Head(c.todo)], c)]
         /\ c.kind = "solve" =>
              /\ ClosedOn(d, c).inp = d.inp
              /\ ClosedOn(d, c).out =
                   [d.out EXCEPT ![Head(c.todo)] = Finished(d.out[Head(c.todo)], c)]
<1>1. c \in Call /\ c.todo \in Seq(Cases) /\ c.todo # <<>> /\ c.kind \in {"generate", "solve"}
  BY DEF GoodCall, Call
<1>2. Head(c.todo) \in Cases
  BY <1>1, HeadTailProperties
<1>3. Finished(d.inp[Head(c.todo)], c) \in File \cup {None}
      /\ Finished(d.out[Head(c.todo)], c) \in File \cup {None}
  BY <1>2 DEF Finished, File, Disk
<1> DEFINE j == Head(c.todo)
<1>4. CASE c.kind = "generate"
  <2>1. ClosedOn(d, c) = [d EXCEPT !.inp[j] = Finished(d.inp[j], c)]
    BY <1>4 DEF ClosedOn
  <2>2. j \in Cases /\ c.kind # "solve" /\ Finished(d.inp[j], c) \in File \cup {None}
    BY <1>2, <1>3, <1>4
  <2> DEFINE f == Finished(d.inp[j], c)
  <2>3. f \in File \cup {None} /\ ClosedOn(d, c) = [d EXCEPT !.inp[j] = f]
    BY <2>1, <2>2
  <2> HIDE DEF f, j
  <2>4. /\ ClosedOn(d, c) \in Disk /\ ClosedOn(d, c).batch = d.batch
        /\ ClosedOn(d, c).draft = d.draft /\ ClosedOn(d, c).rel = d.rel
        /\ ClosedOn(d, c).proj = d.proj
        /\ ClosedOn(d, c).inp = [d.inp EXCEPT ![j] = f] /\ ClosedOn(d, c).out = d.out
    BY <2>2, <2>3 DEF Disk
  <2> QED BY <2>2, <2>4 DEF f, j
<1>5. CASE c.kind = "solve"
  <2>1. ClosedOn(d, c) = [d EXCEPT !.out[j] = Finished(d.out[j], c)]
    BY <1>5 DEF ClosedOn
  <2>2. j \in Cases /\ c.kind # "generate" /\ Finished(d.out[j], c) \in File \cup {None}
    BY <1>2, <1>3, <1>5
  <2> DEFINE f == Finished(d.out[j], c)
  <2>3. f \in File \cup {None} /\ ClosedOn(d, c) = [d EXCEPT !.out[j] = f]
    BY <2>1, <2>2
  <2> HIDE DEF f, j
  <2>4. /\ ClosedOn(d, c) \in Disk /\ ClosedOn(d, c).batch = d.batch
        /\ ClosedOn(d, c).draft = d.draft /\ ClosedOn(d, c).rel = d.rel
        /\ ClosedOn(d, c).proj = d.proj
        /\ ClosedOn(d, c).out = [d.out EXCEPT ![j] = f] /\ ClosedOn(d, c).inp = d.inp
    BY <2>2, <2>3 DEF Disk
  <2> QED BY <2>2, <2>4 DEF f, j
<1> QED BY <1>1, <1>4, <1>5

\* One call less.
LEMMA Removed ==
  ASSUME NEW S, NEW q \in Seq(S), NEW i \in 1 .. Len(q)
  PROVE  /\ RemoveAt(q, i) \in Seq(S) /\ Len(RemoveAt(q, i)) = Len(q) - 1
         /\ \A k \in 1 .. Len(q) - 1 : RemoveAt(q, i)[k] = IF k < i THEN q[k] ELSE q[k + 1]
<1> DEFINE s == SubSeq(q, 1, i - 1)
           t == SubSeq(q, i + 1, Len(q))
<1>1. Len(q) \in Nat /\ i \in Nat /\ 1 \in Int /\ i - 1 \in Int /\ i + 1 \in Int /\ Len(q) \in Int
  OBVIOUS
<1>2. \A k \in 1 .. Len(q) : q[k] \in S
  OBVIOUS
<1>3. s \in Seq(S) /\ Len(s) = i - 1 /\ \A k \in 1 .. i - 1 : s[k] = q[k]
  <2>1. \A k \in 1 .. i - 1 : q[k] \in S
    BY <1>1, <1>2
  <2>2. /\ s \in Seq(S) /\ Len(s) = IF 1 <= i - 1 THEN (i - 1) - 1 + 1 ELSE 0
        /\ \A k \in 1 .. (i - 1) - 1 + 1 : s[k] = q[1 + k - 1]
    BY <1>1, <2>1, SubSeqProperties
  <2> QED BY <1>1, <2>2
<1>4. t \in Seq(S) /\ Len(t) = Len(q) - i /\ \A k \in 1 .. Len(q) - i : t[k] = q[i + k]
  <2>1. \A k \in i + 1 .. Len(q) : q[k] \in S
    BY <1>1, <1>2
  <2>2. /\ t \in Seq(S) /\ Len(t) = IF i + 1 <= Len(q) THEN Len(q) - (i + 1) + 1 ELSE 0
        /\ \A k \in 1 .. Len(q) - (i + 1) + 1 : t[k] = q[(i + 1) + k - 1]
    BY <1>1, <2>1, SubSeqProperties
  <2> QED BY <1>1, <2>2
<1>5. RemoveAt(q, i) = s \o t
  BY DEF RemoveAt
<1> HIDE DEF s, t
<1>6. /\ s \o t \in Seq(S) /\ Len(s \o t) = Len(s) + Len(t)
      /\ \A k \in 1 .. Len(s) + Len(t) : (s \o t)[k] = IF k <= Len(s) THEN s[k] ELSE t[k - Len(s)]
  BY <1>3, <1>4, ConcatProperties
<1>7. RemoveAt(q, i) \in Seq(S) /\ Len(RemoveAt(q, i)) = Len(q) - 1
  BY <1>1, <1>3, <1>4, <1>5, <1>6
<1>8. ASSUME NEW k \in 1 .. Len(q) - 1, k < i PROVE RemoveAt(q, i)[k] = q[k]
  <2>1. k \in 1 .. i - 1 /\ k \in 1 .. Len(s) + Len(t) /\ k <= Len(s)
    BY <1>1, <1>3, <1>4, <1>8
  <2> QED BY <1>3, <1>5, <1>6, <2>1
<1>9. ASSUME NEW k \in 1 .. Len(q) - 1, ~ (k < i) PROVE RemoveAt(q, i)[k] = q[k + 1]
  <2>1. k - (i - 1) \in 1 .. Len(q) - i /\ k \in 1 .. Len(s) + Len(t) /\ ~ (k <= Len(s))
        /\ i + (k - (i - 1)) = k + 1
    BY <1>1, <1>3, <1>4, <1>9
  <2> QED BY <1>3, <1>4, <1>5, <1>6, <2>1
<1> QED BY <1>7, <1>8, <1>9

\* Calls nobody waits for, calls of a batch before, and the calls of the chunks.
LEMMA CallsChanged ==
  ASSUME NEW q \in Seq(GoodCall)
  PROVE  /\ Orphaned(q) \in Seq(GoodCall) /\ Len(Orphaned(q)) = Len(q)
         /\ AgedCalls(q) \in Seq(GoodCall) /\ Len(AgedCalls(q)) = Len(q)
<1>1. Len(q) \in Nat /\ DOMAIN q = 1 .. Len(q) /\ \A i \in 1 .. Len(q) : q[i] \in GoodCall
  OBVIOUS
<1>2. \A c \in GoodCall : [c EXCEPT !.mine = FALSE] \in GoodCall /\ [c EXCEPT !.now = FALSE] \in GoodCall
  BY DEF GoodCall, Call
<1>3. \A i \in 1 .. Len(q) : [q[i] EXCEPT !.mine = FALSE] \in GoodCall /\ [q[i] EXCEPT !.now = FALSE] \in GoodCall
  BY <1>1, <1>2
<1>4. Orphaned(q) \in [1 .. Len(q) -> GoodCall]
  BY <1>1, <1>3 DEF Orphaned
<1>5. AgedCalls(q) \in [1 .. Len(q) -> GoodCall]
  BY <1>1, <1>3 DEF AgedCalls
<1> HIDE DEF GoodCall
<1> QED BY <1>1, <1>4, <1>5

LEMMA ChunkCallsOf ==
  ASSUME NEW kind \in {"generate", "solve"}, NEW sel
  PROVE  /\ ChunkCalls(kind, Jobs(sel)) \in Seq(GoodCall)
         /\ \A k \in DOMAIN ChunkCalls(kind, Jobs(sel)) :
              LET c == ChunkCalls(kind, Jobs(sel))[k]
              IN  /\ c.kind = kind /\ c.now /\ ~ c.open /\ c.mine /\ c.bad = {}
                  /\ Range(c.todo) \subseteq CasesOf(sel)
         /\ \A e \in CasesOf(sel) : \E k \in DOMAIN ChunkCalls(kind, Jobs(sel)) :
              e \in Range(ChunkCalls(kind, Jobs(sel))[k].todo)
<1> DEFINE ch == Chunks(Jobs(sel))
           call(k) == [kind |-> kind, now |-> TRUE, todo |-> ch[k], open |-> FALSE, bad |-> {},
                       mine |-> TRUE]
           q == ChunkCalls(kind, Jobs(sel))
<1>1. /\ ch \in Seq(Seq(Cases))
      /\ \A k \in DOMAIN ch : Range(ch[k]) \subseteq CasesOf(sel)
      /\ \A e \in CasesOf(sel) : \E k \in DOMAIN ch : e \in Range(ch[k])
  BY JobsOf, ChunksOf
<1>2. q = [k \in 1 .. Len(ch) |-> call(k)]
  BY DEF ChunkCalls
<1> HIDE DEF ch
<1>3. Len(ch) \in Nat /\ DOMAIN ch = 1 .. Len(ch) /\ \A k \in 1 .. Len(ch) : ch[k] \in Seq(Cases)
  BY <1>1
<1>4. ASSUME NEW k \in 1 .. Len(ch)
      PROVE  /\ call(k) \in GoodCall /\ call(k).todo = ch[k]
             /\ call(k).kind = kind /\ call(k).now /\ ~ call(k).open /\ call(k).mine
             /\ call(k).bad = {}
  BY <1>3 DEF GoodCall, Call
<1> HIDE DEF call, q
<1>5. q \in Seq(GoodCall) /\ DOMAIN q = 1 .. Len(ch) /\ \A k \in 1 .. Len(ch) : q[k] = call(k)
  BY <1>2, <1>3, <1>4
<1>6. \A k \in DOMAIN q : /\ q[k].kind = kind /\ q[k].now /\ ~ q[k].open /\ q[k].mine /\ q[k].bad = {}
                          /\ Range(q[k].todo) \subseteq CasesOf(sel)
  BY <1>1, <1>3, <1>4, <1>5
<1>7. ASSUME NEW e \in CasesOf(sel) PROVE \E k \in DOMAIN q : e \in Range(q[k].todo)
  <2>1. PICK k \in 1 .. Len(ch) : e \in Range(ch[k])
    BY <1>1, <1>3
  <2>2. q[k].todo = ch[k] /\ k \in DOMAIN q
    BY <1>4, <1>5
  <2> QED BY <2>1, <2>2
<1> QED BY <1>5, <1>6, <1>7 DEF q

-----------------------------------------------------------------------------
(* Every step keeps the types *)

LEMMA IdleTask == Idle \in Task /\ Idle.at = "idle" /\ Idle.man = None
BY DEF Idle, Task

LEMMA WorkingMan ==
  ASSUME TypeInv, Working
  PROVE  /\ op.man \in Batch /\ op.man.sel \in SUBSET Subtasks
         /\ op.man.files \in SUBSET Cases /\ op.man.done \in SUBSET Cases
<1>1. op.man \in Batch
  BY DEF TypeInv, Task
<1> QED BY <1>1 DEF Batch

\* A call at its place, and one call changed.
LEMMA CallAt ==
  ASSUME TypeInv
  PROVE  /\ DOMAIN calls = 1 .. Len(calls) /\ Len(calls) \in Nat
         /\ \A i \in DOMAIN calls : calls[i] \in GoodCall
         /\ \A i \in DOMAIN calls, c \in GoodCall :
              LET q == [calls EXCEPT ![i] = c]
              IN  /\ q \in Seq(GoodCall) /\ Len(q) = Len(calls) /\ q[i] = c
                  /\ \A k \in DOMAIN calls : k # i => q[k] = calls[k]
<1>1. calls \in Seq(GoodCall)
  BY DEF TypeInv
<1> HIDE DEF GoodCall
<1> QED BY <1>1

\* What a container does touches calls and data only.
LEMMA OpensFacts ==
  ASSUME TypeInv, NEW i, NEW accepted \in BOOLEAN, RunnerOpens(i, accepted)
  PROVE  /\ i \in DOMAIN calls /\ calls[i] \in GoodCall /\ ~ calls[i].open /\ calls[i].todo # <<>>
         /\ calls' = [calls EXCEPT ![i] = Opened(calls[i], accepted)]
         /\ Opened(calls[i], accepted) \in GoodCall
         /\ calls' \in Seq(GoodCall) /\ Len(calls') = Len(calls)
         /\ calls'[i] = Opened(calls[i], accepted)
         /\ \A k \in DOMAIN calls : k # i => calls'[k] = calls[k]
         /\ disk' = IF accepted THEN OpenedOn(disk, calls[i]) ELSE disk
         /\ disk' \in Disk /\ disk'.batch = disk.batch
         /\ disk'.draft = disk.draft /\ disk'.rel = disk.rel /\ disk'.proj = disk.proj
<1>1. i \in DOMAIN calls /\ ~ calls[i].open /\ calls[i].todo # <<>>
  BY DEF RunnerOpens
<1>2. calls[i] \in GoodCall
  BY <1>1, CallAt
<1>3. Opened(calls[i], accepted) \in GoodCall
  BY <1>1, <1>2, OpenedCall
<1>4. calls' = [calls EXCEPT ![i] = Opened(calls[i], accepted)]
  BY DEF RunnerOpens
<1>5. /\ calls' \in Seq(GoodCall) /\ Len(calls') = Len(calls)
      /\ calls'[i] = Opened(calls[i], accepted)
      /\ \A k \in DOMAIN calls : k # i => calls'[k] = calls[k]
  <2> DEFINE c == Opened(calls[i], accepted)
  <2>1. c \in GoodCall /\ calls' = [calls EXCEPT ![i] = c]
    BY <1>3, <1>4
  <2> HIDE DEF c
  <2>2. /\ calls' \in Seq(GoodCall) /\ Len(calls') = Len(calls) /\ calls'[i] = c
        /\ \A k \in DOMAIN calls : k # i => calls'[k] = calls[k]
    BY <1>1, <2>1, CallAt
  <2> QED BY <2>2 DEF c
<1>6. disk' = IF accepted THEN OpenedOn(disk, calls[i]) ELSE disk
  BY DEF RunnerOpens
<1>7. /\ disk' \in Disk /\ disk'.batch = disk.batch
      /\ disk'.draft = disk.draft /\ disk'.rel = disk.rel /\ disk'.proj = disk.proj
  BY <1>1, <1>2, <1>6, OpenedDisk DEF TypeInv
<1> QED BY <1>1, <1>2, <1>3, <1>4, <1>5, <1>6, <1>7

LEMMA ClosesFacts ==
  ASSUME TypeInv, NEW i, NEW ok \in BOOLEAN, RunnerCloses(i, ok)
  PROVE  /\ i \in DOMAIN calls /\ calls[i] \in GoodCall /\ calls[i].open /\ calls[i].todo # <<>>
         /\ calls' = [calls EXCEPT ![i] = Closed(calls[i], ok)]
         /\ Closed(calls[i], ok) \in GoodCall
         /\ calls' \in Seq(GoodCall) /\ Len(calls') = Len(calls)
         /\ calls'[i] = Closed(calls[i], ok)
         /\ \A k \in DOMAIN calls : k # i => calls'[k] = calls[k]
         /\ disk' = IF ok THEN ClosedOn(disk, calls[i]) ELSE disk
         /\ disk' \in Disk /\ disk'.batch = disk.batch
         /\ disk'.draft = disk.draft /\ disk'.rel = disk.rel /\ disk'.proj = disk.proj
<1>1. i \in DOMAIN calls /\ calls[i].open
  BY DEF RunnerCloses
<1>2. calls[i] \in GoodCall /\ calls[i].todo # <<>>
  BY <1>1, CallAt DEF GoodCall
<1>3. Closed(calls[i], ok) \in GoodCall
  BY <1>1, <1>2, ClosedCall
<1>4. calls' = [calls EXCEPT ![i] = Closed(calls[i], ok)]
  BY DEF RunnerCloses
<1>5. /\ calls' \in Seq(GoodCall) /\ Len(calls') = Len(calls)
      /\ calls'[i] = Closed(calls[i], ok)
      /\ \A k \in DOMAIN calls : k # i => calls'[k] = calls[k]
  <2> DEFINE c == Closed(calls[i], ok)
  <2>1. c \in GoodCall /\ calls' = [calls EXCEPT ![i] = c]
    BY <1>3, <1>4
  <2> HIDE DEF c
  <2>2. /\ calls' \in Seq(GoodCall) /\ Len(calls') = Len(calls) /\ calls'[i] = c
        /\ \A k \in DOMAIN calls : k # i => calls'[k] = calls[k]
    BY <1>1, <2>1, CallAt
  <2> QED BY <2>2 DEF c
<1>6. disk' = IF ok THEN ClosedOn(disk, calls[i]) ELSE disk
  BY DEF RunnerCloses
<1>7. /\ disk' \in Disk /\ disk'.batch = disk.batch
      /\ disk'.draft = disk.draft /\ disk'.rel = disk.rel /\ disk'.proj = disk.proj
  BY <1>1, <1>2, <1>6, ClosedDisk DEF TypeInv
<1> QED BY <1>1, <1>2, <1>3, <1>4, <1>5, <1>6, <1>7

\* A call without its task is still a call.
LEMMA Unwaited ==
  ASSUME NEW c \in GoodCall
  PROVE  [c EXCEPT !.mine = FALSE] \in GoodCall /\ [c EXCEPT !.now = FALSE] \in GoodCall
BY DEF GoodCall, Call

\* The loop over the outcomes: all jobs, or a failed pipeline.
LEMMA CollectFacts ==
  ASSUME TypeInv, Collect
  PROVE  /\ op.at = "generating" /\ Gathered /\ wipe = None
         /\ op' = Idle /\ calls' = calls /\ strays' = strays /\ wipe' = wipe
         /\ disk' \in Disk /\ rec' \in Record /\ rec'.ver = rec.ver
         /\ disk'.inp = disk.inp /\ disk'.out = disk.out
         /\ disk'.draft = disk.draft /\ disk'.rel = disk.rel
         /\ \/ /\ CasesOf(op.man.sel) \cap op.bad = {}
               /\ disk'.batch \in Batch /\ disk'.batch.status = "generated"
               /\ disk'.batch.ver = op.man.ver /\ disk'.batch.code = op.man.code
               /\ disk'.batch.sel = op.man.sel /\ disk'.batch.done = op.man.done
               /\ disk'.batch.files = CasesOf(op.man.sel)
               /\ disk'.proj = disk.proj /\ ~ rec'.ready
            \/ disk' = disk /\ rec' = rec
            \/ /\ ~ rec'.ready
               /\ \/ disk.batch = None /\ disk'.batch = None
                  \/ /\ disk'.batch \in Batch /\ disk'.batch.status = "failed"
                     /\ \/ /\ disk.batch # None /\ disk'.batch.ver = disk.batch.ver
                           /\ disk'.batch.sel = disk.batch.sel
                           /\ disk'.batch.files = disk.batch.files
                        \/ /\ disk'.batch.ver = op.man.ver /\ disk'.batch.sel = op.man.sel
                           /\ disk'.batch.files \subseteq CasesOf(op.man.sel)
                           /\ disk'.batch.files # CasesOf(op.man.sel)
<1> DEFINE jobs == Jobs(op.man.sel)
           n == Taken(jobs, op.bad)
           man(k, status) == [op.man EXCEPT !.files = FirstJobs(jobs, k), !.status = status]
           saved(k, status) == [disk EXCEPT !.batch = man(k, status)]
<1>1. /\ op.at = "generating" /\ Gathered /\ wipe = None
      /\ op' = Idle /\ calls' = calls /\ strays' = strays /\ wipe' = wipe
  BY DEF Collect
<1>2. op.man \in Batch /\ disk \in Disk /\ rec \in Record
  BY <1>1, WorkingMan DEF Working, TypeInv
<1>3. /\ jobs \in Seq(Cases) /\ Len(jobs) \in Nat /\ Range(jobs) = CasesOf(op.man.sel)
      /\ n \in 0 .. Len(jobs) /\ (n = Len(jobs) => CasesOf(op.man.sel) \cap op.bad = {})
      /\ \A i, j \in 1 .. Len(jobs) : jobs[i] = jobs[j] => i = j
  <2>1. /\ jobs \in Seq(Cases) /\ Len(jobs) \in Nat /\ Range(jobs) = CasesOf(op.man.sel)
        /\ \A i, j \in 1 .. Len(jobs) : jobs[i] = jobs[j] => i = j
    BY JobsOf
  <2> HIDE DEF jobs
  <2> QED BY <2>1, TakenOf
<1>4. IF n = Len(jobs)
      THEN disk' = saved(n, "generated") /\ rec' = GenerationComplete(rec, op.man.sel)
      ELSE FailToAgent4(IF Checkpointed(n) = 0 THEN disk ELSE saved(Checkpointed(n), "generating"))
  BY DEF Collect
<1> HIDE DEF jobs, n
<1>5. ASSUME NEW k \in 0 .. Len(jobs), NEW s \in Statuses
      PROVE  /\ man(k, s) \in Batch /\ man(k, s).status = s
             /\ man(k, s).ver = op.man.ver /\ man(k, s).code = op.man.code
             /\ man(k, s).sel = op.man.sel /\ man(k, s).done = op.man.done
             /\ man(k, s).files = FirstJobs(jobs, k)
             /\ man(k, s).files \subseteq CasesOf(op.man.sel)
             /\ (k = Len(jobs) <=> man(k, s).files = CasesOf(op.man.sel))
             /\ saved(k, s) \in Disk /\ saved(k, s).batch = man(k, s)
             /\ saved(k, s).draft = disk.draft /\ saved(k, s).rel = disk.rel
             /\ saved(k, s).proj = disk.proj
             /\ saved(k, s).inp = disk.inp /\ saved(k, s).out = disk.out
  <2>1. /\ FirstJobs(jobs, k) \in SUBSET Cases /\ FirstJobs(jobs, k) \subseteq CasesOf(op.man.sel)
        /\ (k = Len(jobs) => FirstJobs(jobs, k) = CasesOf(op.man.sel))
    BY <1>3, FirstOf
  <2>4. k # Len(jobs) => FirstJobs(jobs, k) # CasesOf(op.man.sel)
    <3>1. k # Len(jobs) => k < Len(jobs)
      BY <1>3
    <3> QED BY <1>3, <3>1, FirstLeaves
  <2>2. /\ man(k, s) \in Batch /\ man(k, s).status = s
        /\ man(k, s).ver = op.man.ver /\ man(k, s).code = op.man.code
        /\ man(k, s).sel = op.man.sel /\ man(k, s).done = op.man.done
        /\ man(k, s).files = FirstJobs(jobs, k)
    BY <1>2, <2>1 DEF Batch, Statuses
  <2> HIDE DEF man
  <2>3. /\ saved(k, s) \in Disk /\ saved(k, s).batch = man(k, s)
        /\ saved(k, s).draft = disk.draft /\ saved(k, s).rel = disk.rel
        /\ saved(k, s).proj = disk.proj
        /\ saved(k, s).inp = disk.inp /\ saved(k, s).out = disk.out
    BY <1>2, <2>2 DEF Disk
  <2> QED BY <2>1, <2>2, <2>3, <2>4
<1>6. CASE n = Len(jobs)
  <2>1. disk' = saved(n, "generated") /\ rec' = GenerationComplete(rec, op.man.sel)
    BY <1>4, <1>6
  <2>2. n \in 0 .. Len(jobs) /\ "generated" \in Statuses
    BY <1>3 DEF Statuses
  <2>3. rec' \in Record /\ rec'.ver = rec.ver /\ ~ rec'.ready
    BY <1>1, <1>2, <2>1, WorkingMan DEF GenerationComplete, Record, Working
  <2> HIDE DEF saved, man
  <2> QED BY <1>1, <1>3, <1>5, <1>6, <2>1, <2>2, <2>3
<1>7. CASE n # Len(jobs)
  <2> DEFINE k == Checkpointed(n)
             d == IF k = 0 THEN disk ELSE saved(k, "generating")
  <2>1. k \in 0 .. Len(jobs) /\ k # Len(jobs)
    <3>1. n \in Nat /\ n < Len(jobs)
      BY <1>3, <1>7
    <3>2. k \in 0 .. n
      BY <3>1, CheckpointedOf
    <3> QED BY <1>3, <3>1, <3>2
  <2>2. FailToAgent4(d)
    BY <1>4, <1>7
  <2> HIDE DEF k
  <2>3. saved(k, "generating") \in Disk /\ saved(k, "generating").batch = man(k, "generating")
        /\ man(k, "generating") \in Batch /\ man(k, "generating").ver = op.man.ver
        /\ man(k, "generating").sel = op.man.sel
        /\ man(k, "generating").files \subseteq CasesOf(op.man.sel)
        /\ man(k, "generating").files # CasesOf(op.man.sel)
        /\ saved(k, "generating").draft = disk.draft /\ saved(k, "generating").rel = disk.rel
        /\ saved(k, "generating").inp = disk.inp /\ saved(k, "generating").out = disk.out
    BY <1>5, <2>1 DEF Statuses
  <2> HIDE DEF saved, man
  <2>4. /\ d \in Disk /\ d.inp = disk.inp /\ d.out = disk.out
        /\ d.draft = disk.draft /\ d.rel = disk.rel
        /\ d.batch = disk.batch \/ d.batch = man(k, "generating")
    BY <1>2, <2>3
  <2> HIDE DEF d
  <2>5. /\ disk' \in Disk /\ rec' \in Record /\ rec'.ver = rec.ver
        /\ disk'.inp = disk.inp /\ disk'.out = disk.out
        /\ disk'.draft = disk.draft /\ disk'.rel = disk.rel
        /\ \/ disk' = disk /\ rec' = rec
           \/ /\ ~ rec'.ready
              /\ \/ d.batch = None /\ disk'.batch = None
                 \/ /\ d.batch # None /\ disk'.batch \in Batch
                    /\ disk'.batch.status = "failed"
                    /\ disk'.batch.ver = d.batch.ver /\ disk'.batch.code = d.batch.code
                    /\ disk'.batch.sel = d.batch.sel
                    /\ disk'.batch.files = d.batch.files /\ disk'.batch.done = d.batch.done
    BY <2>2, <2>4, FailFacts
  <2> QED BY <1>1, <2>3, <2>4, <2>5, NoneApart
<1> QED BY <1>6, <1>7

\* The same of the answers, where an input that the manifest does not list is a failure.
LEMMA SolvedFacts ==
  ASSUME TypeInv, CollectSolved
  PROVE  /\ op.at = "solving" /\ Gathered /\ wipe = None
         /\ op' = Idle /\ calls' = calls /\ strays' = strays /\ wipe' = wipe
         /\ disk' \in Disk /\ rec' \in Record /\ rec'.ver = rec.ver
         /\ disk'.inp = disk.inp /\ disk'.out = disk.out
         /\ disk'.draft = disk.draft /\ disk'.rel = disk.rel
         /\ \/ /\ CasesOf(op.man.sel) \cap op.bad = {}
               /\ CasesOf(op.man.sel) \subseteq op.man.files
               /\ disk'.batch \in Batch /\ disk'.batch.status = "completed"
               /\ disk'.batch.ver = op.man.ver /\ disk'.batch.code = op.man.code
               /\ disk'.batch.sel = op.man.sel /\ disk'.batch.done = CasesOf(op.man.sel)
               /\ disk'.batch.files = op.man.files
               /\ disk'.proj = disk.proj
               /\ rec' = ValidationComplete(rec)
            \/ disk' = disk /\ rec' = rec
            \/ /\ ~ rec'.ready
               /\ \/ disk.batch = None /\ disk'.batch = None
                  \/ /\ disk'.batch \in Batch /\ disk'.batch.status = "failed"
                     /\ \/ /\ disk.batch # None /\ disk'.batch.ver = disk.batch.ver
                           /\ disk'.batch.sel = disk.batch.sel
                           /\ disk'.batch.files = disk.batch.files
                        \/ /\ disk'.batch.ver = op.man.ver /\ disk'.batch.sel = op.man.sel
                           /\ disk'.batch.files = op.man.files
<1> DEFINE jobs == Jobs(op.man.sel)
           bad == op.bad \cup Unlisted(op.man.sel)
           n == Taken(jobs, bad)
           man(k, status) == [op.man EXCEPT !.done = FirstJobs(jobs, k), !.status = status]
           saved(k, status) == [disk EXCEPT !.batch = man(k, status)]
<1>1. /\ op.at = "solving" /\ Gathered /\ wipe = None
      /\ op' = Idle /\ calls' = calls /\ strays' = strays /\ wipe' = wipe
  BY DEF CollectSolved
<1>2. op.man \in Batch /\ disk \in Disk /\ rec \in Record
  BY <1>1, WorkingMan DEF Working, TypeInv
<1>3. /\ jobs \in Seq(Cases) /\ Len(jobs) \in Nat /\ Range(jobs) = CasesOf(op.man.sel)
      /\ n \in 0 .. Len(jobs) /\ (n = Len(jobs) => CasesOf(op.man.sel) \cap bad = {})
  <2>1. jobs \in Seq(Cases) /\ Len(jobs) \in Nat /\ Range(jobs) = CasesOf(op.man.sel)
    BY JobsOf
  <2> HIDE DEF jobs, bad
  <2> QED BY <2>1, TakenOf
<1>4. IF n = Len(jobs)
      THEN disk' = saved(n, "completed") /\ rec' = ValidationComplete(rec)
      ELSE FailToAgent4(IF Checkpointed(n) = 0 THEN disk ELSE saved(Checkpointed(n), "validating"))
  BY DEF CollectSolved
<1>8. CasesOf(op.man.sel) \cap bad = {} =>
        CasesOf(op.man.sel) \cap op.bad = {} /\ CasesOf(op.man.sel) \subseteq op.man.files
  BY DEF Unlisted
<1> HIDE DEF jobs, n, bad
<1>5. ASSUME NEW k \in 0 .. Len(jobs), NEW s \in Statuses
      PROVE  /\ man(k, s) \in Batch /\ man(k, s).status = s
             /\ man(k, s).ver = op.man.ver /\ man(k, s).code = op.man.code
             /\ man(k, s).sel = op.man.sel /\ man(k, s).files = op.man.files
             /\ (k = Len(jobs) => man(k, s).done = CasesOf(op.man.sel))
             /\ saved(k, s) \in Disk /\ saved(k, s).batch = man(k, s)
             /\ saved(k, s).draft = disk.draft /\ saved(k, s).rel = disk.rel
             /\ saved(k, s).proj = disk.proj
             /\ saved(k, s).inp = disk.inp /\ saved(k, s).out = disk.out
  <2>1. /\ FirstJobs(jobs, k) \in SUBSET Cases /\ FirstJobs(jobs, k) \subseteq CasesOf(op.man.sel)
        /\ (k = Len(jobs) => FirstJobs(jobs, k) = CasesOf(op.man.sel))
    BY <1>3, FirstOf
  <2>2. /\ man(k, s) \in Batch /\ man(k, s).status = s
        /\ man(k, s).ver = op.man.ver /\ man(k, s).code = op.man.code
        /\ man(k, s).sel = op.man.sel /\ man(k, s).files = op.man.files
        /\ man(k, s).done = FirstJobs(jobs, k)
    BY <1>2, <2>1 DEF Batch, Statuses
  <2> HIDE DEF man
  <2>3. /\ saved(k, s) \in Disk /\ saved(k, s).batch = man(k, s)
        /\ saved(k, s).draft = disk.draft /\ saved(k, s).rel = disk.rel
        /\ saved(k, s).proj = disk.proj
        /\ saved(k, s).inp = disk.inp /\ saved(k, s).out = disk.out
    BY <1>2, <2>2 DEF Disk
  <2> QED BY <2>1, <2>2, <2>3
<1>6. CASE n = Len(jobs)
  <2>1. disk' = saved(n, "completed") /\ rec' = ValidationComplete(rec)
    BY <1>4, <1>6
  <2>2. n \in 0 .. Len(jobs) /\ "completed" \in Statuses
    BY <1>3 DEF Statuses
  <2>3. rec' \in Record /\ rec'.ver = rec.ver
    BY <1>1, <1>2, <2>1, WorkingMan DEF ValidationComplete, Record, Working
  <2> HIDE DEF saved, man
  <2> QED BY <1>1, <1>3, <1>5, <1>6, <1>8, <2>1, <2>2, <2>3
<1>7. CASE n # Len(jobs)
  <2> DEFINE k == Checkpointed(n)
             d == IF k = 0 THEN disk ELSE saved(k, "validating")
  <2>1. k \in 0 .. Len(jobs)
    <3>1. n \in Nat /\ n <= Len(jobs)
      BY <1>3
    <3>2. k \in 0 .. n
      BY <3>1, CheckpointedOf
    <3> QED BY <1>3, <3>1, <3>2
  <2>2. FailToAgent4(d)
    BY <1>4, <1>7
  <2> HIDE DEF k
  <2>3. saved(k, "validating") \in Disk /\ saved(k, "validating").batch = man(k, "validating")
        /\ man(k, "validating") \in Batch /\ man(k, "validating").ver = op.man.ver
        /\ man(k, "validating").sel = op.man.sel
        /\ man(k, "validating").files = op.man.files
        /\ saved(k, "validating").draft = disk.draft /\ saved(k, "validating").rel = disk.rel
        /\ saved(k, "validating").inp = disk.inp /\ saved(k, "validating").out = disk.out
    BY <1>5, <2>1 DEF Statuses
  <2> HIDE DEF saved, man
  <2>4. /\ d \in Disk /\ d.inp = disk.inp /\ d.out = disk.out
        /\ d.draft = disk.draft /\ d.rel = disk.rel
        /\ d.batch = disk.batch \/ d.batch = man(k, "validating")
    BY <1>2, <2>3
  <2> HIDE DEF d
  <2>5. /\ disk' \in Disk /\ rec' \in Record /\ rec'.ver = rec.ver
        /\ disk'.inp = disk.inp /\ disk'.out = disk.out
        /\ disk'.draft = disk.draft /\ disk'.rel = disk.rel
        /\ \/ disk' = disk /\ rec' = rec
           \/ /\ ~ rec'.ready
              /\ \/ d.batch = None /\ disk'.batch = None
                 \/ /\ d.batch # None /\ disk'.batch \in Batch
                    /\ disk'.batch.status = "failed"
                    /\ disk'.batch.ver = d.batch.ver /\ disk'.batch.code = d.batch.code
                    /\ disk'.batch.sel = d.batch.sel
                    /\ disk'.batch.files = d.batch.files /\ disk'.batch.done = d.batch.done
    BY <2>2, <2>4, FailFacts
  <2> QED BY <1>1, <2>3, <2>4, <2>5, NoneApart
<1> QED BY <1>6, <1>7

\* The process stops inside a loop: a checkpoint, or the list of all of them.
LEMMA CutFacts ==
  ASSUME TypeInv, NEW k, CollectCut(k)
  PROVE  /\ op.at = "generating" /\ Gathered /\ wipe = None
         /\ op' = Idle /\ calls' = <<>> /\ strays' = strays /\ wipe' = wipe /\ rec' = rec
         /\ disk' \in Disk /\ disk'.proj = disk.proj
         /\ disk'.inp = disk.inp /\ disk'.out = disk.out
         /\ disk'.draft = disk.draft /\ disk'.rel = disk.rel
         /\ disk'.batch \in Batch /\ disk'.batch.status \in {"generating", "generated"}
         /\ disk'.batch.ver = op.man.ver /\ disk'.batch.code = op.man.code
         /\ disk'.batch.sel = op.man.sel /\ disk'.batch.done = op.man.done
         /\ disk'.batch.files \subseteq CasesOf(op.man.sel)
         /\ disk'.batch.files = CasesOf(op.man.sel) => CasesOf(op.man.sel) \cap op.bad = {}
<1> DEFINE jobs == Jobs(op.man.sel)
           n == Taken(jobs, op.bad)
           s == IF k = Len(jobs) THEN "generated" ELSE "generating"
           b == [op.man EXCEPT !.files = FirstJobs(jobs, k), !.status = s]
<1>1. /\ op.at = "generating" /\ Gathered /\ wipe = None
      /\ op' = Idle /\ calls' = <<>> /\ strays' = strays /\ wipe' = wipe /\ rec' = rec
      /\ k \in 1 .. n /\ disk' = [disk EXCEPT !.batch = b]
  BY DEF CollectCut, Stopped
<1>2. op.man \in Batch /\ disk \in Disk
  BY <1>1, WorkingMan DEF Working, TypeInv
<1>3. /\ jobs \in Seq(Cases) /\ Len(jobs) \in Nat /\ Range(jobs) = CasesOf(op.man.sel)
      /\ \A i, j \in 1 .. Len(jobs) : jobs[i] = jobs[j] => i = j
  BY JobsOf
<1>4. s \in Statuses /\ s \in {"generating", "generated"}
  BY DEF Statuses
<1> HIDE DEF jobs, s
<1>5. n \in 0 .. Len(jobs) /\ (n = Len(jobs) => CasesOf(op.man.sel) \cap op.bad = {})
  BY <1>3, TakenOf
<1> HIDE DEF n
<1>6. k \in 0 .. Len(jobs) /\ (k = Len(jobs) => n = Len(jobs))
  BY <1>1, <1>3, <1>5
<1>7. /\ FirstJobs(jobs, k) \in SUBSET Cases /\ FirstJobs(jobs, k) \subseteq CasesOf(op.man.sel)
      /\ (k < Len(jobs) => FirstJobs(jobs, k) # CasesOf(op.man.sel))
  BY <1>3, <1>6, FirstOf, FirstLeaves
<1>8. /\ b \in Batch /\ b.status = s /\ b.ver = op.man.ver /\ b.code = op.man.code
      /\ b.sel = op.man.sel /\ b.done = op.man.done /\ b.files = FirstJobs(jobs, k)
  BY <1>2, <1>4, <1>7 DEF Batch, Statuses
<1> HIDE DEF b
<1>9. /\ disk' \in Disk /\ disk'.proj = disk.proj
      /\ disk'.inp = disk.inp /\ disk'.out = disk.out
      /\ disk'.draft = disk.draft /\ disk'.rel = disk.rel /\ disk'.batch = b
  BY <1>1, <1>2, <1>8 DEF Disk
<1>10. b.files = CasesOf(op.man.sel) => CasesOf(op.man.sel) \cap op.bad = {}
  BY <1>3, <1>5, <1>6, <1>7, <1>8
<1> QED BY <1>1, <1>4, <1>7, <1>8, <1>9, <1>10

LEMMA SolvedCutFacts ==
  ASSUME TypeInv, NEW k, CollectSolvedCut(k)
  PROVE  /\ op.at = "solving" /\ Gathered /\ wipe = None
         /\ op' = Idle /\ calls' = <<>> /\ strays' = strays /\ wipe' = wipe /\ rec' = rec
         /\ disk' \in Disk /\ disk'.proj = disk.proj
         /\ disk'.inp = disk.inp /\ disk'.out = disk.out
         /\ disk'.draft = disk.draft /\ disk'.rel = disk.rel
         /\ disk'.batch \in Batch /\ disk'.batch.status \in {"validating", "completed"}
         /\ disk'.batch.ver = op.man.ver /\ disk'.batch.code = op.man.code
         /\ disk'.batch.sel = op.man.sel /\ disk'.batch.files = op.man.files
         /\ disk'.batch.done \subseteq CasesOf(op.man.sel)
         /\ disk'.batch.status = "completed" =>
              /\ disk'.batch.done = CasesOf(op.man.sel)
              /\ CasesOf(op.man.sel) \cap op.bad = {}
              /\ CasesOf(op.man.sel) \subseteq op.man.files
<1> DEFINE jobs == Jobs(op.man.sel)
           bad == op.bad \cup Unlisted(op.man.sel)
           n == Taken(jobs, bad)
           s == IF k = Len(jobs) THEN "completed" ELSE "validating"
           b == [op.man EXCEPT !.done = FirstJobs(jobs, k), !.status = s]
<1>1. /\ op.at = "solving" /\ Gathered /\ wipe = None
      /\ op' = Idle /\ calls' = <<>> /\ strays' = strays /\ wipe' = wipe /\ rec' = rec
      /\ k \in 1 .. n /\ disk' = [disk EXCEPT !.batch = b]
  BY DEF CollectSolvedCut, Stopped
<1>2. op.man \in Batch /\ disk \in Disk
  BY <1>1, WorkingMan DEF Working, TypeInv
<1>3. /\ jobs \in Seq(Cases) /\ Len(jobs) \in Nat /\ Range(jobs) = CasesOf(op.man.sel)
      /\ \A i, j \in 1 .. Len(jobs) : jobs[i] = jobs[j] => i = j
  BY JobsOf
<1>4. s \in Statuses /\ (s = "completed" => k = Len(jobs)) /\ s \in {"validating", "completed"}
  BY DEF Statuses
<1> HIDE DEF jobs, s
<1>5. CasesOf(op.man.sel) \cap bad = {} =>
         CasesOf(op.man.sel) \cap op.bad = {} /\ CasesOf(op.man.sel) \subseteq op.man.files
  BY DEF Unlisted
<1> HIDE DEF bad
<1>6. n \in 0 .. Len(jobs) /\ (n = Len(jobs) => CasesOf(op.man.sel) \cap bad = {})
  BY <1>3, TakenOf
<1> HIDE DEF n
<1>7. k \in 0 .. Len(jobs) /\ (k = Len(jobs) => n = Len(jobs))
  BY <1>1, <1>3, <1>6
<1>8. /\ FirstJobs(jobs, k) \in SUBSET Cases /\ FirstJobs(jobs, k) \subseteq CasesOf(op.man.sel)
      /\ (k = Len(jobs) => FirstJobs(jobs, k) = CasesOf(op.man.sel))
  BY <1>3, <1>7, FirstOf
<1>9. /\ b \in Batch /\ b.status = s /\ b.ver = op.man.ver /\ b.code = op.man.code
      /\ b.sel = op.man.sel /\ b.files = op.man.files /\ b.done = FirstJobs(jobs, k)
  BY <1>2, <1>4, <1>8 DEF Batch, Statuses
<1> HIDE DEF b
<1>10. /\ disk' \in Disk /\ disk'.proj = disk.proj
       /\ disk'.inp = disk.inp /\ disk'.out = disk.out
       /\ disk'.draft = disk.draft /\ disk'.rel = disk.rel /\ disk'.batch = b
  BY <1>1, <1>2, <1>9 DEF Disk
<1>11. b.status = "completed" =>
         /\ b.done = CasesOf(op.man.sel)
         /\ CasesOf(op.man.sel) \cap op.bad = {} /\ CasesOf(op.man.sel) \subseteq op.man.files
  BY <1>4, <1>6, <1>7, <1>8, <1>9, <1>5
<1> QED BY <1>1, <1>4, <1>8, <1>9, <1>10, <1>11

LEMMA TypeInit == Init => TypeInv
<1> SUFFICES ASSUME Init PROVE TypeInv
  OBVIOUS
<1>1. 1 \in Codes
  BY DatasetAssumption DEF Codes
<1>2. rec \in Record
  BY DEF Init, Record
<1>3. op \in Task /\ ~ Working
  BY IdleTask DEF Init, Working
<1>4. calls \in Seq(GoodCall) /\ strays \subseteq GoodCall /\ wipe \in Wipe \cup {None}
  BY DEF Init
<1>5. disk \in Disk
  BY <1>1 DEF Init, Disk, NoFiles
<1> QED BY <1>2, <1>3, <1>4, <1>5 DEF TypeInv

LEMMA IdleTypes ==
  ASSUME op' = Idle
  PROVE  op' \in Task /\ ~ Working'
BY IdleTask DEF Working

\* The kinds of steps: of the containers, ...
LEMMA RunnerTypes ==
  ASSUME TypeInv, Runner
  PROVE  TypeInv'
<1>1. ASSUME NEW i \in DOMAIN calls, NEW ok \in BOOLEAN, RunnerOpens(i, ok)
      PROVE  TypeInv'
  <2>1. rec' = rec /\ op' = op /\ strays' = strays /\ wipe' = wipe
    BY <1>1 DEF RunnerOpens
  <2>2. calls' \in Seq(GoodCall) /\ disk' \in Disk
    BY <1>1, OpensFacts
  <2> QED BY <2>1, <2>2 DEF TypeInv, Working
<1>2. ASSUME NEW i \in DOMAIN calls, NEW ok \in BOOLEAN, RunnerCloses(i, ok)
      PROVE  TypeInv'
  <2>1. rec' = rec /\ op' = op /\ strays' = strays /\ wipe' = wipe
    BY <1>2 DEF RunnerCloses
  <2>2. calls' \in Seq(GoodCall) /\ disk' \in Disk
    BY <1>2, ClosesFacts
  <2> QED BY <2>1, <2>2 DEF TypeInv, Working
<1>3. ASSUME NEW c \in strays, StrayEnds(c) PROVE TypeInv'
  BY <1>3 DEF TypeInv, StrayEnds, Working
<1>4. ASSUME NEW c \in strays, NEW ok \in BOOLEAN, StrayOpens(c, ok)
      PROVE  TypeInv'
  <2>1. rec' = rec /\ op' = op /\ calls' = calls /\ wipe' = wipe
    BY <1>4 DEF StrayOpens
  <2>2. c \in GoodCall /\ ~ c.open /\ c.todo # <<>> /\ disk \in Disk
    BY <1>4 DEF StrayOpens, TypeInv
  <2>3. Opened(c, ok) \in GoodCall /\ OpenedOn(disk, c) \in Disk
    BY <2>2, OpenedCall, OpenedDisk
  <2>4. strays' \subseteq GoodCall /\ disk' \in Disk
    BY <1>4, <2>2, <2>3 DEF StrayOpens, TypeInv
  <2> QED BY <2>1, <2>4 DEF TypeInv, Working
<1>5. ASSUME NEW c \in strays, NEW ok \in BOOLEAN, StrayCloses(c, ok)
      PROVE  TypeInv'
  <2>1. rec' = rec /\ op' = op /\ calls' = calls /\ wipe' = wipe
    BY <1>5 DEF StrayCloses
  <2>2. c \in GoodCall /\ c.open /\ disk \in Disk
    BY <1>5 DEF StrayCloses, TypeInv
  <2>3. Closed(c, ok) \in GoodCall /\ ClosedOn(disk, c) \in Disk
    BY <2>2, ClosedCall, ClosedDisk
  <2>4. strays' \subseteq GoodCall /\ disk' \in Disk
    BY <1>5, <2>2, <2>3 DEF StrayCloses, TypeInv
  <2> QED BY <2>1, <2>4 DEF TypeInv, Working
<1>6. ASSUME NEW i \in DOMAIN calls, CallReturns(i) PROVE TypeInv'
  <2>1. rec' = rec /\ disk' = disk /\ strays' = strays /\ wipe' = wipe /\ calls' = RemoveAt(calls, i)
    BY <1>6 DEF CallReturns
  <2>2. calls \in Seq(GoodCall) /\ i \in 1 .. Len(calls) /\ calls[i] \in GoodCall
    BY CallAt DEF TypeInv
  <2>3. calls' \in Seq(GoodCall)
    BY <2>1, <2>2, Removed
  <2>4. calls[i].bad \in SUBSET Cases
    BY <2>2 DEF GoodCall, Call
  <2>5. op' = [op EXCEPT !.bad = op.bad \cup calls[i].bad] \/ op' = op
    BY <1>6 DEF CallReturns
  <2>6. op' \in Task /\ op'.at = op.at /\ op'.man = op.man
    BY <2>4, <2>5 DEF TypeInv, Task
  <2> QED BY <2>1, <2>3, <2>6 DEF TypeInv, Working
<1> QED BY <1>1, <1>2, <1>3, <1>4, <1>5, <1>6 DEF Runner

\* ... of the tasks, ...
LEMMA GenCompileFacts ==
  ASSUME TypeInv, NEW ok \in BOOLEAN, GenCompileReturns(ok)
  PROVE  /\ op.at = "gencompile" /\ wipe = None /\ strays' = strays /\ wipe' = wipe
         /\ \/ /\ disk' = DataCleared(disk) /\ disk' \in Disk
               /\ calls' = calls \o ChunkCalls("generate", Jobs(op.man.sel))
               /\ calls' \in Seq(GoodCall)
               /\ op' = [op EXCEPT !.at = "generating"] /\ rec' = rec
            \/ /\ FailToAgent4(disk) /\ op' = Idle /\ calls' = calls
<1>1. op.at = "gencompile" /\ wipe = None /\ strays' = strays /\ wipe' = wipe
  BY DEF GenCompileReturns
<1>2. DataCleared(disk) \in Disk
  BY DEF TypeInv, Disk, DataCleared, NoFiles
<1>3. calls \o ChunkCalls("generate", Jobs(op.man.sel)) \in Seq(GoodCall)
  <2>1. ChunkCalls("generate", Jobs(op.man.sel)) \in Seq(GoodCall)
    BY ChunkCallsOf
  <2> HIDE DEF GoodCall
  <2> QED BY <2>1, ConcatProperties DEF TypeInv
<1> QED BY <1>1, <1>2, <1>3 DEF GenCompileReturns

LEMMA ValCompileFacts ==
  ASSUME TypeInv, NEW ok \in BOOLEAN, ValCompileReturns(ok)
  PROVE  /\ op.at = "valcompile" /\ wipe = None /\ strays' = strays /\ wipe' = wipe
         /\ \/ /\ \A c \in CasesOf(op.man.sel) : disk.inp[c] # None
               /\ calls' = calls \o ChunkCalls("solve", Jobs(op.man.sel))
               /\ calls' \in Seq(GoodCall)
               /\ op' = [op EXCEPT !.at = "solving"] /\ rec' = rec /\ disk' = disk
            \/ /\ FailToAgent4(disk) /\ op' = Idle /\ calls' = calls
<1>1. op.at = "valcompile" /\ wipe = None /\ strays' = strays /\ wipe' = wipe
  BY DEF ValCompileReturns
<1>3. calls \o ChunkCalls("solve", Jobs(op.man.sel)) \in Seq(GoodCall)
  <2>1. ChunkCalls("solve", Jobs(op.man.sel)) \in Seq(GoodCall)
    BY ChunkCallsOf
  <2> HIDE DEF GoodCall
  <2> QED BY <2>1, ConcatProperties DEF TypeInv
<1> QED BY <1>1, <1>3 DEF ValCompileReturns

LEMMA FailTypes ==
  ASSUME TypeInv, FailToAgent4(disk)
  PROVE  disk' \in Disk /\ rec' \in Record
<1>1. disk \in Disk
  BY DEF TypeInv
<1> QED BY <1>1, FailFacts

LEMMA MovedTask ==
  ASSUME TypeInv, NEW at \in {"idle", "gencompile", "generating", "valcompile", "solving",
                              "check", "list", "packcode", "pack", "packed"},
         op' = [op EXCEPT !.at = at]
  PROVE  /\ op' \in Task /\ op'.at = at /\ op'.man = op.man /\ op'.bad = op.bad
         /\ op'.left = op.left /\ op'.code = op.code /\ op'.got = op.got /\ op'.whole = op.whole
BY DEF TypeInv, Task

LEMMA ServerTypes ==
  ASSUME TypeInv, Server
  PROVE  TypeInv'
<1>1. ASSUME NEW ok \in BOOLEAN, GenCompileReturns(ok) PROVE TypeInv'
  <2>1. op.at = "gencompile" /\ strays' = strays /\ wipe' = wipe
    BY <1>1, GenCompileFacts
  <2>2. CASE /\ disk' \in Disk /\ calls' \in Seq(GoodCall)
             /\ op' = [op EXCEPT !.at = "generating"] /\ rec' = rec
    BY <2>1, <2>2, MovedTask DEF TypeInv, Working
  <2>3. CASE FailToAgent4(disk) /\ op' = Idle /\ calls' = calls
    BY <2>1, <2>3, FailTypes, IdleTypes DEF TypeInv
  <2> QED BY <1>1, <2>2, <2>3, GenCompileFacts
<1>2. ASSUME NEW ok \in BOOLEAN, ValCompileReturns(ok) PROVE TypeInv'
  <2>1. op.at = "valcompile" /\ strays' = strays /\ wipe' = wipe
    BY <1>2, ValCompileFacts
  <2>2. CASE /\ disk' = disk /\ calls' \in Seq(GoodCall)
             /\ op' = [op EXCEPT !.at = "solving"] /\ rec' = rec
    BY <2>1, <2>2, MovedTask DEF TypeInv, Working
  <2>3. CASE FailToAgent4(disk) /\ op' = Idle /\ calls' = calls
    BY <2>1, <2>3, FailTypes, IdleTypes DEF TypeInv
  <2> QED BY <1>2, <2>2, <2>3, ValCompileFacts
<1>3. ASSUME Collect PROVE TypeInv'
  <2>1. op' = Idle /\ calls' = calls /\ strays' = strays /\ wipe' = wipe
        /\ disk' \in Disk /\ rec' \in Record
    BY <1>3, CollectFacts
  <2> QED BY <2>1, IdleTypes DEF TypeInv
<1>4. ASSUME CollectSolved PROVE TypeInv'
  <2>1. op' = Idle /\ calls' = calls /\ strays' = strays /\ wipe' = wipe
        /\ disk' \in Disk /\ rec' \in Record
    BY <1>4, SolvedFacts
  <2> QED BY <2>1, IdleTypes DEF TypeInv
<1>5. ASSUME ExportCheck PROVE TypeInv'
  <2>1. rec' = rec /\ calls' = calls /\ strays' = strays /\ wipe' = wipe
        /\ disk' \in {disk, Verified(disk)}
        /\ (op' = [op EXCEPT !.at = "list", !.man = disk.batch] \/ op' = Idle)
    BY <1>5 DEF ExportCheck
  <2>2. disk' \in Disk
    BY <2>1, DiskVerified DEF TypeInv
  <2>3. op' \in Task /\ ~ Working'
    BY <2>1, IdleTypes DEF TypeInv, Task, Disk, Working
  <2> QED BY <2>1, <2>2, <2>3 DEF TypeInv
<1>6. ASSUME ExportList PROVE TypeInv'
  <2> DEFINE ins == {c \in Cases : disk.inp[c] # None}
  <2>1. /\ rec' = rec /\ disk' = disk /\ calls' = calls /\ strays' = strays /\ wipe' = wipe
        /\ (op' = [op EXCEPT !.at = "packcode", !.left = ins] \/ op' = Idle)
    BY <1>6 DEF ExportList
  <2>2. ins \in SUBSET Cases
    OBVIOUS
  <2> HIDE DEF ins
  <2>3. op' \in Task /\ ~ Working'
    BY <2>1, <2>2, IdleTypes DEF TypeInv, Task, Working
  <2> QED BY <2>1, <2>3 DEF TypeInv
<1>7. ASSUME PackCode PROVE TypeInv'
  <2>1. /\ rec' = rec /\ disk' = disk /\ calls' = calls /\ strays' = strays /\ wipe' = wipe
        /\ (op' = [op EXCEPT !.at = "pack", !.code = Visible(disk)] \/ op' = Idle)
    BY <1>7 DEF PackCode
  <2>2. Visible(disk) \in Codes \cup {None}
    BY DEF TypeInv, Disk, Visible
  <2>3. op' \in Task /\ ~ Working'
    BY <2>1, <2>2, IdleTypes, ZenonT(60) DEF TypeInv, Task, Working
  <2> QED BY <2>1, <2>3 DEF TypeInv
<1>8. ASSUME ExportReturns PROVE TypeInv'
  BY <1>8, IdleTypes DEF TypeInv, ExportReturns
<1>9. ASSUME NEW c \in Cases, PackFile(c) PROVE TypeInv'
  <2> DEFINE w == op.whole /\ disk.inp[c] = "whole" /\ disk.out[c] = "whole"
             at == IF op.left = {c} THEN "packed" ELSE "pack"
  <2>1. /\ rec' = rec /\ disk' = disk /\ calls' = calls /\ strays' = strays /\ wipe' = wipe
        /\ \/ op' = [op EXCEPT !.left = op.left \ {c}, !.got = op.got \cup {c}, !.whole = w, !.at = at]
           \/ op' = Idle
    BY <1>9 DEF PackFile
  <2>2. w \in BOOLEAN /\ at \in {"packed", "pack"}
    BY DEF TypeInv, Task
  <2> HIDE DEF w, at
  <2>3. CASE op' = [op EXCEPT !.left = op.left \ {c}, !.got = op.got \cup {c}, !.whole = w, !.at = at]
    <3>1. op'.at = at /\ ~ Working'
      BY <2>2, <2>3 DEF TypeInv, Task, Working
    <3>2. op' \in Task
      BY <2>2, <2>3 DEF TypeInv, Task
    <3> QED BY <2>1, <3>1, <3>2 DEF TypeInv
  <2>4. CASE op' = Idle
    BY <2>1, <2>4, IdleTypes DEF TypeInv
  <2> QED BY <2>1, <2>3, <2>4
<1>10. ASSUME WipeRelease PROVE TypeInv'
  <2>1. /\ rec' = rec /\ op' = op /\ calls' = calls /\ strays' = strays
        /\ disk' = [disk EXCEPT !.draft = None, !.rel = None, !.proj = "draft"]
        /\ wipe # None /\ wipe' = [wipe EXCEPT !.todo = {"batch"}]
    BY <1>10 DEF WipeRelease
  <2>2. disk' \in Disk
    BY <2>1 DEF TypeInv, Disk
  <2>3. wipe' \in Wipe
    BY <2>1 DEF TypeInv, Wipe
  <2> QED BY <2>1, <2>2, <2>3 DEF TypeInv, Working
<1>11. ASSUME WipeBatch PROVE TypeInv'
  <2> DEFINE p == IF disk.rel = None THEN "draft" ELSE "release"
  <2>1. /\ rec' = rec /\ op' = op /\ calls' = calls /\ strays' = strays
        /\ disk' = [disk EXCEPT !.batch = None, !.proj = p]
        /\ wipe # None /\ wipe' = [wipe EXCEPT !.todo = {}, !.left = Files(disk)]
    BY <1>11 DEF WipeBatch
  <2>2. p \in {"draft", "release"} /\ Files(disk) \in SUBSET (Cases \X {"in", "out"})
    BY DEF Files
  <2> HIDE DEF p
  <2>3. disk' \in Disk
    BY <2>1, <2>2 DEF TypeInv, Disk
  <2>4. wipe' \in Wipe
    BY <2>1, <2>2 DEF TypeInv, Wipe
  <2> QED BY <2>1, <2>3, <2>4 DEF TypeInv, Working
<1>12. ASSUME WipeEnds PROVE TypeInv'
  <2>1. disk' = disk /\ op' = op /\ calls' = calls /\ strays' = strays /\ wipe' = None
        /\ rec' = wipe.rec /\ wipe # None
    BY <1>12 DEF WipeEnds
  <2>2. rec' \in Record
    BY <2>1 DEF TypeInv, Wipe
  <2> QED BY <2>1, <2>2 DEF TypeInv, Working
<1>13. ASSUME NEW f \in Cases \X {"in", "out"}, WipeFile(f) PROVE TypeInv'
  <2>1. /\ rec' = rec /\ op' = op /\ calls' = calls /\ strays' = strays
        /\ (disk' = [disk EXCEPT !.inp[f[1]] = None] \/ disk' = [disk EXCEPT !.out[f[1]] = None])
        /\ wipe # None /\ wipe' = [wipe EXCEPT !.left = wipe.left \ {f}]
    BY <1>13 DEF WipeFile
  <2>2. disk' \in Disk
    <3>1. f[1] \in Cases /\ None \in File \cup {None} /\ disk \in Disk
      BY DEF TypeInv
    <3>2. CASE disk' = [disk EXCEPT !.inp[f[1]] = None]
      BY <3>1, <3>2, DiskInput
    <3>3. CASE disk' = [disk EXCEPT !.out[f[1]] = None]
      BY <3>1, <3>3, DiskOutput
    <3> QED BY <2>1, <3>2, <3>3
  <2>3. wipe' \in Wipe
    BY <2>1 DEF TypeInv, Wipe
  <2> QED BY <2>1, <2>2, <2>3 DEF TypeInv, Working
<1> QED BY <1>1, <1>2, <1>3, <1>4, <1>5, <1>6, <1>7, <1>8, <1>9, <1>10, <1>11, <1>12, <1>13
        DEF Server

\* ... of the user ...
LEMMA StartedTask ==
  ASSUME NEW at \in {"gencompile", "valcompile", "check"}, NEW man \in Batch \cup {None},
         op' = [Idle EXCEPT !.at = at, !.man = man]
  PROVE  /\ op' \in Task /\ op'.at = at /\ op'.man = man /\ op'.bad = {} /\ op'.got = {}
         /\ op'.left = {} /\ op'.whole
BY DEF Idle, Task

LEMMA GenerateFacts ==
  ASSUME TypeInv, NEW sel \in (SUBSET Subtasks) \ {{}}, GenerateStart(sel)
  PROVE  /\ wipe = None /\ op.at = "idle" /\ rec' = rec /\ wipe' = wipe
         /\ calls' = AgedCalls(calls) /\ calls' \in Seq(GoodCall) /\ strays' \subseteq GoodCall
         /\ (strays = {} => strays' = {})
         /\ op' \in Task /\ op'.at = "gencompile" /\ op'.bad = {}
         /\ op'.man \in Batch /\ op'.man.ver = rec.ver /\ op'.man.code = disk.rel
         /\ op'.man.sel = sel /\ op'.man.status = "generating" /\ op'.man.files = {}
         /\ disk' \in Disk /\ disk'.batch = op'.man /\ disk'.draft = disk.draft
         /\ disk'.rel = disk.rel /\ disk'.proj = "release"
<1> DEFINE man == [ver |-> rec.ver, code |-> disk.rel, sel |-> sel,
                   status |-> "generating", files |-> {}, done |-> {}]
<1>1. /\ wipe = None /\ op.at = "idle" /\ rec' = rec /\ wipe' = wipe
      /\ calls' = AgedCalls(calls) /\ strays' = {[c EXCEPT !.now = FALSE] : c \in strays}
      /\ op' = [Idle EXCEPT !.at = "gencompile", !.man = man]
      /\ disk' = [Verified(disk) EXCEPT !.batch = man, !.inp = Aged(disk.inp), !.out = Aged(disk.out)]
      /\ disk.rel # None
  BY DEF GenerateStart, MayGenerate
<1>2. disk \in Disk /\ rec \in Record /\ calls \in Seq(GoodCall) /\ strays \subseteq GoodCall
  BY DEF TypeInv
<1>3. /\ man \in Batch /\ man.ver = rec.ver /\ man.code = disk.rel /\ man.sel = sel
      /\ man.status = "generating" /\ man.files = {}
  BY <1>1, <1>2 DEF Disk, Record, Batch
<1> HIDE DEF man
<1>4. op' \in Task /\ op'.at = "gencompile" /\ op'.man = man /\ op'.bad = {}
  BY <1>1, <1>3, StartedTask
<1>5. calls' \in Seq(GoodCall)
  BY <1>1, <1>2, CallsChanged
<1>6. strays' \subseteq GoodCall
  BY <1>1, <1>2, Unwaited
<1>7. \A files \in [Cases -> File \cup {None}] : Aged(files) \in [Cases -> File \cup {None}]
  BY DEF Aged, File
<1>8. Aged(disk.inp) \in [Cases -> File \cup {None}] /\ Aged(disk.out) \in [Cases -> File \cup {None}]
  BY <1>2, <1>7 DEF Disk
<1>9. /\ disk' \in Disk /\ disk'.batch = man /\ disk'.draft = disk.draft
      /\ disk'.rel = disk.rel /\ disk'.proj = "release"
  <2>1. /\ Verified(disk) \in Disk /\ Verified(disk).proj = "release"
        /\ Verified(disk).draft = disk.draft /\ Verified(disk).rel = disk.rel
    BY <1>2, DiskVerified
  <2> QED BY <1>1, <1>3, <1>8, <2>1 DEF Disk
<1> QED BY <1>1, <1>3, <1>4, <1>5, <1>6, <1>9

LEMMA ValidateFacts ==
  ASSUME TypeInv, NEW sel \in (SUBSET Subtasks) \ {{}}, ValidateStart(sel)
  PROVE  /\ wipe = None /\ op.at = "idle" /\ rec' = rec /\ wipe' = wipe
         /\ calls' = calls /\ strays' = strays
         /\ op' \in Task /\ op'.at = "valcompile" /\ op'.bad = {}
         /\ disk.batch \in Batch /\ ManifestMatches(rec, disk, disk.batch)
         /\ op'.man \in Batch /\ op'.man.ver = disk.batch.ver /\ op'.man.code = disk.batch.code
         /\ op'.man.sel = disk.batch.sel /\ op'.man.status = "validating"
         /\ op'.man.files = disk.batch.files
         /\ disk' \in Disk /\ disk'.batch = op'.man /\ disk'.draft = disk.draft
         /\ disk'.rel = disk.rel /\ disk'.inp = disk.inp /\ disk'.out = disk.out
<1> DEFINE man == [disk.batch EXCEPT !.status = "validating"]
<1>1. /\ wipe = None /\ op.at = "idle" /\ rec' = rec /\ wipe' = wipe
      /\ calls' = calls /\ strays' = strays
      /\ op' = [Idle EXCEPT !.at = "valcompile", !.man = man]
      /\ disk' = [Verified(disk) EXCEPT !.batch = man]
      /\ disk.batch # None /\ ManifestMatches(rec, disk, disk.batch)
  BY DEF ValidateStart, MayValidate
<1>2. disk \in Disk /\ disk.batch \in Batch
  BY <1>1 DEF TypeInv, Disk
<1>3. /\ man \in Batch /\ man.ver = disk.batch.ver /\ man.code = disk.batch.code
      /\ man.sel = disk.batch.sel /\ man.status = "validating" /\ man.files = disk.batch.files
  BY <1>2 DEF Batch
<1> HIDE DEF man
<1>4. op' \in Task /\ op'.at = "valcompile" /\ op'.man = man /\ op'.bad = {}
  BY <1>1, <1>3, StartedTask
<1>5. /\ disk' \in Disk /\ disk'.batch = man /\ disk'.draft = disk.draft
      /\ disk'.rel = disk.rel /\ disk'.inp = disk.inp /\ disk'.out = disk.out
  <2>1. /\ Verified(disk) \in Disk /\ Verified(disk).inp = disk.inp /\ Verified(disk).out = disk.out
        /\ Verified(disk).draft = disk.draft /\ Verified(disk).rel = disk.rel
    BY <1>2, DiskVerified
  <2> DEFINE v == Verified(disk)
  <2>2. disk' = [v EXCEPT !.batch = man]
    BY <1>1
  <2>3. v \in Disk
    BY <2>1
  <2> HIDE DEF v
  <2>4. /\ disk' \in Disk /\ disk'.batch = man /\ disk'.draft = v.draft
        /\ disk'.rel = v.rel /\ disk'.inp = v.inp /\ disk'.out = v.out
    BY <1>3, <2>2, <2>3 DEF Disk
  <2> QED BY <2>1, <2>4 DEF v
<1> QED BY <1>1, <1>2, <1>3, <1>4, <1>5

\* The wipe that an edit begins.
LEMMA WipeFacts ==
  ASSUME TypeInv, NEW todo \in SUBSET {"release", "batch"},
         wipe' = [todo |-> todo, left |-> {},
                  rec |-> [rec EXCEPT !.ver = rec.ver + 1, !.st5 = "draft", !.gen = FALSE,
                                      !.subs = {}, !.ready = FALSE]]
  PROVE  /\ wipe' \in Wipe /\ wipe' # None /\ wipe'.todo = todo /\ wipe'.left = {}
         /\ wipe'.rec.ver = rec.ver + 1 /\ ~ wipe'.rec.ready
<1> DEFINE r == [rec EXCEPT !.ver = rec.ver + 1, !.st5 = "draft", !.gen = FALSE,
                            !.subs = {}, !.ready = FALSE]
<1>1. r \in Record /\ r.ver = rec.ver + 1 /\ ~ r.ready
  <2>1. rec \in Record
    BY DEF TypeInv
  <2>2. rec.ver + 1 \in Nat /\ "draft" \in {"draft", "waiting", "passed"} /\ FALSE \in BOOLEAN
        /\ {} \in SUBSET Subtasks
    BY <2>1 DEF Record
  <2>3. r \in Record
    BY <2>1, <2>2 DEF Record
  <2>4. r.ver = rec.ver + 1
    BY <2>1 DEF Record
  <2>5. ~ r.ready
    BY <2>1 DEF Record
  <2> QED BY <2>3, <2>4, <2>5
<1>2. wipe' = [todo |-> todo, left |-> {}, rec |-> r]
  OBVIOUS
<1> HIDE DEF r
<1>3. wipe' \in Wipe /\ wipe'.todo = todo /\ wipe'.left = {} /\ wipe'.rec = r
  BY <1>1, <1>2 DEF Wipe
<1> QED BY <1>1, <1>3, NoneApart

LEMMA UserTypes ==
  ASSUME TypeInv, User
  PROVE  TypeInv'
<1>1. ASSUME NEW sel \in (SUBSET Subtasks) \ {{}}, GenerateStart(sel) PROVE TypeInv'
  <2>1. /\ rec' = rec /\ wipe' = wipe /\ calls' \in Seq(GoodCall) /\ strays' \subseteq GoodCall
        /\ op' \in Task /\ op'.man # None /\ disk' \in Disk
    BY <1>1, GenerateFacts, NoneApart
  <2> QED BY <2>1 DEF TypeInv
<1>2. ASSUME NEW sel \in (SUBSET Subtasks) \ {{}}, ValidateStart(sel) PROVE TypeInv'
  <2>1. /\ rec' = rec /\ wipe' = wipe /\ calls' = calls /\ strays' = strays
        /\ op' \in Task /\ op'.man # None /\ disk' \in Disk
    BY <1>2, ValidateFacts, NoneApart
  <2> QED BY <2>1 DEF TypeInv
<1>3. ASSUME ExportStart PROVE TypeInv'
  BY <1>3 DEF ExportStart, TypeInv, Task, Idle, Working
<1>4. ASSUME UpdateSolution PROVE TypeInv'
  <2>1. wipe' \in Wipe /\ rec' = rec /\ disk' = disk /\ op' = op /\ calls' = calls /\ strays' = strays
    BY <1>4, WipeFacts DEF UpdateSolution
  <2> QED BY <2>1 DEF TypeInv, Working
<1>5. ASSUME Confirm PROVE TypeInv'
  <2>1. /\ disk' = [disk EXCEPT !.rel = disk.draft, !.proj = "release"]
        /\ rec' = [rec EXCEPT !.st5 = "passed"]
        /\ op' = op /\ calls' = calls /\ strays' = strays /\ wipe' = wipe
    BY <1>5 DEF Confirm
  <2>2. disk' \in Disk
    BY <2>1 DEF TypeInv, Disk
  <2>3. rec' \in Record
    BY <2>1 DEF TypeInv, Record
  <2> QED BY <2>1, <2>2, <2>3 DEF TypeInv, Working
<1>6. ASSUME NEW c \in Codes, SaveUserDraft(c) PROVE TypeInv'
  <2>1. /\ disk' = [disk EXCEPT !.draft = c, !.proj = "draft"]
        /\ rec' = rec /\ op' = op /\ calls' = calls /\ strays' = strays
    BY <1>6 DEF SaveUserDraft
  <2>2. wipe' \in Wipe
    BY <1>6, WipeFacts DEF SaveUserDraft
  <2>3. disk' \in Disk
    BY <2>1 DEF TypeInv, Disk
  <2> QED BY <2>1, <2>2, <2>3 DEF TypeInv, Working
<1>7. ASSUME NEW c \in Codes, AgentPasses(c) PROVE TypeInv'
  <2>1. /\ disk' = [disk EXCEPT !.draft = c, !.proj = "draft"]
        /\ rec' = [rec EXCEPT !.st5 = "waiting", !.gen = FALSE, !.subs = {}]
        /\ op' = op /\ calls' = calls /\ strays' = strays /\ wipe' = wipe
    BY <1>7 DEF AgentPasses
  <2>2. rec' \in Record
    BY <2>1 DEF TypeInv, Record
  <2>3. disk' \in Disk
    BY <2>1 DEF TypeInv, Disk
  <2> QED BY <2>1, <2>2, <2>3 DEF TypeInv, Working
<1> QED BY <1>1, <1>2, <1>3, <1>4, <1>5, <1>6, <1>7 DEF User

\* ... and the faults.
LEMMA ContainersGood == TypeInv => Containers \subseteq GoodCall
<1> SUFFICES ASSUME TypeInv, NEW i \in DOMAIN calls
             PROVE  [calls[i] EXCEPT !.mine = FALSE] \in GoodCall
  BY DEF Containers
<1> QED BY CallAt, Unwaited

LEMMA FaultTypes ==
  ASSUME TypeInv, Fault
  PROVE  TypeInv'
<1>1. ASSUME SandboxLost PROVE TypeInv'
  <2>1. /\ rec' = rec /\ disk' = disk /\ wipe' = wipe /\ op' = Idle
        /\ calls' \in Seq(GoodCall) /\ strays' \subseteq GoodCall
    BY <1>1 DEF SandboxLost
  <2> QED BY <2>1, IdleTypes DEF TypeInv
<1>2. ASSUME NEW gone \in SUBSET Containers, Restart(gone) PROVE TypeInv'
  <2>1. /\ rec' = rec /\ disk' = disk /\ wipe' = None /\ op' = Idle
        /\ calls' = <<>> /\ strays' = strays \cup gone
    BY <1>2 DEF Restart, Stopped
  <2>2. calls' \in Seq(GoodCall) /\ strays' \subseteq GoodCall
    BY <2>1, ContainersGood DEF TypeInv
  <2> QED BY <2>1, <2>2, IdleTypes DEF TypeInv
<1>3. ASSUME NEW gone \in SUBSET Containers, NEW i \in DOMAIN calls, CallFails(i, gone)
      PROVE  TypeInv'
  <2>1. /\ rec' = rec /\ disk' = disk /\ wipe' = wipe /\ op' = Idle
        /\ calls' = Orphaned(RemoveAt(calls, i)) /\ strays' = strays \cup gone
    BY <1>3 DEF CallFails
  <2>2. calls \in Seq(GoodCall) /\ i \in 1 .. Len(calls)
    BY CallAt DEF TypeInv
  <2>3. RemoveAt(calls, i) \in Seq(GoodCall)
    BY <2>2, Removed
  <2>4. calls' \in Seq(GoodCall)
    BY <2>1, <2>3, CallsChanged
  <2>5. strays' \subseteq GoodCall
    BY <2>1, ContainersGood DEF TypeInv
  <2> QED BY <2>1, <2>4, <2>5, IdleTypes DEF TypeInv
<1>4. ASSUME NEW k, CollectCut(k) PROVE TypeInv'
  <2>1. op' = Idle /\ calls' = <<>> /\ strays' = strays /\ wipe' = wipe /\ rec' = rec /\ disk' \in Disk
    BY <1>4, CutFacts
  <2>2. calls' \in Seq(GoodCall)
    BY <2>1
  <2> QED BY <2>1, <2>2, IdleTypes DEF TypeInv
<1>5. ASSUME NEW k, CollectSolvedCut(k) PROVE TypeInv'
  <2>1. op' = Idle /\ calls' = <<>> /\ strays' = strays /\ wipe' = wipe /\ rec' = rec /\ disk' \in Disk
    BY <1>5, SolvedCutFacts
  <2>2. calls' \in Seq(GoodCall)
    BY <2>1
  <2> QED BY <2>1, <2>2, IdleTypes DEF TypeInv
<1> QED BY <1>1, <1>2, <1>3, <1>4, <1>5 DEF Fault

LEMMA TypeStep == TypeInv /\ [Next]_vars => TypeInv'
<1> SUFFICES ASSUME TypeInv, [Next]_vars PROVE TypeInv'
  OBVIOUS
<1>1. CASE UNCHANGED vars
  BY <1>1 DEF TypeInv, Working, vars
<1> QED BY <1>1, RunnerTypes, ServerTypes, UserTypes, FaultTypes DEF Next, Progress

\* The variables of stages 6 to 8 have their types, whatever stops, fails, is lost
\* or is edited meanwhile.
THEOREM TypeCorrect == Spec => []TypeOK
<1>1. Spec => []TypeInv
  BY TypeInit, TypeStep, PTL DEF Spec
<1> QED BY <1>1, TypeInvOK, PTL

-----------------------------------------------------------------------------
(* What a manifest lists *)

\* A manifest lists nothing but cases of its selection: the one in batch.json and
\* the one in memory.
FilesFit(b) == b # None => b.files \subseteq CasesOf(b.sel)

ListedInv ==
  /\ TypeInv
  /\ FilesFit(disk.batch)
  /\ Working => FilesFit(op.man)
  /\ CompletedIsListed

LEMMA ListedInit == Init => ListedInv
BY TypeInit DEF Init, ListedInv, FilesFit, CompletedIsListed, Idle, Working

\* A step that leaves batch.json alone, and the manifest of a task at work.
LEMMA ListedKept ==
  ASSUME ListedInv, TypeInv', disk'.batch \in {disk.batch, None},
         ~ Working' \/ (Working /\ op'.man = op.man)
  PROVE  ListedInv'
<1>1. FilesFit(disk.batch)' /\ CompletedIsListed'
  BY DEF ListedInv, FilesFit, CompletedIsListed
<1>2. Working' => FilesFit(op.man)'
  BY DEF ListedInv, FilesFit
<1> QED BY <1>1, <1>2 DEF ListedInv

\* A step that saves a manifest and ends its task.
LEMMA ListedSaved ==
  ASSUME ListedInv, TypeInv', ~ Working', disk'.batch \in Batch,
         disk'.batch.files \subseteq CasesOf(disk'.batch.sel),
         disk'.batch.status = "completed" =>
           disk'.batch.files = CasesOf(disk'.batch.sel) /\ disk'.batch.done = disk'.batch.files
  PROVE  ListedInv'
BY DEF ListedInv, FilesFit, CompletedIsListed

LEMMA IdleNotWorking == op' = Idle => ~ Working'
BY IdleTask DEF Working

LEMMA FailListed ==
  ASSUME ListedInv, TypeInv', FailToAgent4(disk), op' = Idle
  PROVE  ListedInv'
<1>1. disk \in Disk /\ TypeInv
  BY DEF ListedInv, TypeInv
<1>2. \/ disk'.batch \in {disk.batch, None}
      \/ /\ disk.batch # None /\ disk'.batch \in Batch /\ disk'.batch.status = "failed"
         /\ disk'.batch.sel = disk.batch.sel /\ disk'.batch.files = disk.batch.files
  BY <1>1, FailFacts
<1>3. CASE disk'.batch \in {disk.batch, None}
  BY <1>3, IdleNotWorking, ListedKept
<1>4. CASE /\ disk.batch # None /\ disk'.batch \in Batch /\ disk'.batch.status = "failed"
           /\ disk'.batch.sel = disk.batch.sel /\ disk'.batch.files = disk.batch.files
  BY <1>4, IdleNotWorking, ListedSaved DEF ListedInv, FilesFit
<1> QED BY <1>2, <1>3, <1>4

LEMMA ListedStep == ListedInv /\ [Next]_vars => ListedInv'
<1> SUFFICES ASSUME ListedInv, [Next]_vars PROVE ListedInv'
  OBVIOUS
<1>1. TypeInv /\ TypeInv'
  BY TypeStep DEF ListedInv
<1>2. CASE UNCHANGED vars
  BY <1>1, <1>2, ListedKept DEF vars, Working
<1>3. CASE Runner
  <2>1. ASSUME NEW i \in DOMAIN calls, NEW ok \in BOOLEAN, RunnerOpens(i, ok) \/ RunnerCloses(i, ok)
        PROVE  disk'.batch = disk.batch /\ op' = op
    <3>1. CASE RunnerOpens(i, ok)
      BY <1>1, <3>1, OpensFacts DEF RunnerOpens
    <3>2. CASE RunnerCloses(i, ok)
      BY <1>1, <3>2, ClosesFacts DEF RunnerCloses
    <3> QED BY <2>1, <3>1, <3>2
  <2>2. ASSUME NEW c \in strays, StrayEnds(c) PROVE disk'.batch = disk.batch /\ op' = op
    BY <2>2 DEF StrayEnds
  <2>3. ASSUME NEW c \in strays, NEW ok \in BOOLEAN, StrayOpens(c, ok) \/ StrayCloses(c, ok)
        PROVE  disk'.batch = disk.batch /\ op' = op
    <3>1. c \in GoodCall /\ disk \in Disk
      BY <1>1 DEF TypeInv
    <3>2. CASE StrayOpens(c, ok)
      <4>1. disk' = (IF ok THEN OpenedOn(disk, c) ELSE disk) /\ c.todo # <<>> /\ op' = op
        BY <3>2 DEF StrayOpens
      <4> QED BY <3>1, <4>1, OpenedDisk
    <3>3. CASE StrayCloses(c, ok)
      <4>1. disk' = (IF ok THEN ClosedOn(disk, c) ELSE disk) /\ c.open /\ op' = op
        BY <3>3 DEF StrayCloses
      <4> QED BY <3>1, <4>1, ClosedDisk
    <3> QED BY <2>3, <3>2, <3>3
  <2>4. ASSUME NEW i \in DOMAIN calls, CallReturns(i)
        PROVE  disk'.batch = disk.batch /\ op'.man = op.man /\ op'.at = op.at
    BY <1>1, <2>4 DEF CallReturns, TypeInv, Task
  <2>5. disk'.batch = disk.batch /\ op'.man = op.man /\ op'.at = op.at
    BY <1>3, <2>1, <2>2, <2>3, <2>4 DEF Runner
  <2> QED BY <1>1, <2>5, ListedKept DEF Working
<1>4. CASE Server
  <2>1. ASSUME NEW ok \in BOOLEAN, GenCompileReturns(ok) PROVE ListedInv'
    <3>1. CASE disk' = DataCleared(disk) /\ op' = [op EXCEPT !.at = "generating"]
      <4>1. disk'.batch = disk.batch
        BY <1>1, <3>1 DEF DataCleared, TypeInv, Disk
      <4>2. op'.man = op.man /\ op.at = "gencompile"
        BY <1>1, <2>1, <3>1, MovedTask DEF GenCompileReturns
      <4> QED BY <1>1, <4>1, <4>2, ListedKept DEF Working
    <3>2. CASE FailToAgent4(disk) /\ op' = Idle
      BY <1>1, <3>2, FailListed
    <3> QED BY <1>1, <2>1, <3>1, <3>2, GenCompileFacts
  <2>2. ASSUME NEW ok \in BOOLEAN, ValCompileReturns(ok) PROVE ListedInv'
    <3>1. CASE disk' = disk /\ op' = [op EXCEPT !.at = "solving"]
      <4>1. op'.man = op.man /\ op.at = "valcompile"
        BY <1>1, <2>2, <3>1, MovedTask DEF ValCompileReturns
      <4> QED BY <1>1, <3>1, <4>1, ListedKept DEF Working
    <3>2. CASE FailToAgent4(disk) /\ op' = Idle
      BY <1>1, <3>2, FailListed
    <3> QED BY <1>1, <2>2, <3>1, <3>2, ValCompileFacts
  <2>3. ASSUME Collect PROVE ListedInv'
    <3>1. op' = Idle
      BY <1>1, <2>3, CollectFacts
    <3>2. CASE disk'.batch \in {disk.batch, None}
      BY <1>1, <3>1, <3>2, IdleNotWorking, ListedKept
    <3>3. CASE disk'.batch \notin {disk.batch, None}
      <4>1. /\ disk'.batch \in Batch /\ disk'.batch.status # "completed"
            /\ disk'.batch.files \subseteq CasesOf(disk'.batch.sel)
        <5>1. FilesFit(disk.batch)
          BY DEF ListedInv
        <5>2. \/ /\ disk'.batch \in Batch /\ disk'.batch.status = "generated"
                 /\ disk'.batch.sel = op.man.sel /\ disk'.batch.files = CasesOf(op.man.sel)
              \/ /\ disk'.batch \in Batch /\ disk'.batch.status = "failed"
                 /\ \/ /\ disk.batch # None
                       /\ disk'.batch.sel = disk.batch.sel
                       /\ disk'.batch.files = disk.batch.files
                    \/ /\ disk'.batch.sel = op.man.sel
                       /\ disk'.batch.files \subseteq CasesOf(op.man.sel)
          BY <1>1, <2>3, <3>3, CollectFacts
        <5> QED BY <5>1, <5>2 DEF FilesFit
      <4> QED BY <1>1, <3>1, <4>1, IdleNotWorking, ListedSaved
    <3> QED BY <3>2, <3>3
  <2>4. ASSUME CollectSolved PROVE ListedInv'
    <3>1. op' = Idle /\ op.at = "solving"
      BY <1>1, <2>4, SolvedFacts
    <3>2. CASE disk'.batch \in {disk.batch, None}
      BY <1>1, <3>1, <3>2, IdleNotWorking, ListedKept
    <3>3. CASE disk'.batch \notin {disk.batch, None}
      <4>1. FilesFit(disk.batch) /\ op.man.files \subseteq CasesOf(op.man.sel)
        BY <1>1, <3>1 DEF ListedInv, FilesFit, Working, TypeInv
      <4>2. \/ /\ CasesOf(op.man.sel) \subseteq op.man.files
               /\ disk'.batch \in Batch /\ disk'.batch.status = "completed"
               /\ disk'.batch.sel = op.man.sel /\ disk'.batch.done = CasesOf(op.man.sel)
               /\ disk'.batch.files = op.man.files
            \/ /\ disk'.batch \in Batch /\ disk'.batch.status = "failed"
               /\ \/ /\ disk.batch # None
                     /\ disk'.batch.sel = disk.batch.sel
                     /\ disk'.batch.files = disk.batch.files
                  \/ /\ disk'.batch.sel = op.man.sel
                     /\ disk'.batch.files = op.man.files
        BY <1>1, <2>4, <3>3, SolvedFacts
      <4>3. /\ disk'.batch \in Batch
            /\ disk'.batch.files \subseteq CasesOf(disk'.batch.sel)
            /\ disk'.batch.status = "completed" =>
                 disk'.batch.files = CasesOf(disk'.batch.sel) /\ disk'.batch.done = disk'.batch.files
        <5>1. CASE disk'.batch.status = "completed"
          <6>1. disk'.batch.files = CasesOf(op.man.sel)
            BY <4>1, <4>2, <5>1
          <6> QED BY <4>2, <5>1, <6>1
        <5>2. CASE disk'.batch.status # "completed"
          BY <4>1, <4>2, <5>2 DEF FilesFit
        <5> QED BY <5>1, <5>2
      <4> QED BY <1>1, <3>1, <4>3, IdleNotWorking, ListedSaved
    <3> QED BY <3>2, <3>3
  <2>5. ASSUME ExportCheck PROVE ListedInv'
    <3>1. disk'.batch = disk.batch
      BY <1>1, <2>5, DiskVerified DEF ExportCheck, TypeInv
    <3>2. ~ Working'
      BY <1>1, <2>5, IdleNotWorking DEF ExportCheck, TypeInv, Task, Working
    <3> QED BY <1>1, <3>1, <3>2, ListedKept
  <2>6. ASSUME ExportList \/ PackCode \/ ExportReturns \/ \E c \in Cases : PackFile(c)
        PROVE  ListedInv'
    <3>1. disk' = disk /\ op.at \in {"list", "packcode", "packed", "pack"}
      BY <2>6 DEF ExportList, PackCode, ExportReturns, PackFile
    <3>2. ~ Working'
      <4>1. CASE ExportList
        BY <1>1, <4>1, IdleNotWorking DEF ExportList, TypeInv, Task, Working
      <4>2. CASE PackCode
        BY <1>1, <4>2, IdleNotWorking DEF PackCode, TypeInv, Task, Working
      <4>3. CASE ExportReturns
        BY <4>3, IdleNotWorking DEF ExportReturns
      <4>4. ASSUME NEW c \in Cases, PackFile(c) PROVE ~ Working'
        <5>1. \/ op' = Idle
              \/ op'.at \in {"packed", "pack"}
          BY <1>1, <4>4 DEF PackFile, TypeInv, Task
        <5> QED BY <5>1, IdleNotWorking DEF Working
      <4> QED BY <2>6, <4>1, <4>2, <4>3, <4>4
    <3> QED BY <1>1, <3>1, <3>2, ListedKept
  <2>7. ASSUME WipeRelease \/ WipeBatch \/ WipeEnds \/ \E f \in Cases \X {"in", "out"} : WipeFile(f)
        PROVE  ListedInv'
    <3>1. op' = op
      BY <2>7 DEF WipeRelease, WipeBatch, WipeEnds, WipeFile
    <3>2. disk'.batch \in {disk.batch, None}
      <4>1. disk \in Disk
        BY <1>1 DEF TypeInv
      <4>2. CASE WipeRelease
        BY <4>1, <4>2 DEF WipeRelease, Disk
      <4>3. CASE WipeBatch
        BY <4>1, <4>3 DEF WipeBatch, Disk
      <4>4. CASE WipeEnds
        BY <4>4 DEF WipeEnds
      <4>5. ASSUME NEW f \in Cases \X {"in", "out"}, WipeFile(f) PROVE disk'.batch = disk.batch
        BY <4>1, <4>5 DEF WipeFile, Disk
      <4> QED BY <2>7, <4>2, <4>3, <4>4, <4>5
    <3> QED BY <1>1, <3>1, <3>2, ListedKept DEF Working
  <2> QED BY <1>4, <2>1, <2>2, <2>3, <2>4, <2>5, <2>6, <2>7 DEF Server
<1>5. CASE User
  <2>1. ASSUME NEW sel \in (SUBSET Subtasks) \ {{}}, GenerateStart(sel) PROVE ListedInv'
    <3>1. /\ op'.man \in Batch /\ disk'.batch = op'.man /\ op'.man.files = {}
          /\ op'.man.status = "generating"
      BY <1>1, <2>1, GenerateFacts
    <3>2. FilesFit(disk.batch)' /\ FilesFit(op.man)' /\ CompletedIsListed'
      BY <3>1 DEF FilesFit, CompletedIsListed
    <3> QED BY <1>1, <3>2 DEF ListedInv
  <2>2. ASSUME NEW sel \in (SUBSET Subtasks) \ {{}}, ValidateStart(sel) PROVE ListedInv'
    <3>1. /\ disk.batch \in Batch /\ op'.man \in Batch /\ disk'.batch = op'.man
          /\ op'.man.files = disk.batch.files /\ op'.man.sel = disk.batch.sel
          /\ op'.man.status = "validating"
      BY <1>1, <2>2, ValidateFacts
    <3>2. FilesFit(disk.batch)' /\ FilesFit(op.man)' /\ CompletedIsListed'
      BY <3>1, NoneApart DEF FilesFit, CompletedIsListed, ListedInv
    <3> QED BY <1>1, <3>2 DEF ListedInv
  <2>3. ASSUME ExportStart PROVE ListedInv'
    <3>1. disk' = disk /\ ~ Working'
      BY <1>1, <2>3 DEF ExportStart, TypeInv, Task, Idle, Working
    <3> QED BY <1>1, <3>1, ListedKept
  <2>4. ASSUME UpdateSolution \/ Confirm \/ \E c \in Codes : SaveUserDraft(c) \/ AgentPasses(c)
        PROVE  ListedInv'
    <3>1. op' = op /\ disk'.batch = disk.batch
      BY <1>1, <2>4 DEF UpdateSolution, Confirm, SaveUserDraft, AgentPasses, TypeInv, Disk
    <3> QED BY <1>1, <3>1, ListedKept DEF Working
  <2> QED BY <1>5, <2>1, <2>2, <2>3, <2>4 DEF User
<1>6. CASE Fault
  <2>1. ASSUME \/ SandboxLost
               \/ \E gone \in SUBSET Containers :
                    Restart(gone) \/ \E i \in DOMAIN calls : CallFails(i, gone)
        PROVE  ListedInv'
    <3>1. op' = Idle /\ disk' = disk
      BY <2>1 DEF SandboxLost, Restart, Stopped, CallFails
    <3> QED BY <1>1, <3>1, IdleNotWorking, ListedKept
  <2>2. ASSUME NEW k, CollectCut(k) PROVE ListedInv'
    <3>1. /\ op' = Idle /\ disk'.batch \in Batch /\ disk'.batch.status # "completed"
          /\ disk'.batch.files \subseteq CasesOf(disk'.batch.sel)
      BY <1>1, <2>2, CutFacts
    <3> QED BY <1>1, <3>1, IdleNotWorking, ListedSaved
  <2>3. ASSUME NEW k, CollectSolvedCut(k) PROVE ListedInv'
    <3>1. /\ op.at = "solving" /\ op' = Idle /\ disk'.batch \in Batch
          /\ disk'.batch.sel = op.man.sel /\ disk'.batch.files = op.man.files
          /\ disk'.batch.status = "completed" =>
               /\ disk'.batch.done = CasesOf(op.man.sel)
               /\ CasesOf(op.man.sel) \subseteq op.man.files
      BY <1>1, <2>3, SolvedCutFacts
    <3>2. op.man.files \subseteq CasesOf(op.man.sel)
      BY <1>1, <3>1 DEF ListedInv, FilesFit, Working, TypeInv
    <3> QED BY <1>1, <3>1, <3>2, IdleNotWorking, ListedSaved
  <2> QED BY <1>6, <2>1, <2>2, <2>3 DEF Fault
<1> QED BY <1>2, <1>3, <1>4, <1>5, <1>6 DEF Next, Progress

\* No manifest says completed that does not list every case of its selection with
\* its answer: not after a failed chunk, nor after a stop between two checkpoints,
\* nor when stage 7 was started on a batch that was never finished.
THEOREM CompletedLists == Spec => []CompletedIsListed
<1>1. Spec => []ListedInv
  BY ListedInit, ListedStep, PTL DEF Spec
<1>2. ListedInv => CompletedIsListed
  BY DEF ListedInv
<1> QED BY <1>1, <1>2, PTL

-----------------------------------------------------------------------------
(* While no container outlives its call, a completed batch is whole *)

\* Nothing has been removed of the data of the present revision, and the task at
\* work is one of the present revision.
Untouched == wipe = None \/ wipe.todo # {}
Current == op.man.ver = rec.ver /\ Untouched

\* The calls are those of the task at work, for cases of its selection.
OwnCall(c) ==
  /\ c.mine /\ c.now
  /\ c.kind = IF op.at = "generating" THEN "generate" ELSE "solve"
  /\ Range(c.todo) \subseteq CasesOf(op.man.sel)

Calm ==
  /\ strays = {}
  /\ op.at \notin {"generating", "solving"} => calls = <<>>
  /\ \A i \in DOMAIN calls : OwnCall(calls[i])

\* batch.json is that of the task at work, unless it was removed.
Own ==
  /\ Working => disk.batch \in {None, op.man} /\ op.man.ver <= rec.ver
  /\ Working /\ Current => disk.batch = op.man
  /\ op.at \in {"gencompile", "generating"} =>
       op.man.status = "generating" /\ op.man.files = {} /\ op.man.sel # {}
  /\ op.at \in {"valcompile", "solving"} => op.man.status = "validating"
  /\ wipe # None => wipe.rec.ver = rec.ver + 1
  /\ ~ Untouched => disk.batch = None

\* A job that has failed, or whose file may still change.
Left(c) == c.bad \cup Range(c.todo)
Pending(e) == \E i \in DOMAIN calls : e \in Left(calls[i])

Generated ==
  op.at = "generating" /\ Current =>
    /\ \A e \in CasesOf(op.man.sel) : disk.inp[e] = "whole" \/ e \in op.bad \/ Pending(e)
    /\ \A e \in Cases \ CasesOf(op.man.sel) : disk.inp[e] = None /\ disk.out[e] = None
    /\ \A i \in DOMAIN calls : calls[i].open => disk.inp[Head(calls[i].todo)] \in {"part", "whole"}

Solved ==
  op.at = "solving" /\ Current /\ op.man.files = CasesOf(op.man.sel) =>
    /\ \A e \in CasesOf(op.man.sel) : disk.out[e] = "whole" \/ e \in op.bad \/ Pending(e)
    /\ \A i \in DOMAIN calls : calls[i].open => disk.out[Head(calls[i].todo)] \in {"part", "whole"}

\* What a manifest of the present revision that lists all its cases says of data/.
InputsWhole ==
  LET m == disk.batch
  IN  m # None /\ m.ver = rec.ver /\ m.files = CasesOf(m.sel) =>
        /\ \A e \in CasesOf(m.sel) : disk.inp[e] = "whole"
        /\ \A e \in Cases \ CasesOf(m.sel) : disk.inp[e] = None /\ disk.out[e] = None

OutputsWhole ==
  LET m == disk.batch
  IN  m # None /\ m.status = "completed" /\ m.ver = rec.ver =>
        \A e \in CasesOf(m.sel) : disk.out[e] = "whole"

WholeInv == ListedInv /\ Calm /\ Own /\ Generated /\ Solved /\ InputsWhole /\ OutputsWhole

LEMMA WholeEnough == WholeInv => CompletedIsWhole
<1> SUFFICES ASSUME WholeInv, disk.batch # None, disk.batch.status = "completed",
                    disk.batch.ver = rec.ver
             PROVE  \A c \in Cases :
                      IF c \in CasesOf(disk.batch.sel)
                      THEN disk.inp[c] = "whole" /\ disk.out[c] = "whole"
                      ELSE disk.inp[c] = None /\ disk.out[c] = None
  BY DEF CompletedIsWhole
<1>1. disk.batch.files = CasesOf(disk.batch.sel)
  BY DEF WholeInv, ListedInv, CompletedIsListed
<1> QED BY <1>1 DEF WholeInv, InputsWhole, OutputsWhole

LEMMA NotEmpty == \A sel \in SUBSET Subtasks : sel # {} => CasesOf(sel) # {}
<1> SUFFICES ASSUME NEW sel \in SUBSET Subtasks, NEW s \in sel PROVE CasesOf(sel) # {}
  OBVIOUS
<1>1. Plan[s] \in Nat \ {0}
  BY DatasetAssumption DEF Subtasks
<1>2. <<s, 1>> \in Subtasks \X (1 .. 10) /\ <<s, 1>>[1] = s /\ <<s, 1>>[2] = 1
  OBVIOUS
<1>3. <<s, 1>> \in CasesOf(sel)
  BY <1>1, <1>2 DEF CasesOf, Cases
<1> QED BY <1>3

LEMMA HeadTail ==
  ASSUME NEW q \in Seq(Cases), q # <<>>
  PROVE  Range(q) = {Head(q)} \cup Range(Tail(q)) /\ Head(q) \in Range(q)
<1>1. /\ Len(q) \in Nat /\ 1 \in 1 .. Len(q) /\ DOMAIN q = 1 .. Len(q) /\ Head(q) = q[1]
      /\ Tail(q) \in Seq(Cases) /\ Len(Tail(q)) = Len(q) - 1
      /\ \A i \in 1 .. Len(Tail(q)) : Tail(q)[i] = q[i + 1]
  BY HeadTailProperties
<1>2. ASSUME NEW i \in 1 .. Len(q) PROVE q[i] \in {Head(q)} \cup Range(Tail(q))
  <2>1. CASE i = 1
    BY <1>1, <2>1
  <2>2. CASE i # 1
    <3>1. i - 1 \in 1 .. Len(Tail(q)) /\ (i - 1) + 1 = i
      BY <1>1, <2>2
    <3>2. Tail(q)[i - 1] = q[i] /\ DOMAIN Tail(q) = 1 .. Len(Tail(q))
      BY <1>1, <3>1
    <3> QED BY <3>1, <3>2 DEF Range
  <2> QED BY <2>1, <2>2
<1>3. ASSUME NEW i \in 1 .. Len(Tail(q)) PROVE Tail(q)[i] \in Range(q)
  <2>1. i + 1 \in 1 .. Len(q) /\ Tail(q)[i] = q[i + 1]
    BY <1>1
  <2> QED BY <1>1, <2>1 DEF Range
<1>4. Range(q) \subseteq {Head(q)} \cup Range(Tail(q))
  BY <1>1, <1>2 DEF Range
<1>5. Head(q) \in Range(q) /\ Range(Tail(q)) \subseteq Range(q)
  BY <1>1, <1>3 DEF Range
<1> QED BY <1>4, <1>5

\* A step that leaves the data and the manifest alone.
LEMMA SameWhole ==
  ASSUME WholeInv, rec'.ver = rec.ver, disk'.batch = disk.batch,
         disk'.inp = disk.inp, disk'.out = disk.out
  PROVE  InputsWhole' /\ OutputsWhole'
BY DEF WholeInv, InputsWhole, OutputsWhole

\* A step that touches neither the data, nor a task, nor its calls.
LEMMA Elsewhere ==
  ASSUME WholeInv, ListedInv', op' = op, calls' = calls, strays' = strays, wipe' = wipe,
         rec'.ver = rec.ver, disk'.batch = disk.batch, disk'.inp = disk.inp, disk'.out = disk.out
  PROVE  WholeInv'
<1>1. InputsWhole' /\ OutputsWhole'
  BY SameWhole
<1>2. Calm'
  BY DEF WholeInv, Calm, OwnCall
<1>3. Own'
  BY DEF WholeInv, Own, Working, Current, Untouched
<1>4. Generated'
  BY DEF WholeInv, Generated, Current, Untouched, Pending
<1>5. Solved'
  BY DEF WholeInv, Solved, Current, Untouched, Pending
<1> QED BY <1>1, <1>2, <1>3, <1>4, <1>5 DEF WholeInv

\* A step after which no task is at work.
LEMMA Ended ==
  ASSUME WholeInv, ListedInv', ~ Working', calls' = <<>>, strays' = {},
         wipe' \in {wipe, None}, rec'.ver = rec.ver, wipe = None \/ disk'.batch = disk.batch,
         InputsWhole', OutputsWhole'
  PROVE  WholeInv'
<1>1. op'.at \notin {"gencompile", "generating", "valcompile", "solving"}
  BY DEF Working
<1>2. Calm'
  <2>1. DOMAIN calls' = {}
    OBVIOUS
  <2> QED BY <2>1 DEF Calm
<1>3. Own'
  <2>1. (wipe # None => wipe.rec.ver = rec.ver + 1)'
    BY DEF WholeInv, Own
  <2>2. (~ Untouched => disk.batch = None)'
    BY DEF WholeInv, Own, Untouched
  <2> QED BY <1>1, <2>1, <2>2 DEF Own, Working
<1>4. Generated' /\ Solved'
  BY <1>1 DEF Generated, Solved
<1> QED BY <1>2, <1>3, <1>4 DEF WholeInv

\* Between two tasks there are no calls.
LEMMA NoCalls ==
  ASSUME WholeInv, op.at \notin {"generating", "solving"}
  PROVE  calls = <<>> /\ strays = {} /\ DOMAIN calls = {}
BY DEF WholeInv, Calm

\* A task that has all its results has no call left.
LEMMA AllGathered ==
  ASSUME WholeInv, Gathered
  PROVE  calls = <<>> /\ strays = {} /\ \A e : ~ Pending(e)
<1>1. DOMAIN calls = {}
  BY DEF WholeInv, Calm, OwnCall, Gathered
<1>2. calls = <<>>
  <2>1. DOMAIN calls = 1 .. Len(calls) /\ Len(calls) \in Nat /\ calls \in Seq(GoodCall)
    BY CallAt DEF WholeInv, ListedInv, TypeInv
  <2>2. Len(calls) = 0
    BY <1>1, <2>1
  <2> HIDE DEF GoodCall
  <2> QED BY <2>1, <2>2
<1> QED BY <1>1, <1>2 DEF WholeInv, Calm, Pending

\* While the inputs are generated, batch.json lists none yet; while the answers are,
\* it does not say completed.
LEMMA AtWork ==
  ASSUME WholeInv, Working
  PROVE  /\ disk.batch \in {None, op.man} /\ op.man \in Batch
         /\ disk.batch # None => disk.batch.status # "completed"
         /\ op.at \in {"gencompile", "generating"} /\ disk.batch # None =>
              disk.batch.files # CasesOf(disk.batch.sel)
<1>1. TypeInv
  BY DEF WholeInv, ListedInv
<1>2. op.man \in Batch /\ op.man.sel \in SUBSET Subtasks
  BY <1>1, WorkingMan
<1>3. disk.batch \in {None, op.man}
  BY DEF WholeInv, Own
<1>4. disk.batch # None => disk.batch.status # "completed"
  BY <1>3 DEF WholeInv, Own, Working
<1>5. op.at \in {"gencompile", "generating"} /\ disk.batch # None =>
        disk.batch.files # CasesOf(disk.batch.sel)
  BY <1>2, <1>3, NotEmpty DEF WholeInv, Own
<1> QED BY <1>2, <1>3, <1>4, <1>5

LEMMA CallsWorking ==
  ASSUME WholeInv, NEW i \in DOMAIN calls
  PROVE  /\ op.at \in {"generating", "solving"} /\ Working /\ OwnCall(calls[i])
         /\ op.at = "generating" => calls[i].kind = "generate"
         /\ op.at = "solving" => calls[i].kind = "solve"
         /\ calls[i] \in GoodCall /\ calls[i].todo \in Seq(Cases)
<1>1. op.at \in {"generating", "solving"}
  BY NoCalls
<1>2. OwnCall(calls[i])
  BY DEF WholeInv, Calm
<1>3. calls[i] \in GoodCall
  BY CallAt DEF WholeInv, ListedInv
<1> QED BY <1>1, <1>2, <1>3 DEF OwnCall, Working, GoodCall, Call

\* One call of the task at work goes on with one job: it writes no other file, and
\* what it no longer has to do has failed or is whole.
JobCalls(i) ==
  /\ rec' = rec /\ op' = op /\ strays' = strays /\ wipe' = wipe
  /\ calls' \in Seq(GoodCall) /\ Len(calls') = Len(calls)
  /\ \A k \in DOMAIN calls : k # i => calls'[k] = calls[k]
  /\ calls'[i].mine = calls[i].mine /\ calls'[i].now = calls[i].now
  /\ calls'[i].kind = calls[i].kind /\ Range(calls'[i].todo) \subseteq Range(calls[i].todo)
  /\ disk'.batch = disk.batch

InputsStep(i, j) ==
  op.at = "generating" /\ Current =>
    /\ \A e \in Left(calls[i]) : e \in Left(calls'[i]) \/ disk'.inp[e] = "whole"
    /\ disk'.inp[j] = disk.inp[j] \/ disk'.inp[j] \in {"part", "whole"}
    /\ calls'[i].open => disk'.inp[Head(calls'[i].todo)] \in {"part", "whole"}

OutputsStep(i, j) ==
  op.at = "solving" /\ Current /\ op.man.files = CasesOf(op.man.sel) =>
    /\ \A e \in Left(calls[i]) : e \in Left(calls'[i]) \/ disk'.out[e] = "whole"
    /\ disk'.out[j] = disk.out[j] \/ disk'.out[j] \in {"part", "whole"}
    /\ calls'[i].open => disk'.out[Head(calls'[i].todo)] \in {"part", "whole"}

JobStep(i, j) ==
  /\ JobCalls(i)
  /\ \A e \in Cases : e # j => disk'.inp[e] = disk.inp[e] /\ disk'.out[e] = disk.out[e]
  /\ op.at = "solving" => disk'.inp = disk.inp
  /\ InputsStep(i, j) /\ OutputsStep(i, j)

LEMMA JobStepWhole ==
  ASSUME WholeInv, ListedInv', NEW i \in DOMAIN calls, NEW j \in Range(calls[i].todo),
         JobStep(i, j)
  PROVE  WholeInv'
<1> USE DEF JobStep, JobCalls, InputsStep, OutputsStep
<1>1. /\ op.at \in {"generating", "solving"} /\ Working /\ OwnCall(calls[i])
      /\ DOMAIN calls' = DOMAIN calls
  <2>1. DOMAIN calls = 1 .. Len(calls) /\ DOMAIN calls' = 1 .. Len(calls')
    BY CallAt DEF WholeInv, ListedInv
  <2> QED BY <2>1, CallsWorking
<1>2. j \in CasesOf(op.man.sel) /\ j \in Left(calls[i]) /\ CasesOf(op.man.sel) \subseteq Cases
  BY <1>1, CasesFinite DEF OwnCall, Left
<1>3. Calm'
  <2>1. OwnCall(calls[i])'
    BY <1>1 DEF OwnCall
  <2>2. ASSUME NEW k \in DOMAIN calls', k # i PROVE OwnCall(calls[k])'
    <3>1. OwnCall(calls[k]) /\ calls'[k] = calls[k]
      BY <1>1, <2>2 DEF WholeInv, Calm
    <3> QED BY <3>1 DEF OwnCall
  <2>3. \A k \in DOMAIN calls' : OwnCall(calls[k])'
    BY <2>1, <2>2
  <2> QED BY <1>1, <2>3 DEF WholeInv, Calm
<1>4. Own'
  BY DEF WholeInv, Own, Working, Current, Untouched
<1>5. InputsWhole' /\ OutputsWhole'
  <2>1. disk.batch \in {None, op.man} /\ (disk.batch # None => disk.batch.status # "completed")
    BY <1>1, AtWork
  <2>2. OutputsWhole'
    BY <2>1 DEF OutputsWhole
  <2>3. CASE op.at = "generating"
    BY <1>1, <2>2, <2>3, AtWork DEF InputsWhole
  <2>4. CASE op.at = "solving"
    <3> SUFFICES ASSUME disk.batch # None, disk.batch.ver = rec.ver,
                        disk.batch.files = CasesOf(disk.batch.sel)
                 PROVE  /\ \A e \in CasesOf(disk.batch.sel) : disk'.inp[e] = "whole"
                        /\ \A e \in Cases \ CasesOf(disk.batch.sel) :
                             disk'.inp[e] = None /\ disk'.out[e] = None
      BY <2>2 DEF InputsWhole
    <3>1. disk'.inp = disk.inp /\ disk.batch.sel = op.man.sel
      BY <2>1, <2>4
    <3>2. /\ \A e \in CasesOf(disk.batch.sel) : disk.inp[e] = "whole"
          /\ \A e \in Cases \ CasesOf(disk.batch.sel) : disk.inp[e] = None /\ disk.out[e] = None
      BY DEF WholeInv, InputsWhole
    <3> QED BY <1>2, <3>1, <3>2
  <2> QED BY <1>1, <2>2, <2>3, <2>4
\* A case that was pending still is, or its file is whole.
<1>6. ASSUME NEW e, Pending(e), e \notin Left(calls[i]) \/ e \in Left(calls'[i])
      PROVE  Pending(e)'
  <2>1. PICK k \in DOMAIN calls : e \in Left(calls[k])
    BY <1>6 DEF Pending
  <2>2. CASE k = i
    BY <1>1, <1>6, <2>1, <2>2 DEF Pending, Left
  <2>3. CASE k # i
    BY <1>1, <2>1, <2>3 DEF Pending, Left
  <2> QED BY <2>2, <2>3
<1>7. Current' <=> Current
  BY DEF Current, Untouched
<1>8. Generated'
  <2> SUFFICES ASSUME op.at = "generating", Current
               PROVE  /\ \A e \in CasesOf(op.man.sel) :
                           disk'.inp[e] = "whole" \/ e \in op.bad \/ Pending(e)'
                      /\ \A e \in Cases \ CasesOf(op.man.sel) : disk'.inp[e] = None /\ disk'.out[e] = None
                      /\ \A k \in DOMAIN calls : calls'[k].open =>
                           disk'.inp[Head(calls'[k].todo)] \in {"part", "whole"}
    BY <1>1, <1>7 DEF Generated
  <2>1. /\ \A e \in CasesOf(op.man.sel) : disk.inp[e] = "whole" \/ e \in op.bad \/ Pending(e)
        /\ \A e \in Cases \ CasesOf(op.man.sel) : disk.inp[e] = None /\ disk.out[e] = None
        /\ \A k \in DOMAIN calls : calls[k].open => disk.inp[Head(calls[k].todo)] \in {"part", "whole"}
    BY DEF WholeInv, Generated
  <2>2. ASSUME NEW e \in CasesOf(op.man.sel)
        PROVE  disk'.inp[e] = "whole" \/ e \in op.bad \/ Pending(e)'
    <3>1. CASE e \in op.bad
      BY <3>1
    <3>2. CASE e = j
      <4>1. e \in Left(calls'[i]) => Pending(e)'
        BY <1>1 DEF Pending, Left
      <4> QED BY <1>2, <3>2, <4>1
    <3>3. CASE e # j /\ disk.inp[e] = "whole"
      BY <1>2, <3>3
    <3>4. CASE Pending(e)
      BY <1>6, <3>4
    <3> QED BY <2>1, <3>1, <3>2, <3>3, <3>4
  <2>3. \A e \in Cases \ CasesOf(op.man.sel) : disk'.inp[e] = None /\ disk'.out[e] = None
    BY <1>2, <2>1
  <2>4. ASSUME NEW k \in DOMAIN calls, calls'[k].open
        PROVE  disk'.inp[Head(calls'[k].todo)] \in {"part", "whole"}
    <3>1. CASE k = i
      BY <2>4, <3>1
    <3>2. CASE k # i
      <4>1. calls'[k] = calls[k] /\ disk.inp[Head(calls[k].todo)] \in {"part", "whole"}
        BY <2>1, <2>4, <3>2
      <4>2. Head(calls[k].todo) \in Cases
        <5>1. calls[k] \in GoodCall /\ calls[k].todo \in Seq(Cases) /\ calls[k].open
          BY <2>4, <4>1, CallsWorking
        <5>2. calls[k].todo # <<>>
          BY <5>1 DEF GoodCall
        <5> QED BY <5>1, <5>2, HeadTailProperties
      <4> QED BY <4>1, <4>2
    <3> QED BY <3>1, <3>2
  <2> QED BY <2>2, <2>3, <2>4
<1>9. Solved'
  <2> SUFFICES ASSUME op.at = "solving", Current, op.man.files = CasesOf(op.man.sel)
               PROVE  /\ \A e \in CasesOf(op.man.sel) :
                           disk'.out[e] = "whole" \/ e \in op.bad \/ Pending(e)'
                      /\ \A k \in DOMAIN calls : calls'[k].open =>
                           disk'.out[Head(calls'[k].todo)] \in {"part", "whole"}
    BY <1>1, <1>7 DEF Solved
  <2>1. /\ \A e \in CasesOf(op.man.sel) : disk.out[e] = "whole" \/ e \in op.bad \/ Pending(e)
        /\ \A k \in DOMAIN calls : calls[k].open => disk.out[Head(calls[k].todo)] \in {"part", "whole"}
    BY DEF WholeInv, Solved
  <2>2. ASSUME NEW e \in CasesOf(op.man.sel)
        PROVE  disk'.out[e] = "whole" \/ e \in op.bad \/ Pending(e)'
    <3>1. CASE e \in op.bad
      BY <3>1
    <3>2. CASE e = j
      <4>1. e \in Left(calls'[i]) => Pending(e)'
        BY <1>1 DEF Pending, Left
      <4> QED BY <1>2, <3>2, <4>1
    <3>3. CASE e # j /\ disk.out[e] = "whole"
      BY <1>2, <3>3
    <3>4. CASE Pending(e)
      BY <1>6, <3>4
    <3> QED BY <2>1, <3>1, <3>2, <3>3, <3>4
  <2>4. ASSUME NEW k \in DOMAIN calls, calls'[k].open
        PROVE  disk'.out[Head(calls'[k].todo)] \in {"part", "whole"}
    <3>1. CASE k = i
      BY <2>4, <3>1
    <3>2. CASE k # i
      <4>1. calls'[k] = calls[k] /\ disk.out[Head(calls[k].todo)] \in {"part", "whole"}
        BY <2>1, <2>4, <3>2
      <4>2. Head(calls[k].todo) \in Cases
        <5>1. calls[k] \in GoodCall /\ calls[k].todo \in Seq(Cases) /\ calls[k].open
          BY <2>4, <4>1, CallsWorking
        <5>2. calls[k].todo # <<>>
          BY <5>1 DEF GoodCall
        <5> QED BY <5>1, <5>2, HeadTailProperties
      <4> QED BY <4>1, <4>2
    <3> QED BY <3>1, <3>2
  <2> QED BY <2>2, <2>4
<1> QED BY <1>3, <1>4, <1>5, <1>8, <1>9 DEF WholeInv

LEMMA OpensWhole ==
  ASSUME WholeInv, ListedInv', NEW i \in DOMAIN calls, NEW accepted \in BOOLEAN,
         RunnerOpens(i, accepted)
  PROVE  WholeInv'
<1> DEFINE c == calls[i]
           j == Head(c.todo)
<1>1. TypeInv
  BY DEF WholeInv, ListedInv
<1>2. /\ rec' = rec /\ op' = op /\ strays' = strays /\ wipe' = wipe
      /\ (c.kind = "generate" => accepted)
  BY DEF RunnerOpens
<1>3. /\ c \in GoodCall /\ ~ c.open /\ c.todo # <<>>
      /\ calls' \in Seq(GoodCall) /\ Len(calls') = Len(calls)
      /\ calls'[i] = Opened(c, accepted)
      /\ \A k \in DOMAIN calls : k # i => calls'[k] = calls[k]
      /\ disk' = IF accepted THEN OpenedOn(disk, c) ELSE disk
      /\ disk \in Disk /\ disk'.batch = disk.batch
  BY <1>1, OpensFacts DEF TypeInv
<1>4. /\ op.at \in {"generating", "solving"} /\ Working /\ OwnCall(c)
      /\ (op.at = "generating" => c.kind = "generate")
      /\ (op.at = "solving" => c.kind = "solve")
      /\ c.todo \in Seq(Cases) /\ c.now
  BY CallsWorking DEF OwnCall
<1> HIDE DEF c
<1>5. disk \in Disk /\ c \in GoodCall /\ c.todo # <<>>
  BY <1>3
<1>6. c.kind = "generate" =>
         /\ OpenedOn(disk, c).out = disk.out
         /\ OpenedOn(disk, c).inp = [disk.inp EXCEPT ![j] = OpenTag(c)]
  BY <1>5, OpenedDisk
<1>7. c.kind = "solve" =>
         /\ OpenedOn(disk, c).inp = disk.inp
         /\ OpenedOn(disk, c).out = [disk.out EXCEPT ![j] = AnswerTag(disk, c)]
  BY <1>5, OpenedDisk
<1>8. Range(c.todo) = {j} \cup Range(Tail(c.todo)) /\ j \in Range(c.todo) /\ j \in Cases
  BY <1>3, <1>4, HeadTail, HeadTailProperties
<1>9. /\ calls'[i].kind = c.kind /\ calls'[i].now = c.now /\ calls'[i].mine = c.mine
      /\ accepted => /\ calls'[i].todo = c.todo /\ calls'[i].open /\ calls'[i].bad = c.bad
      /\ ~ accepted => /\ calls'[i].todo = Tail(c.todo) /\ ~ calls'[i].open
                       /\ calls'[i].bad = c.bad \cup {j}
  BY <1>3, OpenedCall
<1>10. /\ Range(calls'[i].todo) \subseteq Range(c.todo)
       /\ Left(c) \subseteq Left(calls'[i])
       /\ calls'[i].open => accepted /\ Head(calls'[i].todo) = j
  BY <1>8, <1>9 DEF Left
<1> HIDE DEF j
<1>11. JobCalls(i)
  BY <1>2, <1>3, <1>9, <1>10 DEF JobCalls, c
<1>12. CASE op.at = "generating"
  <2>1. accepted /\ disk' = OpenedOn(disk, c)
    BY <1>2, <1>3, <1>4, <1>12
  <2>2. disk'.out = disk.out /\ disk'.inp = [disk.inp EXCEPT ![j] = OpenTag(c)]
    BY <1>4, <1>6, <1>12, <2>1
  <2>3. disk'.inp[j] = "part" /\ \A e \in Cases : e # j => disk'.inp[e] = disk.inp[e]
    BY <1>3, <1>4, <1>8, <2>2 DEF Disk, OpenTag
  <2>4. InputsStep(i, j) /\ OutputsStep(i, j)
    BY <1>10, <1>12, <2>3 DEF InputsStep, OutputsStep, c
  <2>5. JobStep(i, j)
    BY <1>11, <1>12, <2>2, <2>3, <2>4 DEF JobStep
  <2> QED BY <1>8, <2>5, JobStepWhole DEF c
<1>13. CASE op.at = "solving" /\ accepted
  <2>1. disk' = OpenedOn(disk, c)
    BY <1>3, <1>13
  <2>2. /\ disk'.inp = disk.inp
        /\ disk'.out = [disk.out EXCEPT ![j] = AnswerTag(disk, c)]
    BY <1>4, <1>7, <1>13, <2>1
  <2>3. \A e \in Cases : e # j => disk'.out[e] = disk.out[e]
    BY <1>3, <1>8, <2>2 DEF Disk
  <2>4. ASSUME Current, op.man.files = CasesOf(op.man.sel) PROVE disk'.out[j] = "part"
    <3>1. disk.batch = op.man /\ op.man # None /\ op.man.ver = rec.ver
      BY <1>1, <1>4, <2>4 DEF WholeInv, Own, TypeInv, Current
    <3>2. j \in CasesOf(op.man.sel)
      BY <1>4, <1>8 DEF OwnCall
    <3>3. disk.inp[j] = "whole"
      BY <2>4, <3>1, <3>2 DEF WholeInv, InputsWhole
    <3>4. AnswerTag(disk, c) = "part"
      BY <1>4, <3>3 DEF AnswerTag, OpenTag, j
    <3> QED BY <1>3, <1>8, <2>2, <3>4 DEF Disk
  <2>5. InputsStep(i, j)
    BY <1>13 DEF InputsStep
  <2>6. OutputsStep(i, j)
    <3> SUFFICES ASSUME Current, op.man.files = CasesOf(op.man.sel)
                 PROVE  /\ \A e \in Left(calls[i]) : e \in Left(calls'[i])
                        /\ disk'.out[j] = "part"
                        /\ calls'[i].open => Head(calls'[i].todo) = j
      BY DEF OutputsStep
    <3> QED BY <1>10, <2>4 DEF c
  <2>7. JobStep(i, j)
    BY <1>11, <2>2, <2>3, <2>5, <2>6 DEF JobStep
  <2> QED BY <1>8, <2>7, JobStepWhole DEF c
<1>14. CASE op.at = "solving" /\ ~ accepted
  <2>1. disk' = disk
    BY <1>3, <1>14
  <2>2. InputsStep(i, j) /\ OutputsStep(i, j)
    BY <1>10, <1>14, <2>1 DEF InputsStep, OutputsStep, c
  <2>3. JobStep(i, j)
    BY <1>11, <2>1, <2>2 DEF JobStep
  <2> QED BY <1>8, <2>3, JobStepWhole DEF c
<1> QED BY <1>4, <1>12, <1>13, <1>14

LEMMA ClosesWhole ==
  ASSUME WholeInv, ListedInv', NEW i \in DOMAIN calls, NEW ok \in BOOLEAN,
         RunnerCloses(i, ok)
  PROVE  WholeInv'
<1> DEFINE c == calls[i]
           j == Head(c.todo)
<1>1. TypeInv
  BY DEF WholeInv, ListedInv
<1>2. rec' = rec /\ op' = op /\ strays' = strays /\ wipe' = wipe
  BY DEF RunnerCloses
<1>3. /\ c \in GoodCall /\ c.open /\ c.todo # <<>>
      /\ calls' \in Seq(GoodCall) /\ Len(calls') = Len(calls)
      /\ calls'[i] = Closed(c, ok)
      /\ \A k \in DOMAIN calls : k # i => calls'[k] = calls[k]
      /\ disk' = IF ok THEN ClosedOn(disk, c) ELSE disk
      /\ disk \in Disk /\ disk'.batch = disk.batch
  BY <1>1, ClosesFacts DEF TypeInv
<1>4. /\ op.at \in {"generating", "solving"} /\ Working /\ OwnCall(c)
      /\ (op.at = "generating" => c.kind = "generate")
      /\ (op.at = "solving" => c.kind = "solve")
      /\ c.todo \in Seq(Cases) /\ c.now
  BY CallsWorking DEF OwnCall
<1>5. /\ op.at = "generating" /\ Current => disk.inp[j] \in {"part", "whole"}
      /\ op.at = "solving" /\ Current /\ op.man.files = CasesOf(op.man.sel) =>
           disk.out[j] \in {"part", "whole"}
  BY <1>3 DEF WholeInv, Generated, Solved
<1> HIDE DEF c
<1>6. Range(c.todo) = {j} \cup Range(Tail(c.todo)) /\ j \in Range(c.todo) /\ j \in Cases
  BY <1>3, <1>4, HeadTail, HeadTailProperties
<1>7. /\ calls'[i].kind = c.kind /\ calls'[i].now = c.now /\ calls'[i].mine = c.mine
      /\ calls'[i].todo = Tail(c.todo) /\ ~ calls'[i].open
      /\ (ok => calls'[i].bad = c.bad)
      /\ (~ ok => calls'[i].bad = c.bad \cup {j})
  BY <1>3, ClosedCall
<1>8. /\ Range(calls'[i].todo) \subseteq Range(c.todo)
      /\ \A e \in Left(c) : e \in Left(calls'[i]) \/ (e = j /\ ok)
  BY <1>6, <1>7 DEF Left
<1> HIDE DEF j
<1>9. JobCalls(i)
  BY <1>2, <1>3, <1>7, <1>8 DEF JobCalls, c
<1>10. CASE ~ ok
  <2>1. disk' = disk
    BY <1>3, <1>10
  <2>2. InputsStep(i, j) /\ OutputsStep(i, j)
    BY <1>7, <1>8, <1>10, <2>1 DEF InputsStep, OutputsStep, c
  <2>3. JobStep(i, j)
    BY <1>9, <2>1, <2>2 DEF JobStep
  <2> QED BY <1>6, <2>3, JobStepWhole DEF c
<1>11. CASE ok /\ op.at = "generating"
  <2>1. disk'.out = disk.out /\ disk'.inp = [disk.inp EXCEPT ![j] = Finished(disk.inp[j], c)]
    BY <1>3, <1>4, <1>11, ClosedDisk DEF j
  <2>2. /\ disk'.inp[j] = Finished(disk.inp[j], c)
        /\ \A e \in Cases : e # j => disk'.inp[e] = disk.inp[e]
    BY <1>3, <1>6, <2>1 DEF Disk
  <2>3. ASSUME Current PROVE disk'.inp[j] = "whole"
    <3>1. disk.inp[j] \in {"part", "whole"}
      BY <1>5, <1>11, <2>3
    <3> QED BY <1>4, <2>2, <3>1 DEF Finished
  <2>4. InputsStep(i, j)
    <3> SUFFICES ASSUME Current
                 PROVE  /\ \A e \in Left(calls[i]) : e \in Left(calls'[i]) \/ e = j
                        /\ disk'.inp[j] = "whole" /\ ~ calls'[i].open
      BY DEF InputsStep
    <3> QED BY <1>7, <1>8, <2>3 DEF c
  <2>5. OutputsStep(i, j)
    BY <1>11 DEF OutputsStep
  <2>6. JobStep(i, j)
    BY <1>9, <1>11, <2>1, <2>2, <2>4, <2>5 DEF JobStep
  <2> QED BY <1>6, <2>6, JobStepWhole DEF c
<1>12. CASE ok /\ op.at = "solving"
  <2>1. disk'.inp = disk.inp /\ disk'.out = [disk.out EXCEPT ![j] = Finished(disk.out[j], c)]
    BY <1>3, <1>4, <1>12, ClosedDisk DEF j
  <2>2. /\ disk'.out[j] = Finished(disk.out[j], c)
        /\ \A e \in Cases : e # j => disk'.out[e] = disk.out[e]
    BY <1>3, <1>6, <2>1 DEF Disk
  <2>3. ASSUME Current, op.man.files = CasesOf(op.man.sel) PROVE disk'.out[j] = "whole"
    <3>1. disk.out[j] \in {"part", "whole"}
      BY <1>5, <1>12, <2>3
    <3> QED BY <1>4, <2>2, <3>1 DEF Finished
  <2>4. InputsStep(i, j)
    BY <1>12 DEF InputsStep
  <2>5. OutputsStep(i, j)
    <3> SUFFICES ASSUME Current, op.man.files = CasesOf(op.man.sel)
                 PROVE  /\ \A e \in Left(calls[i]) : e \in Left(calls'[i]) \/ e = j
                        /\ disk'.out[j] = "whole" /\ ~ calls'[i].open
      BY DEF OutputsStep
    <3> QED BY <1>7, <1>8, <2>3 DEF c
  <2>6. JobStep(i, j)
    BY <1>9, <2>1, <2>2, <2>4, <2>5 DEF JobStep
  <2> QED BY <1>6, <2>6, JobStepWhole DEF c
<1> QED BY <1>4, <1>10, <1>11, <1>12

LEMMA RemovedElements ==
  ASSUME NEW S, NEW q \in Seq(S), NEW i \in 1 .. Len(q)
  PROVE  /\ \A k \in DOMAIN RemoveAt(q, i) : \E m \in DOMAIN q : RemoveAt(q, i)[k] = q[m]
         /\ \A m \in DOMAIN q : m # i => \E k \in DOMAIN RemoveAt(q, i) : RemoveAt(q, i)[k] = q[m]
<1> DEFINE r == RemoveAt(q, i)
<1>1. /\ r \in Seq(S) /\ Len(r) = Len(q) - 1
      /\ \A k \in 1 .. Len(q) - 1 : r[k] = IF k < i THEN q[k] ELSE q[k + 1]
  BY Removed
<1> HIDE DEF r
<1>2. DOMAIN r = 1 .. Len(q) - 1 /\ DOMAIN q = 1 .. Len(q) /\ Len(q) \in Nat
  BY <1>1
<1>3. ASSUME NEW k \in DOMAIN r PROVE \E m \in DOMAIN q : r[k] = q[m]
  <2>1. k \in 1 .. Len(q) - 1 /\ k \in 1 .. Len(q) /\ k + 1 \in 1 .. Len(q)
    BY <1>2
  <2>2. r[k] = q[k] \/ r[k] = q[k + 1]
    BY <1>1, <2>1
  <2> QED BY <1>2, <2>1, <2>2
<1>4. ASSUME NEW m \in DOMAIN q, m # i PROVE \E k \in DOMAIN r : r[k] = q[m]
  <2>1. CASE m < i
    <3>1. m \in 1 .. Len(q) - 1
      BY <1>2, <2>1
    <3> QED BY <1>1, <1>2, <2>1, <3>1
  <2>2. CASE ~ (m < i)
    <3>1. m - 1 \in 1 .. Len(q) - 1 /\ ~ (m - 1 < i) /\ (m - 1) + 1 = m
      BY <1>2, <1>4, <2>2
    <3>2. r[m - 1] = q[(m - 1) + 1]
      BY <1>1, <3>1
    <3> QED BY <1>2, <3>1, <3>2
  <2> QED BY <2>1, <2>2
<1> QED BY <1>3, <1>4 DEF r

LEMMA ReturnsWhole ==
  ASSUME WholeInv, ListedInv', NEW i \in DOMAIN calls, CallReturns(i)
  PROVE  WholeInv'
<1>1. TypeInv
  BY DEF WholeInv, ListedInv
<1>2. /\ rec' = rec /\ disk' = disk /\ strays' = strays /\ wipe' = wipe
      /\ calls[i].todo = <<>> /\ calls' = RemoveAt(calls, i)
      /\ op' = IF calls[i].mine THEN [op EXCEPT !.bad = op.bad \cup calls[i].bad] ELSE op
  BY DEF CallReturns
<1>3. OwnCall(calls[i]) /\ op.at \in {"generating", "solving"} /\ Working
  BY CallsWorking
<1>4. op'.at = op.at /\ op'.man = op.man /\ op'.bad = op.bad \cup calls[i].bad
  BY <1>1, <1>2, <1>3 DEF OwnCall, TypeInv, Task
<1>5. /\ \A k \in DOMAIN calls' : \E m \in DOMAIN calls : calls'[k] = calls[m]
      /\ \A m \in DOMAIN calls : m # i => \E k \in DOMAIN calls' : calls'[k] = calls[m]
  <2>1. calls \in Seq(GoodCall) /\ i \in 1 .. Len(calls)
    BY <1>1, CallAt DEF TypeInv
  <2> QED BY <1>2, <2>1, RemovedElements
<1>6. Calm'
  <2>1. ASSUME NEW k \in DOMAIN calls' PROVE OwnCall(calls[k])'
    <3>1. PICK m \in DOMAIN calls : calls'[k] = calls[m]
      BY <1>5
    <3>2. OwnCall(calls[m])
      BY DEF WholeInv, Calm
    <3> QED BY <1>4, <3>1, <3>2 DEF OwnCall
  <2> QED BY <1>2, <1>3, <1>4, <2>1 DEF WholeInv, Calm
<1>7. Own'
  BY <1>2, <1>4 DEF WholeInv, Own, Working, Current, Untouched
<1>8. InputsWhole' /\ OutputsWhole'
  BY <1>2, SameWhole
<1>9. ASSUME NEW e, Pending(e) PROVE e \in op'.bad \/ Pending(e)'
  <2>1. PICK m \in DOMAIN calls : e \in Left(calls[m])
    BY <1>9 DEF Pending
  <2>2. CASE m = i
    BY <1>2, <1>4, <2>1, <2>2 DEF Left, Range
  <2>3. CASE m # i
    <3>1. PICK k \in DOMAIN calls' : calls'[k] = calls[m]
      BY <1>5, <2>3
    <3>2. e \in Left(calls'[k])
      BY <2>1, <3>1
    <3>3. Pending(e)' <=> \E l \in DOMAIN calls' : e \in Left(calls'[l])
      BY DEF Pending, Left
    <3> QED BY <3>2, <3>3
  <2> QED BY <2>2, <2>3
<1>10. Current' <=> Current
  BY <1>2, <1>4 DEF Current, Untouched
<1>11. Generated'
  BY <1>2, <1>4, <1>5, <1>9, <1>10 DEF WholeInv, Generated
<1>12. Solved'
  BY <1>2, <1>4, <1>5, <1>9, <1>10 DEF WholeInv, Solved
<1> QED BY <1>6, <1>7, <1>8, <1>11, <1>12 DEF WholeInv

\* A pipeline that fails keeps what its manifest lists, and no longer says completed.
LEMMA FailedWhole ==
  ASSUME WholeInv, ListedInv', ~ Working', FailToAgent4(disk), op.at \notin {"generating", "solving"},
         calls' = calls, strays' = strays, wipe' = wipe, wipe = None
  PROVE  WholeInv'
<1>1. TypeInv /\ disk \in Disk
  BY DEF WholeInv, ListedInv, TypeInv
<1>2. /\ rec'.ver = rec.ver /\ disk'.inp = disk.inp /\ disk'.out = disk.out
      /\ \/ disk' = disk
         \/ disk.batch = None /\ disk'.batch = None
         \/ /\ disk.batch # None /\ disk'.batch \in Batch /\ disk'.batch.status = "failed"
            /\ disk'.batch.ver = disk.batch.ver /\ disk'.batch.sel = disk.batch.sel
            /\ disk'.batch.files = disk.batch.files
  BY <1>1, FailFacts
<1>3. CASE disk'.batch = disk.batch
  BY <1>2, <1>3, SameWhole, NoCalls, Ended
<1>4. CASE /\ disk.batch # None /\ disk'.batch \in Batch /\ disk'.batch.status = "failed"
           /\ disk'.batch.ver = disk.batch.ver /\ disk'.batch.sel = disk.batch.sel
           /\ disk'.batch.files = disk.batch.files
  <2>1. InputsWhole'
    BY <1>2, <1>4 DEF WholeInv, InputsWhole
  <2>2. OutputsWhole'
    BY <1>4 DEF OutputsWhole
  <2> QED BY <1>2, <2>1, <2>2, NoCalls, Ended
<1> QED BY <1>2, <1>3, <1>4

\* The calls of a task that begins to wait for its chunks.
LEMMA ChunksBegin ==
  ASSUME TypeInv, NEW kind \in {"generate", "solve"}, NEW sel, calls = <<>>,
         calls' = calls \o ChunkCalls(kind, Jobs(sel))
  PROVE  /\ \A i \in DOMAIN calls' :
              /\ calls'[i].kind = kind /\ calls'[i].now /\ ~ calls'[i].open /\ calls'[i].mine
              /\ Range(calls'[i].todo) \subseteq CasesOf(sel)
         /\ \A e \in CasesOf(sel) : Pending(e)'
<1> DEFINE q == ChunkCalls(kind, Jobs(sel))
<1>1. /\ q \in Seq(GoodCall)
      /\ \A k \in DOMAIN q :
           /\ q[k].kind = kind /\ q[k].now /\ ~ q[k].open /\ q[k].mine
           /\ Range(q[k].todo) \subseteq CasesOf(sel)
      /\ \A e \in CasesOf(sel) : \E k \in DOMAIN q : e \in Range(q[k].todo)
  BY ChunkCallsOf
<1> HIDE DEF q
<1>2. calls' = q
  <2>1. calls' = <<>> \o q
    BY DEF q
  <2> HIDE DEF GoodCall
  <2> QED BY <1>1, <2>1
<1>3. ASSUME NEW e \in CasesOf(sel) PROVE Pending(e)'
  <2>1. PICK k \in DOMAIN q : e \in Range(q[k].todo)
    BY <1>1
  <2>2. k \in DOMAIN calls' /\ e \in Left(calls'[k])
    BY <1>2, <2>1 DEF Left
  <2>3. Pending(e)' <=> \E l \in DOMAIN calls' : e \in Left(calls'[l])
    BY DEF Pending, Left
  <2> QED BY <2>2, <2>3
<1> QED BY <1>1, <1>2, <1>3

LEMMA GenCompileWhole ==
  ASSUME WholeInv, ListedInv', NEW ok \in BOOLEAN, GenCompileReturns(ok)
  PROVE  WholeInv'
<1>1. TypeInv
  BY DEF WholeInv, ListedInv
<1>2. op.at = "gencompile" /\ wipe = None /\ strays' = strays /\ wipe' = wipe
      /\ calls = <<>> /\ strays = {}
  BY <1>1, GenCompileFacts, NoCalls
<1>3. CASE FailToAgent4(disk) /\ op' = Idle /\ calls' = calls
  BY <1>2, <1>3, FailedWhole, IdleNotWorking
<1>4. CASE /\ disk' = DataCleared(disk)
           /\ calls' = calls \o ChunkCalls("generate", Jobs(op.man.sel))
           /\ op' = [op EXCEPT !.at = "generating"] /\ rec' = rec
  <2>1. op'.at = "generating" /\ op'.man = op.man /\ op'.bad = op.bad
    BY <1>1, <1>4, MovedTask
  <2>2. /\ disk'.batch = disk.batch
        /\ \A e \in Cases : disk'.inp[e] = None /\ disk'.out[e] = None
    BY <1>1, <1>4 DEF TypeInv, Disk, DataCleared, NoFiles
  <2>3. /\ \A i \in DOMAIN calls' :
             /\ calls'[i].kind = "generate" /\ calls'[i].now /\ ~ calls'[i].open /\ calls'[i].mine
             /\ Range(calls'[i].todo) \subseteq CasesOf(op.man.sel)
        /\ \A e \in CasesOf(op.man.sel) : Pending(e)'
    BY <1>1, <1>2, <1>4, ChunksBegin
  <2>4. Calm'
    BY <1>2, <2>1, <2>3 DEF Calm, OwnCall
  <2>5. Own'
    BY <1>2, <1>4, <2>1, <2>2 DEF WholeInv, Own, Working, Current, Untouched
  <2>6. Generated'
    BY <2>1, <2>2, <2>3 DEF Generated
  <2>7. Solved'
    BY <2>1 DEF Solved
  <2>8. InputsWhole' /\ OutputsWhole'
    <3>1. /\ disk.batch # None => disk.batch.status # "completed"
          /\ disk.batch # None => disk.batch.files # CasesOf(disk.batch.sel)
      BY <1>2, AtWork DEF Working
    <3> QED BY <2>2, <3>1 DEF InputsWhole, OutputsWhole
  <2> QED BY <2>4, <2>5, <2>6, <2>7, <2>8 DEF WholeInv
<1> QED BY <1>1, <1>3, <1>4, GenCompileFacts

LEMMA ValCompileWhole ==
  ASSUME WholeInv, ListedInv', NEW ok \in BOOLEAN, ValCompileReturns(ok)
  PROVE  WholeInv'
<1>1. TypeInv
  BY DEF WholeInv, ListedInv
<1>2. op.at = "valcompile" /\ wipe = None /\ strays' = strays /\ wipe' = wipe
      /\ calls = <<>> /\ strays = {}
  BY <1>1, ValCompileFacts, NoCalls
<1>3. CASE FailToAgent4(disk) /\ op' = Idle /\ calls' = calls
  BY <1>2, <1>3, FailedWhole, IdleNotWorking
<1>4. CASE /\ disk' = disk
           /\ calls' = calls \o ChunkCalls("solve", Jobs(op.man.sel))
           /\ op' = [op EXCEPT !.at = "solving"] /\ rec' = rec
  <2>1. op'.at = "solving" /\ op'.man = op.man /\ op'.bad = op.bad
    BY <1>1, <1>4, MovedTask
  <2>3. /\ \A i \in DOMAIN calls' :
             /\ calls'[i].kind = "solve" /\ calls'[i].now /\ ~ calls'[i].open /\ calls'[i].mine
             /\ Range(calls'[i].todo) \subseteq CasesOf(op.man.sel)
        /\ \A e \in CasesOf(op.man.sel) : Pending(e)'
    BY <1>1, <1>2, <1>4, ChunksBegin
  <2>4. Calm'
    BY <1>2, <2>1, <2>3 DEF Calm, OwnCall
  <2>5. Own'
    BY <1>2, <1>4, <2>1 DEF WholeInv, Own, Working, Current, Untouched
  <2>6. Generated'
    BY <2>1 DEF Generated
  <2>7. Solved'
    BY <2>1, <2>3 DEF Solved
  <2>8. InputsWhole' /\ OutputsWhole'
    BY <1>4, SameWhole
  <2> QED BY <2>4, <2>5, <2>6, <2>7, <2>8 DEF WholeInv
<1> QED BY <1>1, <1>3, <1>4, ValCompileFacts

\* The batch that a task leaves behind.
LEMMA CollectedWhole ==
  ASSUME WholeInv, op.at = "generating", Gathered, wipe = None, rec'.ver = rec.ver,
         disk'.inp = disk.inp, disk'.out = disk.out,
         disk'.batch \in Batch, disk'.batch.status # "completed",
         disk'.batch.ver = op.man.ver, disk'.batch.sel = op.man.sel,
         disk'.batch.files = CasesOf(op.man.sel) => CasesOf(op.man.sel) \cap op.bad = {}
  PROVE  InputsWhole' /\ OutputsWhole'
<1>1. OutputsWhole'
  BY DEF OutputsWhole
<1>2. ASSUME disk'.batch.ver = rec'.ver, disk'.batch.files = CasesOf(disk'.batch.sel)
      PROVE  /\ \A e \in CasesOf(disk'.batch.sel) : disk'.inp[e] = "whole"
             /\ \A e \in Cases \ CasesOf(disk'.batch.sel) : disk'.inp[e] = None /\ disk'.out[e] = None
  <2>1. Current
    BY <1>2 DEF Current, Untouched
  <2>2. /\ \A e \in CasesOf(op.man.sel) : disk.inp[e] = "whole" \/ e \in op.bad \/ Pending(e)
        /\ \A e \in Cases \ CasesOf(op.man.sel) : disk.inp[e] = None /\ disk.out[e] = None
    BY <2>1 DEF WholeInv, Generated
  <2>3. \A e : ~ Pending(e)
    BY AllGathered
  <2>4. CasesOf(op.man.sel) \cap op.bad = {}
    BY <1>2
  <2> QED BY <2>2, <2>3, <2>4
<1> QED BY <1>1, <1>2 DEF InputsWhole

LEMMA SolvedWhole ==
  ASSUME WholeInv, op.at = "solving", Gathered, wipe = None, rec'.ver = rec.ver,
         disk'.inp = disk.inp, disk'.out = disk.out, disk'.batch \in Batch,
         disk'.batch.ver = op.man.ver, disk'.batch.sel = op.man.sel,
         disk'.batch.files = op.man.files,
         disk'.batch.status = "completed" =>
           /\ CasesOf(op.man.sel) \cap op.bad = {}
           /\ CasesOf(op.man.sel) \subseteq op.man.files
  PROVE  InputsWhole' /\ OutputsWhole'
<1> USE DEF Working
<1>1. op.man.files \subseteq CasesOf(op.man.sel)
  BY DEF WholeInv, ListedInv, FilesFit, TypeInv
<1>2. op.man.ver = rec.ver => Current /\ disk.batch = op.man
  BY DEF Current, Untouched, WholeInv, Own
<1>3. op.man # None
  BY DEF WholeInv, ListedInv, TypeInv
<1>4. InputsWhole'
  BY <1>2, <1>3 DEF WholeInv, InputsWhole
<1>5. OutputsWhole'
  <2> SUFFICES ASSUME disk'.batch.status = "completed", disk'.batch.ver = rec'.ver,
                      NEW e \in CasesOf(op.man.sel)
               PROVE  disk'.out[e] = "whole"
    BY DEF OutputsWhole
  <2>1. Current /\ op.man.files = CasesOf(op.man.sel) /\ e \notin op.bad
    BY <1>1, <1>2
  <2>2. disk.out[e] = "whole" \/ e \in op.bad \/ Pending(e)
    BY <2>1 DEF WholeInv, Solved
  <2> QED BY <2>1, <2>2, AllGathered
<1> QED BY <1>4, <1>5

LEMMA CollectWhole ==
  ASSUME WholeInv, ListedInv', Collect \/ CollectSolved \/ \E k : CollectCut(k) \/ CollectSolvedCut(k)
  PROVE  WholeInv'
<1>1. TypeInv
  BY DEF WholeInv, ListedInv
<1>2. ASSUME Collect PROVE WholeInv'
  <2>1. /\ op.at = "generating" /\ Gathered /\ wipe = None
        /\ op' = Idle /\ calls' = calls /\ strays' = strays /\ wipe' = wipe
        /\ rec'.ver = rec.ver /\ disk'.inp = disk.inp /\ disk'.out = disk.out
    BY <1>1, <1>2, CollectFacts
  <2>2. calls' = <<>> /\ strays' = {} /\ ~ Working'
    BY <2>1, AllGathered, IdleNotWorking
  <2>3. CASE /\ CasesOf(op.man.sel) \cap op.bad = {}
             /\ disk'.batch \in Batch /\ disk'.batch.status = "generated"
             /\ disk'.batch.ver = op.man.ver /\ disk'.batch.sel = op.man.sel
    BY <2>1, <2>2, <2>3, CollectedWhole, Ended
  <2>4. CASE disk'.batch = disk.batch
    BY <2>1, <2>2, <2>4, SameWhole, Ended
  <2>5. CASE /\ disk'.batch \in Batch /\ disk'.batch.status = "failed"
             /\ disk.batch # None /\ disk'.batch.ver = disk.batch.ver
             /\ disk'.batch.sel = disk.batch.sel /\ disk'.batch.files = disk.batch.files
    <3>1. InputsWhole'
      BY <2>1, <2>5 DEF WholeInv, InputsWhole
    <3>2. OutputsWhole'
      BY <2>5 DEF OutputsWhole
    <3> QED BY <2>1, <2>2, <3>1, <3>2, Ended
  <2>6. CASE /\ disk'.batch \in Batch /\ disk'.batch.status = "failed"
             /\ disk'.batch.ver = op.man.ver /\ disk'.batch.sel = op.man.sel
             /\ disk'.batch.files # CasesOf(op.man.sel)
    BY <2>1, <2>2, <2>6, CollectedWhole, Ended
  <2> QED BY <1>1, <1>2, <2>3, <2>4, <2>5, <2>6, CollectFacts
<1>3. ASSUME CollectSolved PROVE WholeInv'
  <2>1. /\ op.at = "solving" /\ Gathered /\ wipe = None
        /\ op' = Idle /\ calls' = calls /\ strays' = strays /\ wipe' = wipe
        /\ rec'.ver = rec.ver /\ disk'.inp = disk.inp /\ disk'.out = disk.out
    BY <1>1, <1>3, SolvedFacts
  <2>2. calls' = <<>> /\ strays' = {} /\ ~ Working'
    BY <2>1, AllGathered, IdleNotWorking
  <2>3. CASE /\ CasesOf(op.man.sel) \cap op.bad = {}
             /\ CasesOf(op.man.sel) \subseteq op.man.files
             /\ disk'.batch \in Batch /\ disk'.batch.status = "completed"
             /\ disk'.batch.ver = op.man.ver /\ disk'.batch.sel = op.man.sel
             /\ disk'.batch.files = op.man.files
    BY <2>1, <2>2, <2>3, SolvedWhole, Ended
  <2>4. CASE disk'.batch = disk.batch
    BY <2>1, <2>2, <2>4, SameWhole, Ended
  <2>5. CASE /\ disk'.batch \in Batch /\ disk'.batch.status = "failed"
             /\ disk.batch # None /\ disk'.batch.ver = disk.batch.ver
             /\ disk'.batch.sel = disk.batch.sel /\ disk'.batch.files = disk.batch.files
    <3>1. InputsWhole'
      BY <2>1, <2>5 DEF WholeInv, InputsWhole
    <3>2. OutputsWhole'
      BY <2>5 DEF OutputsWhole
    <3> QED BY <2>1, <2>2, <3>1, <3>2, Ended
  <2>6. CASE /\ disk'.batch \in Batch /\ disk'.batch.status = "failed"
             /\ disk'.batch.ver = op.man.ver /\ disk'.batch.sel = op.man.sel
             /\ disk'.batch.files = op.man.files
    BY <2>1, <2>2, <2>6, SolvedWhole, Ended
  <2> QED BY <1>1, <1>3, <2>3, <2>4, <2>5, <2>6, SolvedFacts
<1>4. ASSUME NEW k, CollectCut(k) PROVE WholeInv'
  <2>1. /\ op.at = "generating" /\ Gathered /\ wipe = None
        /\ op' = Idle /\ calls' = <<>> /\ strays' = strays /\ wipe' = wipe /\ rec' = rec
        /\ disk'.inp = disk.inp /\ disk'.out = disk.out
        /\ disk'.batch \in Batch /\ disk'.batch.status # "completed"
        /\ disk'.batch.ver = op.man.ver /\ disk'.batch.sel = op.man.sel
        /\ disk'.batch.files = CasesOf(op.man.sel) => CasesOf(op.man.sel) \cap op.bad = {}
    BY <1>1, <1>4, CutFacts
  <2>2. strays' = {} /\ ~ Working'
    BY <2>1, AllGathered, IdleNotWorking
  <2> QED BY <2>1, <2>2, CollectedWhole, Ended
<1>5. ASSUME NEW k, CollectSolvedCut(k) PROVE WholeInv'
  <2>1. /\ op.at = "solving" /\ Gathered /\ wipe = None
        /\ op' = Idle /\ calls' = <<>> /\ strays' = strays /\ wipe' = wipe /\ rec' = rec
        /\ disk'.inp = disk.inp /\ disk'.out = disk.out /\ disk'.batch \in Batch
        /\ disk'.batch.ver = op.man.ver /\ disk'.batch.sel = op.man.sel
        /\ disk'.batch.files = op.man.files
        /\ disk'.batch.status = "completed" =>
             /\ CasesOf(op.man.sel) \cap op.bad = {}
             /\ CasesOf(op.man.sel) \subseteq op.man.files
    BY <1>1, <1>5, SolvedCutFacts
  <2>2. strays' = {} /\ ~ Working'
    BY <2>1, AllGathered, IdleNotWorking
  <2> QED BY <2>1, <2>2, SolvedWhole, Ended
<1> QED BY <1>2, <1>3, <1>4, <1>5

\* A wipe: first batch.json, then the data; the revision moves on at its end.
LEMMA WipeWhole ==
  ASSUME WholeInv, ListedInv', op' = op, calls' = calls, strays' = strays,
         rec' = rec, ~ Untouched', disk'.batch = None, wipe # None,
         wipe' # None => wipe'.rec = wipe.rec
  PROVE  WholeInv'
<1>1. wipe' # None /\ ~ Current'
  BY DEF Untouched, Current
<1>2. Calm'
  BY DEF WholeInv, Calm, OwnCall
<1>3. Own'
  BY <1>1 DEF WholeInv, Own, Working
<1>4. Generated' /\ Solved' /\ InputsWhole' /\ OutputsWhole'
  BY <1>1 DEF Generated, Solved, InputsWhole, OutputsWhole
<1> QED BY <1>2, <1>3, <1>4 DEF WholeInv

LEMMA WipesWhole ==
  ASSUME WholeInv, ListedInv',
         WipeRelease \/ WipeBatch \/ WipeEnds \/ \E f \in Cases \X {"in", "out"} : WipeFile(f)
  PROVE  WholeInv'
<1>1. TypeInv /\ disk \in Disk /\ wipe \in Wipe \cup {None}
  BY DEF WholeInv, ListedInv, TypeInv
<1>2. ASSUME WipeRelease PROVE WholeInv'
  <2>1. /\ rec' = rec /\ op' = op /\ calls' = calls /\ strays' = strays
        /\ wipe \in Wipe /\ wipe # None /\ "release" \in wipe.todo
        /\ wipe' = [wipe EXCEPT !.todo = {"batch"}]
        /\ disk' = [disk EXCEPT !.draft = None, !.rel = None, !.proj = "draft"]
    BY <1>1, <1>2 DEF WipeRelease
  <2>2. disk'.batch = disk.batch /\ disk'.inp = disk.inp /\ disk'.out = disk.out
    BY <1>1, <2>1 DEF Disk
  <2>3. wipe' # None /\ wipe'.rec = wipe.rec /\ Untouched /\ Untouched'
    <3>1. wipe' \in Wipe /\ wipe'.rec = wipe.rec /\ wipe'.todo = {"batch"}
      BY <2>1 DEF Wipe
    <3> QED BY <2>1, <3>1, NoneApart DEF Untouched
  <2>4. Current' <=> Current
    BY <2>1, <2>3 DEF Current
  <2>5. Calm'
    BY <2>1 DEF WholeInv, Calm, OwnCall
  <2>6. Own'
    BY <2>1, <2>2, <2>3, <2>4 DEF WholeInv, Own, Working
  <2>7. Generated' /\ Solved'
    BY <2>1, <2>2, <2>4 DEF WholeInv, Generated, Solved, Pending, Left
  <2> QED BY <2>1, <2>2, <2>5, <2>6, <2>7, SameWhole DEF WholeInv
<1>3. ASSUME WipeBatch PROVE WholeInv'
  <2>1. /\ rec' = rec /\ op' = op /\ calls' = calls /\ strays' = strays
        /\ wipe \in Wipe /\ wipe # None
        /\ wipe' = [wipe EXCEPT !.todo = {}, !.left = Files(disk)]
        /\ disk'.batch = None
    BY <1>1, <1>3 DEF WipeBatch, Disk
  <2>2. wipe' \in Wipe /\ wipe'.rec = wipe.rec /\ wipe'.todo = {}
    <3>1. Files(disk) \in SUBSET (Cases \X {"in", "out"})
      BY DEF Files
    <3> QED BY <2>1, <3>1 DEF Wipe
  <2>3. ~ Untouched'
    BY <2>2, NoneApart DEF Untouched
  <2> QED BY <2>1, <2>2, <2>3, WipeWhole
<1>4. ASSUME WipeEnds PROVE WholeInv'
  <2>1. /\ disk' = disk /\ op' = op /\ calls' = calls /\ strays' = strays /\ wipe' = None
        /\ wipe # None /\ wipe.todo = {} /\ rec' = wipe.rec
    BY <1>4 DEF WipeEnds
  <2>2. rec'.ver = rec.ver + 1 /\ rec.ver \in Nat /\ disk.batch = None
    BY <1>1, <2>1 DEF WholeInv, Own, Untouched, TypeInv, Record
  <2>3. Working => op.man.ver <= rec.ver /\ op.man.ver \in Nat
    BY <1>1, WorkingMan DEF WholeInv, Own, Batch
  <2>4. Working => ~ Current' /\ op.man.ver <= rec'.ver
    BY <2>1, <2>2, <2>3 DEF Current
  <2>5. Calm'
    BY <2>1 DEF WholeInv, Calm, OwnCall
  <2>6. Own'
    BY <2>1, <2>2, <2>4 DEF WholeInv, Own, Working, Untouched
  <2>7. Generated' /\ Solved'
    BY <2>1, <2>4 DEF Generated, Solved, Working
  <2>8. InputsWhole' /\ OutputsWhole'
    BY <2>1, <2>2 DEF InputsWhole, OutputsWhole
  <2> QED BY <2>5, <2>6, <2>7, <2>8 DEF WholeInv
<1>5. ASSUME NEW f \in Cases \X {"in", "out"}, WipeFile(f) PROVE WholeInv'
  <2>1. /\ rec' = rec /\ op' = op /\ calls' = calls /\ strays' = strays
        /\ wipe \in Wipe /\ wipe # None /\ wipe.todo = {}
        /\ wipe' = [wipe EXCEPT !.left = wipe.left \ {f}]
        /\ disk'.batch = disk.batch
    BY <1>1, <1>5 DEF WipeFile, Disk
  <2>2. wipe' \in Wipe /\ wipe'.rec = wipe.rec /\ wipe'.todo = {}
    BY <2>1 DEF Wipe
  <2>3. ~ Untouched' /\ ~ Untouched
    BY <2>1, <2>2, NoneApart DEF Untouched
  <2>4. disk'.batch = None
    BY <2>1, <2>3 DEF WholeInv, Own
  <2> QED BY <2>1, <2>2, <2>3, <2>4, WipeWhole
<1> QED BY <1>2, <1>3, <1>4, <1>5

\* An edit begins: nothing is removed yet.
LEMMA EditWhole ==
  ASSUME WholeInv, ListedInv', wipe = None, wipe' # None, wipe'.todo # {},
         wipe'.rec.ver = rec.ver + 1, rec' = rec, op' = op, calls' = calls, strays' = strays,
         disk'.batch = disk.batch, disk'.inp = disk.inp, disk'.out = disk.out
  PROVE  WholeInv'
<1>1. Untouched /\ Untouched' /\ (Current' <=> Current)
  BY DEF Untouched, Current
<1>2. Calm'
  BY DEF WholeInv, Calm, OwnCall
<1>3. Own'
  BY <1>1 DEF WholeInv, Own, Working
<1>4. Generated' /\ Solved'
  BY <1>1 DEF WholeInv, Generated, Solved, Pending, Left
<1> QED BY <1>2, <1>3, <1>4, SameWhole DEF WholeInv

LEMMA StartsWhole ==
  ASSUME WholeInv, ListedInv', NEW sel \in (SUBSET Subtasks) \ {{}},
         GenerateStart(sel) \/ ValidateStart(sel)
  PROVE  WholeInv'
<1>1. TypeInv /\ rec.ver \in Nat
  BY DEF WholeInv, ListedInv, TypeInv, Record
<1>2. CASE GenerateStart(sel)
  <2>1. /\ wipe = None /\ op.at = "idle" /\ rec' = rec /\ wipe' = wipe
        /\ calls' = AgedCalls(calls) /\ (strays = {} => strays' = {})
        /\ op'.at = "gencompile"
        /\ op'.man \in Batch /\ op'.man.ver = rec.ver /\ op'.man.sel = sel
        /\ op'.man.status = "generating" /\ op'.man.files = {} /\ disk'.batch = op'.man
    BY <1>1, <1>2, GenerateFacts
  <2>2. calls' = <<>> /\ strays' = {} /\ DOMAIN calls' = {}
    <3>1. calls = <<>> /\ strays = {} /\ DOMAIN calls = {}
      BY <2>1, NoCalls
    <3> QED BY <2>1, <3>1 DEF AgedCalls
  <2>3. Calm'
    BY <2>2 DEF Calm
  <2>7. sel # {} /\ CasesOf(sel) # {} /\ wipe' = None /\ op'.man.ver <= rec'.ver
    <3>1. sel \in SUBSET Subtasks /\ sel # {}
      OBVIOUS
    <3>2. CasesOf(sel) # {}
      BY <3>1, NotEmpty
    <3>3. rec'.ver \in Nat /\ op'.man.ver = rec'.ver
      BY <1>1, <2>1
    <3> QED BY <2>1, <3>1, <3>2, <3>3
  <2>4. Own'
    <3>1. (Working => disk.batch \in {None, op.man} /\ op.man.ver <= rec.ver)'
      BY <2>1, <2>7
    <3>2. (~ Untouched => disk.batch = None)'
      BY <2>7 DEF Untouched
    <3> QED BY <2>1, <2>7, <3>1, <3>2 DEF Own
  <2>5. Generated' /\ Solved'
    BY <2>1 DEF Generated, Solved
  <2>6. InputsWhole' /\ OutputsWhole'
    <3>1. disk'.batch.files # CasesOf(disk'.batch.sel) /\ disk'.batch.status # "completed"
      BY <2>1, <2>7
    <3> QED BY <3>1 DEF InputsWhole, OutputsWhole
  <2> QED BY <2>3, <2>4, <2>5, <2>6 DEF WholeInv
<1>3. CASE ValidateStart(sel)
  <2>1. /\ wipe = None /\ op.at = "idle" /\ rec' = rec /\ wipe' = wipe
        /\ calls' = calls /\ strays' = strays /\ op'.at = "valcompile"
        /\ disk.batch \in Batch /\ disk.batch.ver = rec.ver
        /\ op'.man \in Batch /\ op'.man.ver = disk.batch.ver
        /\ op'.man.sel = disk.batch.sel /\ op'.man.status = "validating"
        /\ op'.man.files = disk.batch.files
        /\ disk'.batch = op'.man /\ disk'.inp = disk.inp /\ disk'.out = disk.out
    BY <1>1, <1>3, ValidateFacts DEF ManifestMatches
  <2>2. calls' = <<>> /\ strays' = {} /\ DOMAIN calls' = {}
    BY <2>1, NoCalls
  <2>3. Calm'
    BY <2>2 DEF Calm
  <2>4. Own'
    BY <1>1, <2>1 DEF Own, Working, Untouched
  <2>5. Generated' /\ Solved'
    BY <2>1 DEF Generated, Solved
  <2>6. InputsWhole' /\ OutputsWhole'
    BY <2>1, NoneApart DEF WholeInv, InputsWhole, OutputsWhole
  <2> QED BY <2>3, <2>4, <2>5, <2>6 DEF WholeInv
<1> QED BY <1>2, <1>3

LEMMA ContainersFinite == TypeInv => IsFiniteSet(Containers)
<1> SUFFICES ASSUME TypeInv PROVE IsFiniteSet(Containers)
  OBVIOUS
<1> DEFINE R == {j \in DOMAIN calls : Running(j)}
           f == [i \in R |-> [calls[i] EXCEPT !.mine = FALSE]]
<1>1. IsFiniteSet(R)
  <2>1. DOMAIN calls = 1 .. Len(calls) /\ Len(calls) \in Int /\ 1 \in Int
    BY CallAt
  <2>2. IsFiniteSet(1 .. Len(calls)) /\ R \in SUBSET (1 .. Len(calls))
    BY <2>1, FS_Interval
  <2> QED BY <2>2, FS_Subset
<1>2. f \in Surjection(R, Containers)
  <2>1. Containers = {f[i] : i \in R}
    BY DEF Containers
  <2>2. f \in [R -> Containers]
    BY <2>1
  <2>3. \A c \in Containers : \E i \in R : f[i] = c
    BY <2>1
  <2> QED BY <2>2, <2>3 DEF Surjection
<1> HIDE DEF R, f
<1> QED BY <1>1, <1>2, FS_Surjection

\* Without a container that outlives its call, a stop leaves none, and so does a
\* call that fails: it was the only one.
LEMMA NoneOutlives ==
  ASSUME WholeInv, MaxStrays = 0, NEW gone \in SUBSET Containers
  PROVE  /\ Stopped(gone) => strays' = {}
         /\ \A i \in DOMAIN calls : CallFails(i, gone) => calls' = <<>> /\ strays' = {}
<1>1. TypeInv /\ strays = {}
  BY DEF WholeInv, ListedInv, Calm
<1>2. IsFiniteSet(gone) /\ Cardinality(gone) \in Nat
  BY <1>1, ContainersFinite, FS_Subset, FS_CardinalityType
<1>3. Cardinality(gone) = 0 <=> gone = {}
  BY <1>2, FS_EmptySet
<1>4. ASSUME Stopped(gone) PROVE strays' = {}
  <2>1. strays' = gone /\ Cardinality(strays') <= MaxStrays
    BY <1>1, <1>4 DEF Stopped
  <2>2. Cardinality(gone) <= 0
    BY <2>1
  <2> QED BY <1>2, <1>3, <2>1, <2>2
<1>5. ASSUME NEW i \in DOMAIN calls, CallFails(i, gone) PROVE calls' = <<>> /\ strays' = {}
  <2>1. /\ calls' = Orphaned(RemoveAt(calls, i)) /\ strays' = gone
        /\ Len(calls') + Cardinality(strays') <= MaxStrays
    BY <1>1, <1>5 DEF CallFails
  <2>2. calls \in Seq(GoodCall) /\ i \in 1 .. Len(calls)
    BY <1>1, CallAt DEF TypeInv
  <2>3. RemoveAt(calls, i) \in Seq(GoodCall)
    BY <2>2, Removed
  <2>4. calls' \in Seq(GoodCall)
    BY <2>1, <2>3, CallsChanged
  <2>5. Len(calls') \in Nat /\ Len(calls') + Cardinality(gone) <= 0
    BY <2>1, <2>4
  <2>6. Len(calls') = 0 /\ Cardinality(gone) = 0
    BY <1>2, <2>5
  <2> HIDE DEF GoodCall
  <2> QED BY <1>3, <2>1, <2>4, <2>6
<1> QED BY <1>4, <1>5

LEMMA ExportFrame ==
  ASSUME TypeInv,
         ExportStart \/ ExportCheck \/ ExportList \/ PackCode \/ ExportReturns
           \/ \E c \in Cases : PackFile(c)
  PROVE  /\ rec' = rec /\ calls' = calls /\ strays' = strays /\ wipe' = wipe
         /\ disk'.batch = disk.batch /\ disk'.inp = disk.inp /\ disk'.out = disk.out
         /\ disk'.draft = disk.draft /\ disk'.rel = disk.rel
         /\ op.at \in {"idle", "check", "list", "packcode", "pack", "packed"}
         /\ op'.at \in {"idle", "check", "list", "packcode", "pack", "packed"}
<1>1. CASE ExportStart
  BY <1>1 DEF ExportStart, Idle
<1>2. CASE ExportCheck
  <2>1. disk' \in {disk, Verified(disk)}
    BY <1>2 DEF ExportCheck
  <2>2. op'.at \in {"list", "idle"}
    BY <1>2 DEF ExportCheck, Idle, TypeInv, Task
  <2> QED BY <1>2, <2>1, <2>2, DiskVerified DEF ExportCheck, TypeInv
<1>3. CASE ExportList
  <2>1. op'.at \in {"packcode", "idle"}
    BY <1>3 DEF ExportList, Idle, TypeInv, Task
  <2> QED BY <1>3, <2>1 DEF ExportList
<1>4. CASE PackCode
  <2>1. op'.at \in {"pack", "idle"}
    BY <1>4 DEF PackCode, Idle, TypeInv, Task
  <2> QED BY <1>4, <2>1 DEF PackCode
<1>5. CASE ExportReturns
  BY <1>5 DEF ExportReturns, Idle
<1>6. ASSUME NEW c \in Cases, PackFile(c)
      PROVE  /\ rec' = rec /\ calls' = calls /\ strays' = strays /\ wipe' = wipe /\ disk' = disk
             /\ op.at = "pack" /\ op'.at \in {"pack", "packed", "idle"}
  <2>1. op'.at \in {"pack", "packed", "idle"}
    BY <1>6 DEF PackFile, Idle, TypeInv, Task
  <2> QED BY <1>6, <2>1 DEF PackFile
<1> QED BY <1>1, <1>2, <1>3, <1>4, <1>5, <1>6

LEMMA WholeInit == Init => WholeInv
<1> SUFFICES ASSUME Init PROVE WholeInv
  OBVIOUS
<1>1. ListedInv
  BY ListedInit
<1>2. op.at = "idle" /\ ~ Working /\ calls = <<>> /\ DOMAIN calls = {} /\ strays = {}
      /\ wipe = None /\ disk.batch = None
  BY IdleTask DEF Init, Working
<1> QED BY <1>1, <1>2 DEF WholeInv, Calm, Own, Generated, Solved, InputsWhole, OutputsWhole, Untouched

LEMMA WholeStep ==
  ASSUME MaxStrays = 0, WholeInv, [Next]_vars
  PROVE  WholeInv'
<1>1. TypeInv /\ ListedInv'
  BY ListedStep DEF WholeInv, ListedInv
<1>2. CASE UNCHANGED vars
  BY <1>1, <1>2, Elsewhere DEF vars
<1>3. CASE Runner
  <2>1. strays = {}
    BY DEF WholeInv, Calm
  <2>2. ASSUME NEW i \in DOMAIN calls, NEW ok \in BOOLEAN, RunnerOpens(i, ok) \/ RunnerCloses(i, ok)
        PROVE  WholeInv'
    BY <1>1, <2>2, OpensWhole, ClosesWhole
  <2>3. ASSUME NEW i \in DOMAIN calls, CallReturns(i) PROVE WholeInv'
    BY <1>1, <2>3, ReturnsWhole
  <2> QED BY <1>3, <2>1, <2>2, <2>3 DEF Runner
<1>4. CASE \/ ExportStart \/ ExportCheck \/ ExportList \/ PackCode \/ ExportReturns
           \/ \E c \in Cases : PackFile(c)
  <2>1. /\ rec' = rec /\ calls' = calls /\ strays' = strays /\ wipe' = wipe
        /\ disk'.batch = disk.batch /\ disk'.inp = disk.inp /\ disk'.out = disk.out
        /\ op.at \in {"idle", "check", "list", "packcode", "pack", "packed"}
        /\ op'.at \in {"idle", "check", "list", "packcode", "pack", "packed"}
    BY <1>1, <1>4, ExportFrame
  <2>2. calls' = <<>> /\ strays' = {} /\ ~ Working'
    BY <2>1, NoCalls DEF Working
  <2> QED BY <1>1, <2>1, <2>2, SameWhole, Ended
<1>5. CASE Server
  <2>1. ASSUME NEW ok \in BOOLEAN, GenCompileReturns(ok) \/ ValCompileReturns(ok) PROVE WholeInv'
    BY <1>1, <2>1, GenCompileWhole, ValCompileWhole
  <2>2. ASSUME Collect \/ CollectSolved PROVE WholeInv'
    BY <1>1, <2>2, CollectWhole
  <2>3. ASSUME WipeRelease \/ WipeBatch \/ WipeEnds \/ \E f \in Cases \X {"in", "out"} : WipeFile(f)
        PROVE  WholeInv'
    BY <1>1, <2>3, WipesWhole
  <2> QED BY <1>4, <1>5, <2>1, <2>2, <2>3 DEF Server
<1>6. CASE User
  <2>1. ASSUME NEW sel \in (SUBSET Subtasks) \ {{}}, GenerateStart(sel) \/ ValidateStart(sel)
        PROVE  WholeInv'
    BY <1>1, <2>1, StartsWhole
  <2>2. ASSUME UpdateSolution PROVE WholeInv'
    <3>1. /\ wipe = None /\ rec' = rec /\ disk' = disk /\ op' = op /\ calls' = calls /\ strays' = strays
      BY <2>2 DEF UpdateSolution
    <3>2. /\ wipe' \in Wipe /\ wipe' # None /\ wipe'.todo = {"release", "batch"}
          /\ wipe'.rec.ver = rec.ver + 1
      BY <1>1, <2>2, WipeFacts DEF UpdateSolution
    <3> QED BY <1>1, <3>1, <3>2, EditWhole
  <2>3. ASSUME NEW c \in Codes, SaveUserDraft(c) PROVE WholeInv'
    <3>1. /\ wipe = None /\ rec' = rec /\ op' = op /\ calls' = calls /\ strays' = strays
          /\ disk' = [disk EXCEPT !.draft = c, !.proj = "draft"]
      BY <2>3 DEF SaveUserDraft
    <3>2. /\ wipe' \in Wipe /\ wipe' # None /\ wipe'.todo = {"batch"}
          /\ wipe'.rec.ver = rec.ver + 1
      BY <1>1, <2>3, WipeFacts DEF SaveUserDraft
    <3>3. disk'.batch = disk.batch /\ disk'.inp = disk.inp /\ disk'.out = disk.out
      BY <1>1, <3>1 DEF TypeInv, Disk
    <3> QED BY <1>1, <3>1, <3>2, <3>3, EditWhole
  <2>4. ASSUME Confirm \/ \E c \in Codes : AgentPasses(c) PROVE WholeInv'
    <3>1. /\ op' = op /\ calls' = calls /\ strays' = strays /\ wipe' = wipe
      BY <2>4 DEF Confirm, AgentPasses
    <3>2. rec'.ver = rec.ver /\ disk'.batch = disk.batch /\ disk'.inp = disk.inp /\ disk'.out = disk.out
      BY <1>1, <2>4 DEF Confirm, AgentPasses, TypeInv, Disk, Record
    <3> QED BY <1>1, <3>1, <3>2, Elsewhere
  <2> QED BY <1>4, <1>6, <2>1, <2>2, <2>3, <2>4 DEF User
<1>7. CASE Fault
  <2>1. ASSUME SandboxLost PROVE WholeInv'
    <3>1. op' = Idle /\ calls' = <<>> /\ strays' = {} /\ rec' = rec /\ disk' = disk /\ wipe' = wipe
      BY <2>1 DEF SandboxLost
    <3> QED BY <1>1, <3>1, IdleNotWorking, SameWhole, Ended
  <2>2. ASSUME NEW gone \in SUBSET Containers, Restart(gone) PROVE WholeInv'
    <3>1. op' = Idle /\ calls' = <<>> /\ rec' = rec /\ disk' = disk /\ wipe' = None /\ Stopped(gone)
      BY <2>2 DEF Restart, Stopped
    <3>2. strays' = {}
      BY <3>1, NoneOutlives
    <3> QED BY <1>1, <3>1, <3>2, IdleNotWorking, SameWhole, Ended
  <2>3. ASSUME NEW gone \in SUBSET Containers, NEW i \in DOMAIN calls, CallFails(i, gone)
        PROVE  WholeInv'
    <3>1. op' = Idle /\ rec' = rec /\ disk' = disk /\ wipe' = wipe
      BY <2>3 DEF CallFails
    <3>2. calls' = <<>> /\ strays' = {}
      BY <2>3, NoneOutlives
    <3> QED BY <1>1, <3>1, <3>2, IdleNotWorking, SameWhole, Ended
  <2>4. ASSUME NEW k, CollectCut(k) \/ CollectSolvedCut(k) PROVE WholeInv'
    BY <1>1, <2>4, CollectWhole
  <2> QED BY <1>7, <2>1, <2>2, <2>3, <2>4 DEF Fault
<1> QED BY <1>2, <1>3, <1>5, <1>6, <1>7 DEF Next, Progress

\* As long as no container outlives the call it served, what a completed manifest of
\* the present revision lists is in data/, whole and of that batch, and nothing else
\* is: through lost sandboxes, failed calls, edits at any moment, and stops of the
\* process anywhere, in the middle of a wipe too.
THEOREM CompletedWhole ==
  ASSUME MaxStrays = 0
  PROVE  Spec => []CompletedIsWhole
<1>1. Init => WholeInv
  BY WholeInit
<1>2. WholeInv /\ [Next]_vars => WholeInv'
  BY WholeStep
<1>3. WholeInv => CompletedIsWhole
  BY WholeEnough
<1> QED BY <1>1, <1>2, <1>3, PTL DEF Spec

-----------------------------------------------------------------------------
(* What the export packs, while no container outlives its call and the process *)
(* does not stop half way through a wipe                                        *)

\* The wipe of an edit removes release and template first.
Gone == disk.rel = None /\ disk.draft = None
Exporting == op.at \in {"check", "list", "packcode", "pack", "packed"}

ReleaseFirst == Exporting /\ wipe # None => "release" \in wipe.todo \/ Gone

\* A project that may be exported has a batch.json, until a wipe has removed it; the
\* record that the wipe ends with may not be exported.
BatchThere ==
  /\ rec.ready /\ Untouched => disk.batch # None
  /\ wipe # None => ~ wipe.rec.ready

\* data/ is the batch of the manifest in memory, and so is the release.
WholeOf(m) ==
  \A e \in Cases : IF e \in CasesOf(m.sel) THEN disk.inp[e] = "whole" /\ disk.out[e] = "whole"
                   ELSE disk.inp[e] = None /\ disk.out[e] = None
Chosen == op.man # None /\ op.man.code = disk.rel /\ disk.proj = "release" /\ WholeOf(op.man)

Listing ==
  /\ op.at \in {"check", "list", "packcode"} => op.got = {} /\ op.whole
  /\ op.at = "check" => Gone \/ disk.batch # None
  /\ op.at \in {"list", "packcode"} => Gone \/ Chosen
  /\ op.at = "packcode" => Gone \/ op.left = CasesOf(op.man.sel)

\* Once the code is packed, a file is there as it was listed, or it is gone.
Packing ==
  op.at = "pack" =>
    /\ op.man # None /\ op.code = op.man.code
    /\ op.left \cup op.got = CasesOf(op.man.sel) /\ op.whole
    /\ \A e \in op.left : disk.inp[e] \in {"whole", None} /\ disk.out[e] \in {"whole", None}

ExportInv ==
  WholeInv /\ ReleaseFirst /\ BatchThere /\ Listing /\ Packing /\ PackSound

LEMMA ExportInit == Init => ExportInv
<1> SUFFICES ASSUME Init PROVE ExportInv
  OBVIOUS
<1>1. op.at = "idle" /\ ~ rec.ready /\ wipe = None
  BY IdleTask DEF Init
<1> QED BY <1>1, WholeInit
        DEF ExportInv, ReleaseFirst, BatchThere, Listing, Packing, PackSound, Exporting

\* A step after which no export is at work.
LEMMA NotExporting ==
  ASSUME WholeInv', ~ Exporting', BatchThere'
  PROVE  ExportInv'
BY DEF ExportInv, ReleaseFirst, Listing, Packing, PackSound, Exporting

LEMMA BatchKept ==
  ASSUME ExportInv, wipe' = wipe, rec'.ready => rec.ready, disk.batch # None => disk'.batch # None
  PROVE  BatchThere'
BY DEF ExportInv, BatchThere, Untouched

LEMMA IdleNotExporting == op' = Idle => ~ Exporting'
BY IdleTask DEF Exporting

LEMMA FailBatch ==
  ASSUME ExportInv, FailToAgent4(disk), wipe' = wipe
  PROVE  BatchThere'
<1>1. TypeInv /\ disk \in Disk
  BY DEF ExportInv, WholeInv, ListedInv, TypeInv
<1>2. \/ disk' = disk /\ rec' = rec
      \/ ~ rec'.ready
  BY <1>1, FailFacts
<1> QED BY <1>2 DEF ExportInv, BatchThere, Untouched

\* The steps of the containers and of the tasks of stages 6 and 7.
LEMMA RunnerExport ==
  ASSUME ExportInv, WholeInv', Runner
  PROVE  ExportInv'
<1>1. TypeInv /\ strays = {} /\ WholeInv
  BY DEF ExportInv, WholeInv, ListedInv, Calm
<1>2. ASSUME NEW i \in DOMAIN calls, NEW ok \in BOOLEAN, RunnerOpens(i, ok) \/ RunnerCloses(i, ok)
      PROVE  ExportInv'
  <2>1. rec' = rec /\ op' = op /\ wipe' = wipe
    BY <1>2 DEF RunnerOpens, RunnerCloses
  <2>2. disk'.batch = disk.batch
    BY <1>1, <1>2, OpensFacts, ClosesFacts
  <2>3. op.at \in {"generating", "solving"}
    BY <1>1, CallsWorking
  <2> QED BY <2>1, <2>2, <2>3, NotExporting, BatchKept DEF Exporting
<1>3. ASSUME NEW i \in DOMAIN calls, CallReturns(i) PROVE ExportInv'
  <2>1. rec' = rec /\ disk' = disk /\ wipe' = wipe /\ op'.at = op.at
    BY <1>1, <1>3 DEF CallReturns, TypeInv, Task
  <2>2. op.at \in {"generating", "solving"}
    BY <1>1, CallsWorking
  <2> QED BY <2>1, <2>2, NotExporting, BatchKept DEF Exporting
<1> QED BY <1>1, <1>2, <1>3 DEF Runner

LEMMA TasksExport ==
  ASSUME ExportInv, WholeInv',
         \/ \E ok \in BOOLEAN : GenCompileReturns(ok) \/ ValCompileReturns(ok)
         \/ Collect \/ CollectSolved \/ \E k : CollectCut(k) \/ CollectSolvedCut(k)
  PROVE  ExportInv'
<1>1. TypeInv
  BY DEF ExportInv, WholeInv, ListedInv
<1>2. ASSUME NEW ok \in BOOLEAN, GenCompileReturns(ok) PROVE ExportInv'
  <2>1. wipe' = wipe
    BY <1>1, <1>2, GenCompileFacts
  <2>2. CASE FailToAgent4(disk) /\ op' = Idle
    BY <2>1, <2>2, FailBatch, IdleNotExporting, NotExporting
  <2>3. CASE disk' = DataCleared(disk) /\ op' = [op EXCEPT !.at = "generating"] /\ rec' = rec
    <3>1. disk'.batch = disk.batch
      BY <1>1, <2>3 DEF TypeInv, Disk, DataCleared
    <3>2. op'.at = "generating"
      BY <1>1, <2>3, MovedTask
    <3> QED BY <2>1, <2>3, <3>1, <3>2, BatchKept, NotExporting DEF Exporting
  <2> QED BY <1>1, <1>2, <2>2, <2>3, GenCompileFacts
<1>3. ASSUME NEW ok \in BOOLEAN, ValCompileReturns(ok) PROVE ExportInv'
  <2>1. wipe' = wipe
    BY <1>1, <1>3, ValCompileFacts
  <2>2. CASE FailToAgent4(disk) /\ op' = Idle
    BY <2>1, <2>2, FailBatch, IdleNotExporting, NotExporting
  <2>3. CASE disk' = disk /\ op' = [op EXCEPT !.at = "solving"] /\ rec' = rec
    <3>2. op'.at = "solving"
      BY <1>1, <2>3, MovedTask
    <3> QED BY <2>1, <2>3, <3>2, BatchKept, NotExporting DEF Exporting
  <2> QED BY <1>1, <1>3, <2>2, <2>3, ValCompileFacts
<1>4. ASSUME Collect PROVE ExportInv'
  <2>1. op' = Idle /\ wipe' = wipe
    BY <1>1, <1>4, CollectFacts
  <2>2. disk'.batch # None \/ ~ rec'.ready \/ (disk' = disk /\ rec' = rec)
    BY <1>1, <1>4, CollectFacts
  <2>3. BatchThere'
    BY <2>1, <2>2 DEF ExportInv, BatchThere, Untouched
  <2> QED BY <2>1, <2>3, IdleNotExporting, NotExporting
<1>5. ASSUME CollectSolved PROVE ExportInv'
  <2>1. op' = Idle /\ wipe' = wipe
    BY <1>1, <1>5, SolvedFacts
  <2>2. disk'.batch # None \/ ~ rec'.ready \/ (disk' = disk /\ rec' = rec)
    BY <1>1, <1>5, SolvedFacts, NoneApart
  <2>3. BatchThere'
    BY <2>1, <2>2 DEF ExportInv, BatchThere, Untouched
  <2> QED BY <2>1, <2>3, IdleNotExporting, NotExporting
<1>6. ASSUME NEW k, CollectCut(k) PROVE ExportInv'
  <2>1. op' = Idle /\ wipe' = wipe /\ rec' = rec /\ disk'.batch \in Batch
    BY <1>1, <1>6, CutFacts
  <2> QED BY <2>1, BatchKept, NoneApart, IdleNotExporting, NotExporting
<1>7. ASSUME NEW k, CollectSolvedCut(k) PROVE ExportInv'
  <2>1. op' = Idle /\ wipe' = wipe /\ rec' = rec /\ disk'.batch \in Batch
    BY <1>1, <1>7, SolvedCutFacts
  <2> QED BY <2>1, BatchKept, NoneApart, IdleNotExporting, NotExporting
<1> QED BY <1>2, <1>3, <1>4, <1>5, <1>6, <1>7

\* The steps of the export itself.
LEMMA ThreadExport ==
  ASSUME ExportInv, WholeInv',
         ExportStart \/ ExportCheck \/ ExportList \/ PackCode \/ ExportReturns
           \/ \E c \in Cases : PackFile(c)
  PROVE  ExportInv'
<1>1. TypeInv /\ WholeInv /\ disk \in Disk /\ op \in Task
  BY DEF ExportInv, WholeInv, ListedInv, TypeInv
<1>2. /\ rec' = rec /\ wipe' = wipe
      /\ disk'.batch = disk.batch /\ disk'.inp = disk.inp /\ disk'.out = disk.out
      /\ disk'.draft = disk.draft /\ disk'.rel = disk.rel
  BY <1>1, ExportFrame
<1>3. BatchThere' /\ (Gone' <=> Gone)
  BY <1>2, BatchKept DEF Gone
<1>4. CASE op' = Idle
  BY <1>3, <1>4, IdleNotExporting, NotExporting
<1>5. CASE ExportStart
  <2>1. /\ wipe = None /\ rec.ready /\ op'.at = "check" /\ op'.got = {} /\ op'.whole
    BY <1>5 DEF ExportStart, Idle
  <2>2. disk.batch # None
    BY <2>1 DEF ExportInv, BatchThere, Untouched
  <2> QED BY <1>2, <1>3, <2>1, <2>2
          DEF ExportInv, ReleaseFirst, Listing, Packing, PackSound
<1>6. CASE ExportCheck /\ op' # Idle
  <2>1. /\ op.at = "check" /\ (Uncheckable \/ Checked)
        /\ op' = [op EXCEPT !.at = "list", !.man = disk.batch]
        /\ disk' = IF ~ Uncheckable /\ disk.rel # None THEN Verified(disk) ELSE disk
    BY <1>6 DEF ExportCheck
  <2>2. op'.at = "list" /\ op'.man = disk.batch /\ op'.got = {} /\ op'.whole
    BY <1>1, <2>1 DEF ExportInv, Listing, Task
  <2>3. ReleaseFirst'
    BY <1>2, <1>3, <2>1, <2>2 DEF ExportInv, ReleaseFirst, Exporting
  <2>4. Gone' \/ Chosen'
    <3>1. CASE Uncheckable
      BY <1>3, <2>1, <3>1 DEF ExportInv, Listing, Uncheckable
    <3>2. CASE Checked
      <4>1. /\ disk.batch # None /\ disk.batch.status = "completed" /\ disk.batch.ver = rec.ver
            /\ disk.batch.code = disk.rel /\ disk.rel # None
        BY <3>2 DEF Checked, ManifestMatches
      <4>2. disk'.proj = "release"
        BY <1>1, <2>1, <4>1, DiskVerified DEF Uncheckable
      <4>3. WholeOf(disk.batch)
        BY <1>1, <4>1, WholeEnough DEF CompletedIsWhole, WholeOf
      <4>4. WholeOf(op.man)'
        BY <1>2, <2>2, <4>3 DEF WholeOf
      <4> QED BY <1>2, <2>2, <4>1, <4>2, <4>4 DEF Chosen
    <3> QED BY <2>1, <3>1, <3>2
  <2> QED BY <1>3, <2>2, <2>3, <2>4 DEF ExportInv, Listing, Packing, PackSound
<1>7. CASE ExportList /\ op' # Idle
  <2> DEFINE ins == {c \in Cases : disk.inp[c] # None}
  <2>1. /\ op.at = "list" /\ disk' = disk
        /\ op' = [op EXCEPT !.at = "packcode", !.left = ins]
    BY <1>7 DEF ExportList
  <2>2. Chosen => ins = CasesOf(op.man.sel)
    <3>1. CasesOf(op.man.sel) \subseteq Cases
      BY CasesFinite
    <3>2. "whole" # None
      BY NoneApart DEF File
    <3> QED BY <3>1, <3>2 DEF Chosen, WholeOf
  <2>3. ins \in SUBSET Cases
    OBVIOUS
  <2> HIDE DEF ins
  <2>4. /\ op'.at = "packcode" /\ op'.man = op.man /\ op'.got = {} /\ op'.whole /\ op'.left = ins
    BY <1>1, <2>1, <2>3 DEF ExportInv, Listing, Task
  <2>5. Gone \/ Chosen
    BY <2>1 DEF ExportInv, Listing
  <2>6. Chosen => Chosen'
    BY <2>1, <2>4 DEF Chosen, WholeOf
  <2>7. ReleaseFirst'
    BY <1>2, <1>3, <2>1, <2>4 DEF ExportInv, ReleaseFirst, Exporting
  <2> QED BY <1>3, <2>2, <2>4, <2>5, <2>6, <2>7 DEF ExportInv, Listing, Packing, PackSound
<1>8. CASE PackCode /\ op' # Idle
  <2>1. /\ op.at = "packcode" /\ disk' = disk /\ Visible(disk) # None
        /\ op' = [op EXCEPT !.at = "pack", !.code = Visible(disk)]
    BY <1>8 DEF PackCode
  <2>2. ~ Gone
    BY <2>1 DEF Visible, Gone
  <2>3. /\ Chosen /\ op.left = CasesOf(op.man.sel) /\ op.got = {} /\ op.whole
    BY <2>1, <2>2 DEF ExportInv, Listing
  <2>4. Visible(disk) = op.man.code
    BY <2>3 DEF Chosen, Visible
  <2>5. /\ op'.at = "pack" /\ op'.man = op.man /\ op'.code = Visible(disk)
        /\ op'.left = op.left /\ op'.got = op.got /\ op'.whole
    BY <1>1, <2>1, <2>3 DEF Task
  <2>6. \A e \in op.left : disk.inp[e] = "whole" /\ disk.out[e] = "whole"
    BY <2>3, CasesFinite DEF Chosen, WholeOf
  <2>7. Packing'
    BY <2>1, <2>3, <2>4, <2>5, <2>6 DEF Packing, Chosen
  <2>8. ReleaseFirst'
    BY <1>2, <1>3, <2>1, <2>5 DEF ExportInv, ReleaseFirst, Exporting
  <2> QED BY <1>3, <2>5, <2>7, <2>8 DEF ExportInv, Listing, PackSound
<1>9. ASSUME NEW c \in Cases, PackFile(c), op' # Idle PROVE ExportInv'
  <2> DEFINE w == op.whole /\ disk.inp[c] = "whole" /\ disk.out[c] = "whole"
             at == IF op.left = {c} THEN "packed" ELSE "pack"
  <2>1. /\ op.at = "pack" /\ c \in op.left /\ disk' = disk
        /\ disk.inp[c] # None /\ disk.out[c] # None
        /\ op' = [op EXCEPT !.left = op.left \ {c}, !.got = op.got \cup {c}, !.whole = w, !.at = at]
    BY <1>9 DEF PackFile
  <2>2. /\ op.man # None /\ op.code = op.man.code
        /\ op.left \cup op.got = CasesOf(op.man.sel) /\ op.whole
        /\ \A e \in op.left : disk.inp[e] \in {"whole", None} /\ disk.out[e] \in {"whole", None}
    BY <2>1 DEF ExportInv, Packing
  <2>3. w /\ at \in {"packed", "pack"} /\ (at = "packed" => op.left = {c})
    BY <2>1, <2>2
  <2> HIDE DEF w, at
  <2>4. /\ op'.at = at /\ op'.man = op.man /\ op'.code = op.code
        /\ op'.left = op.left \ {c} /\ op'.got = op.got \cup {c}
    BY <1>1, <2>1 DEF Task
  <2>5. op'.whole
    <3>1. op'.whole = w
      BY <1>1, <2>1 DEF Task
    <3> QED BY <2>3, <3>1
  <2>6. op'.left \cup op'.got = CasesOf(op.man.sel)
    BY <2>1, <2>2, <2>4
  <2>7. Packing'
    BY <2>1, <2>2, <2>4, <2>5, <2>6 DEF Packing
  <2>8. PackSound'
    <3> SUFFICES ASSUME at = "packed" PROVE op'.got = CasesOf(op'.man.sel)
      BY <2>2, <2>4, <2>5 DEF PackSound
    <3>1. op'.left = {}
      BY <2>3, <2>4
    <3> QED BY <2>4, <2>6, <3>1
  <2>9. ReleaseFirst'
    BY <1>2, <1>3, <2>1 DEF ExportInv, ReleaseFirst, Exporting
  <2> QED BY <1>3, <2>3, <2>4, <2>7, <2>8, <2>9 DEF ExportInv, Listing
<1> QED BY <1>4, <1>5, <1>6, <1>7, <1>8, <1>9 DEF ExportReturns

\* A wipe, whatever the export is doing.
LEMMA WipesExport ==
  ASSUME ExportInv, WholeInv',
         WipeRelease \/ WipeBatch \/ WipeEnds \/ \E f \in Cases \X {"in", "out"} : WipeFile(f)
  PROVE  ExportInv'
<1>1. TypeInv /\ disk \in Disk /\ op \in Task /\ wipe \in Wipe
  BY DEF ExportInv, WholeInv, ListedInv, TypeInv, WipeRelease, WipeBatch, WipeEnds, WipeFile
<1>2. op' = op
  BY DEF WipeRelease, WipeBatch, WipeEnds, WipeFile
\* It is enough that release and template are gone, and that files only go.
<1>3. ASSUME Exporting => Gone', BatchThere',
             \A e \in Cases : /\ disk'.inp[e] = disk.inp[e] \/ disk'.inp[e] = None
                              /\ disk'.out[e] = disk.out[e] \/ disk'.out[e] = None
      PROVE  ExportInv'
  <2>1. ReleaseFirst'
    BY <1>2, <1>3 DEF ReleaseFirst, Exporting
  <2>2. Listing'
    BY <1>2, <1>3 DEF ExportInv, Listing, Exporting
  <2>3. Packing'
    <3>1. op.left \subseteq Cases
      BY <1>1 DEF Task
    <3> QED BY <1>2, <1>3, <3>1 DEF ExportInv, Packing
  <2>4. PackSound'
    BY <1>2 DEF ExportInv, PackSound
  <2> QED BY <1>3, <2>1, <2>2, <2>3, <2>4 DEF ExportInv
<1>4. ASSUME WipeRelease PROVE ExportInv'
  <2>1. /\ disk' = [disk EXCEPT !.draft = None, !.rel = None, !.proj = "draft"]
        /\ rec' = rec /\ wipe # None /\ "release" \in wipe.todo
        /\ wipe' = [wipe EXCEPT !.todo = {"batch"}]
    BY <1>4 DEF WipeRelease
  <2>2. Gone' /\ disk'.batch = disk.batch /\ disk'.inp = disk.inp /\ disk'.out = disk.out
    BY <1>1, <2>1 DEF Disk, Gone
  <2>3. wipe'.rec = wipe.rec /\ Untouched
    BY <1>1, <2>1 DEF Wipe, Untouched
  <2>4. BatchThere'
    BY <2>1, <2>2, <2>3 DEF ExportInv, BatchThere
  <2> QED BY <1>3, <2>2, <2>4
<1>5. ASSUME WipeBatch PROVE ExportInv'
  <2>1. /\ wipe # None /\ wipe.todo = {"batch"}
        /\ wipe' = [wipe EXCEPT !.todo = {}, !.left = Files(disk)]
    BY <1>5 DEF WipeBatch
  <2>2. disk'.draft = disk.draft /\ disk'.rel = disk.rel /\ disk'.inp = disk.inp /\ disk'.out = disk.out
    BY <1>1, <1>5 DEF WipeBatch, Disk
  <2>3. Exporting => Gone'
    BY <2>1, <2>2 DEF ExportInv, ReleaseFirst, Gone
  <2>4. wipe'.rec = wipe.rec /\ wipe'.todo = {} /\ wipe' # None
    <3>1. Files(disk) \in SUBSET (Cases \X {"in", "out"})
      BY DEF Files
    <3>2. wipe' \in Wipe /\ wipe'.rec = wipe.rec /\ wipe'.todo = {}
      BY <1>1, <2>1, <3>1 DEF Wipe
    <3> QED BY <3>2, NoneApart
  <2>5. BatchThere'
    BY <2>1, <2>4 DEF ExportInv, BatchThere, Untouched
  <2> QED BY <1>3, <2>2, <2>3, <2>5
<1>6. ASSUME WipeEnds PROVE ExportInv'
  <2>1. disk' = disk /\ rec' = wipe.rec /\ wipe # None /\ wipe.todo = {} /\ wipe' = None
    BY <1>6 DEF WipeEnds
  <2>2. Exporting => Gone'
    BY <2>1 DEF ExportInv, ReleaseFirst, Gone
  <2>3. BatchThere'
    BY <2>1 DEF ExportInv, BatchThere
  <2> QED BY <1>3, <2>1, <2>2, <2>3
<1>7. ASSUME NEW f \in Cases \X {"in", "out"}, WipeFile(f) PROVE ExportInv'
  <2>1. /\ wipe # None /\ wipe.todo = {} /\ wipe' = [wipe EXCEPT !.left = wipe.left \ {f}] /\ rec' = rec
        /\ disk' = IF f[2] = "in" THEN [disk EXCEPT !.inp[f[1]] = None]
                   ELSE [disk EXCEPT !.out[f[1]] = None]
    BY <1>7 DEF WipeFile
  <2>2. /\ disk'.draft = disk.draft /\ disk'.rel = disk.rel /\ disk'.batch = disk.batch
        /\ \A e \in Cases : /\ disk'.inp[e] = disk.inp[e] \/ disk'.inp[e] = None
                            /\ disk'.out[e] = disk.out[e] \/ disk'.out[e] = None
    <3>1. f[1] \in Cases
      OBVIOUS
    <3>2. CASE f[2] = "in"
      BY <1>1, <2>1, <3>1, <3>2 DEF Disk
    <3>3. CASE f[2] # "in"
      BY <1>1, <2>1, <3>1, <3>3 DEF Disk
    <3> QED BY <3>2, <3>3
  <2>3. Exporting => Gone'
    BY <2>1, <2>2 DEF ExportInv, ReleaseFirst, Gone
  <2>4. wipe'.rec = wipe.rec /\ wipe'.todo = {} /\ wipe' # None
    <3>1. wipe' \in Wipe /\ wipe'.rec = wipe.rec /\ wipe'.todo = {}
      BY <1>1, <2>1 DEF Wipe
    <3> QED BY <2>1, <3>1, NoneApart
  <2>5. BatchThere'
    BY <2>1, <2>4 DEF ExportInv, BatchThere, Untouched
  <2> QED BY <1>3, <2>2, <2>3, <2>5
<1> QED BY <1>4, <1>5, <1>6, <1>7

LEMMA UserExport ==
  ASSUME ExportInv, WholeInv', User, ~ ExportStart
  PROVE  ExportInv'
<1>1. TypeInv /\ disk \in Disk
  BY DEF ExportInv, WholeInv, ListedInv, TypeInv
<1>2. ASSUME NEW sel \in (SUBSET Subtasks) \ {{}}, GenerateStart(sel) PROVE ExportInv'
  <2>1. rec' = rec /\ wipe' = wipe /\ op'.at = "gencompile" /\ disk'.batch # None
    BY <1>1, <1>2, GenerateFacts, NoneApart
  <2> QED BY <2>1, BatchKept, NotExporting DEF Exporting
<1>3. ASSUME NEW sel \in (SUBSET Subtasks) \ {{}}, ValidateStart(sel) PROVE ExportInv'
  <2>1. rec' = rec /\ wipe' = wipe /\ op'.at = "valcompile" /\ disk'.batch # None
    BY <1>1, <1>3, ValidateFacts, NoneApart
  <2> QED BY <2>1, BatchKept, NotExporting DEF Exporting
<1>4. ASSUME UpdateSolution PROVE ExportInv'
  <2>1. rec' = rec /\ disk' = disk /\ op' = op /\ wipe = None
    BY <1>4 DEF UpdateSolution
  <2>2. wipe' # None /\ wipe'.todo = {"release", "batch"} /\ ~ wipe'.rec.ready
    BY <1>1, <1>4, WipeFacts DEF UpdateSolution
  <2>3. BatchThere'
    BY <2>1, <2>2 DEF ExportInv, BatchThere, Untouched
  <2>4. ReleaseFirst'
    BY <2>2 DEF ReleaseFirst
  <2>5. Listing' /\ Packing' /\ PackSound'
    BY <2>1 DEF ExportInv, Listing, Packing, PackSound, Gone, Chosen, WholeOf
  <2> QED BY <2>3, <2>4, <2>5 DEF ExportInv
<1>5. ASSUME NEW c \in Codes, SaveUserDraft(c) PROVE ExportInv'
  <2>1. /\ rec' = rec /\ op' = op /\ op.at = "idle" /\ wipe = None
        /\ disk' = [disk EXCEPT !.draft = c, !.proj = "draft"]
    BY <1>5 DEF SaveUserDraft
  <2>2. wipe' # None /\ wipe'.todo = {"batch"} /\ ~ wipe'.rec.ready
    BY <1>1, <1>5, WipeFacts DEF SaveUserDraft
  <2>3. disk'.batch = disk.batch
    BY <1>1, <2>1 DEF Disk
  <2>4. BatchThere'
    BY <2>1, <2>2, <2>3 DEF ExportInv, BatchThere, Untouched
  <2> QED BY <2>1, <2>4, NotExporting DEF Exporting
<1>6. ASSUME Confirm \/ \E c \in Codes : AgentPasses(c) PROVE ExportInv'
  <2>1. op' = op /\ op.at = "idle" /\ wipe' = wipe
    BY <1>6 DEF Confirm, AgentPasses
  <2>2. disk'.batch = disk.batch /\ rec'.ready = rec.ready
    BY <1>1, <1>6 DEF Confirm, AgentPasses, Disk, TypeInv, Record
  <2> QED BY <2>1, <2>2, BatchKept, NotExporting DEF Exporting
<1> QED BY <1>2, <1>3, <1>4, <1>5, <1>6 DEF User

LEMMA FaultExport ==
  ASSUME ~ Wiping, ExportInv, WholeInv',
         \/ SandboxLost
         \/ \E gone \in SUBSET Containers :
              Restart(gone) \/ \E i \in DOMAIN calls : CallFails(i, gone)
  PROVE  ExportInv'
<1>1. op' = Idle /\ rec' = rec /\ disk' = disk /\ wipe' = wipe
  BY DEF SandboxLost, Restart, Stopped, CallFails
<1> QED BY <1>1, BatchKept, IdleNotExporting, NotExporting

LEMMA ExportStep ==
  ASSUME MaxStrays = 0, ~ Wiping, ExportInv, [Next]_vars
  PROVE  ExportInv'
<1>1. WholeInv'
  BY WholeStep DEF ExportInv
<1>2. CASE UNCHANGED vars
  BY <1>1, <1>2
     DEF vars, ExportInv, ReleaseFirst, BatchThere, Listing, Packing, PackSound, Exporting,
         Untouched, Gone, Chosen, WholeOf
<1>3. CASE Runner
  BY <1>1, <1>3, RunnerExport
<1>4. CASE Server
  BY <1>1, <1>4, TasksExport, ThreadExport, WipesExport DEF Server
<1>5. CASE User
  BY <1>1, <1>5, ThreadExport, UserExport
<1>6. CASE Fault
  BY <1>1, <1>6, TasksExport, FaultExport DEF Fault
<1> QED BY <1>2, <1>3, <1>4, <1>5, <1>6 DEF Next, Progress

\* As long as no container outlives its call and the process does not stop half way
\* through a wipe, an archive that is handed out is one completed batch, all of it,
\* beside the code it came from, although a new solution may be saved, and release,
\* manifest and data removed, while the thread packs them.
THEOREM ArchiveIsWhole ==
  ASSUME MaxStrays = 0, ~ Wiping
  PROVE  Spec => []PackSound
<1>1. Init => ExportInv
  BY ExportInit
<1>2. ExportInv /\ [Next]_vars => ExportInv'
  BY ExportStep
<1>3. ExportInv => PackSound
  BY DEF ExportInv
<1> QED BY <1>1, <1>2, <1>3, PTL DEF Spec
====
