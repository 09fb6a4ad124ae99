---------------------------- MODULE StoreProofs ----------------------------
(***************************************************************************)
(* For every number of contents, test cases and stops: the directory of a  *)
(* project has its type and its link leads to a whole template, wherever   *)
(* the process stops; a release that was in force stays in force or in the *)
(* history; and the file operations of each method add up to the one step  *)
(* Workflow takes for it. As long as the process does not stop while a     *)
(* draft is saved, a confirmed code is kept whole; as long as it does not  *)
(* stop in either edit of a user, an export packs the answers of the       *)
(* present solution, made by the released generator for the present plan.  *)
(*                                                                         *)
(* The invariant is of a directory and a number of stops, Good(d, stops).  *)
(* Of every method it is shown where its operations lead and which         *)
(* directories they lead by (Leads); when those are good after one stop    *)
(* more, and trace the release, the method may stop anywhere (Moves). That *)
(* a record stays in order is taken from WorkflowProofs.                   *)
(***************************************************************************)
EXTENDS StoreProperties, SequenceTheorems, FiniteSetTheorems, WellFoundedInduction, TLAPS

-----------------------------------------------------------------------------
(* Sequences of file operations: what an entry is after them *)

\* The sets of the entries.
Plans == [3..4 -> W!Draft \cup {None}]
Works == [Dirs -> [draft: W!Draft, whole: BOOLEAN] \cup {None}]
Releases == [draft: W!Draft, parts: SUBSET Sides] \cup {NoRelease}
DataSets == [tests: SUBSET Tests, code: Contents \cup {None}, plan: Contents \cup {None},
             outs: Sources \cup {None}]

\* The sets of the entries have names.
LEMMA DiskIs ==
  Disk = [source: Sources, input: W!GlobalInput, record: W!ProjectRecord, plans: Plans,
          work: Works, current: Dirs \cup {None}, released: Releases, history: SUBSET W!Draft,
          projection: {"none", "working", "release"}, batch: W!Batch \cup {None}, data: DataSets]
BY DEF Disk, Plans, Works, Releases, DataSets

\* Of a set of numbers below n one is the greatest.
Less == {ss \in Nat \X Nat : ss[1] < ss[2]}

\* A non-empty part of 1..n has a greatest member.
LEMMA Greatest ==
  ASSUME NEW n \in Nat, NEW S \in SUBSET (1 .. n), S # {}
  PROVE  Max(S) \in S /\ \A m \in S : m <= Max(S)
<1> DEFINE T == {n - m : m \in S}
<1>1. T \in SUBSET Nat /\ T # {}
  <2>1. \A m \in S : n - m \in Nat
    OBVIOUS
  <2> QED BY <2>1
<1>2. IsWellFoundedOn(Less, Nat)
  BY NatLessThanWellFounded DEF OpToRel, Less
<1>3. PICK t \in T : \A u \in T : ~ (<<u, t>> \in Less)
  BY <1>1, <1>2, WFMin
<1>4. PICK k \in S : t = n - k
  BY <1>3
<1>5. ASSUME NEW m \in S PROVE k >= m
  <2>1. n - m \in T /\ n - m \in Nat /\ n - k \in Nat
    BY <1>4
  <2>2. ~ (n - m < n - k)
    BY <1>3, <1>4, <2>1 DEF Less
  <2> QED BY <2>2
<1>6. \E x \in S : \A y \in S : x >= y
  BY <1>4, <1>5
<1>7. Max(S) \in S /\ \A y \in S : Max(S) >= y
  BY <1>6 DEF Max
<1> QED BY <1>7

\* A sequence, whatever is in it.
IsSeq(ops) == ops \in Seq({ops[i] : i \in DOMAIN ops})

\* A directory: what it has for each of its entries.
IsDirectory(d) == d = [entry \in DOMAIN d |-> d[entry]]

\* A sequence over any set is one over what it holds.
LEMMA SeqOfItsOwn ==
  ASSUME NEW Z, NEW ops \in Seq(Z)
  PROVE  IsSeq(ops)
<1>1. Len(ops) \in Nat /\ DOMAIN ops = 1 .. Len(ops) /\ ops = [i \in 1 .. Len(ops) |-> ops[i]]
  OBVIOUS
<1>2. ops \in [1 .. Len(ops) -> {ops[i] : i \in DOMAIN ops}]
  BY <1>1
<1> QED BY <1>1, <1>2, SeqDef, SMTT(30) DEF IsSeq

\* No operation changes nothing.
LEMMA AfterNone ==
  ASSUME NEW d, IsDirectory(d)
  PROVE  After(d, <<>>) = d
BY DEF After, IsDirectory

\* One operation changes the entries it has.
LEMMA AfterOne ==
  ASSUME NEW d, NEW o
  PROVE  After(d, <<o>>) = [entry \in DOMAIN d |-> IF entry \in DOMAIN o THEN o[entry] ELSE d[entry]]
<1>1. DOMAIN <<o>> = 1 .. 1 /\ <<o>>[1] = o
  OBVIOUS
<1>2. ASSUME NEW entry \in DOMAIN d
      PROVE  LET writes == {i \in DOMAIN <<o>> : entry \in DOMAIN <<o>>[i]}
             IN  (IF writes = {} THEN d[entry] ELSE <<o>>[Max(writes)][entry])
                 = IF entry \in DOMAIN o THEN o[entry] ELSE d[entry]
  <2> DEFINE writes == {i \in DOMAIN <<o>> : entry \in DOMAIN <<o>>[i]}
  <2>1. writes \in SUBSET (1 .. 1) /\ (writes # {} <=> entry \in DOMAIN o)
    BY <1>1
  <2>2. writes # {} => Max(writes) = 1
    BY <2>1, Greatest
  <2> QED BY <1>1, <2>1, <2>2
<1> QED BY <1>2 DEF After

\* Two sequences one after the other are one sequence.
LEMMA AfterBoth ==
  ASSUME NEW d, NEW A, NEW B, IsSeq(A), IsSeq(B)
  PROVE  IsSeq(A \o B) /\ After(d, A \o B) = After(After(d, A), B)
<1> DEFINE X == {A[i] : i \in DOMAIN A}
           Y == {B[i] : i \in DOMAIN B}
           C == A \o B
<1>1. A \in Seq(X) /\ B \in Seq(Y)
  BY DEF IsSeq
<1> HIDE DEF X, Y
<1>2. A \in Seq(X \cup Y) /\ B \in Seq(X \cup Y)
  BY <1>1, SeqMonotonic
<1>3. /\ C \in Seq(X \cup Y) /\ Len(C) = Len(A) + Len(B)
      /\ \A i \in 1 .. Len(A) : C[i] = A[i]
      /\ \A i \in 1 .. Len(B) : C[Len(A) + i] = B[i]
  BY <1>2
<1>4. /\ Len(A) \in Nat /\ Len(B) \in Nat /\ DOMAIN A = 1 .. Len(A) /\ DOMAIN B = 1 .. Len(B)
      /\ DOMAIN C = 1 .. Len(C)
  BY <1>2, <1>3
<1> HIDE DEF C
<1>5. IsSeq(C)
  BY <1>3, SeqOfItsOwn
<1>6. DOMAIN After(d, A) = DOMAIN d
  BY DEF After
<1>7. ASSUME NEW entry \in DOMAIN d
      PROVE  After(d, C)[entry] = After(After(d, A), B)[entry]
  <2> DEFINE inA == {i \in DOMAIN A : entry \in DOMAIN A[i]}
             inB == {i \in DOMAIN B : entry \in DOMAIN B[i]}
             inC == {i \in DOMAIN C : entry \in DOMAIN C[i]}
  <2>1. /\ After(d, A)[entry] = IF inA = {} THEN d[entry] ELSE A[Max(inA)][entry]
        /\ After(d, C)[entry] = IF inC = {} THEN d[entry] ELSE C[Max(inC)][entry]
        /\ After(After(d, A), B)[entry] = IF inB = {} THEN After(d, A)[entry] ELSE B[Max(inB)][entry]
    BY <1>6, <1>7 DEF After
  <2>2. inA \in SUBSET (1 .. Len(A)) /\ inB \in SUBSET (1 .. Len(B)) /\ inC \in SUBSET (1 .. Len(C))
    BY <1>4
  <2>3. /\ \A i \in 1 .. Len(A) : i \in inC <=> i \in inA
        /\ \A i \in 1 .. Len(B) : Len(A) + i \in inC <=> i \in inB
    BY <1>3, <1>4
  <2>4. \A k \in 1 .. Len(C) : k \in 1 .. Len(A) \/ (k - Len(A) \in 1 .. Len(B) /\ k = Len(A) + (k - Len(A)))
    BY <1>3, <1>4
  <2> HIDE DEF inA, inB, inC
  <2>5. CASE inB # {}
    <3>1. Max(inB) \in inB /\ \A m \in inB : m <= Max(inB)
      BY <1>4, <2>2, <2>5, Greatest
    <3>2. Len(A) + Max(inB) \in inC
      BY <2>2, <2>3, <3>1
    <3>3. Max(inC) \in inC /\ \A m \in inC : m <= Max(inC)
      <4>1. Len(C) \in Nat /\ inC # {}
        BY <1>3, <1>4, <3>2
      <4> QED BY <2>2, <4>1, Greatest
    <3>4. Max(inC) \in 1 .. Len(C) /\ Max(inB) \in 1 .. Len(B) /\ Len(A) + Max(inB) <= Max(inC)
      BY <2>2, <3>1, <3>2, <3>3
    <3>5. Max(inC) - Len(A) \in 1 .. Len(B) /\ Max(inC) = Len(A) + (Max(inC) - Len(A))
      BY <1>3, <1>4, <3>4
    <3>6. Max(inC) - Len(A) \in inB
      BY <2>3, <3>3, <3>5
    <3>7. Max(inC) = Len(A) + Max(inB)
      BY <1>4, <3>1, <3>4, <3>5, <3>6
    <3>8. C[Max(inC)] = B[Max(inB)]
      BY <1>3, <3>4, <3>7
    <3> QED BY <2>1, <2>5, <3>2, <3>8
  <2>6. CASE inB = {}
    <3>1. inC = inA
      <4>1. ASSUME NEW i \in inC PROVE i \in inA
        BY <1>4, <2>2, <2>3, <2>4, <2>6
      <4>2. ASSUME NEW i \in inA PROVE i \in inC
        BY <2>2, <2>3
      <4> QED BY <4>1, <4>2
    <3>2. inA # {} => Max(inA) \in 1 .. Len(A)
      BY <1>4, <2>2, Greatest
    <3> QED BY <1>3, <2>1, <2>6, <3>1, <3>2
  <2> QED BY <2>5, <2>6
<1>8. DOMAIN After(d, C) = DOMAIN d /\ DOMAIN After(After(d, A), B) = DOMAIN d
  BY DEF After
<1>9. After(d, C) = After(After(d, A), B)
  <2>1. /\ After(d, C) = [entry \in DOMAIN d |-> After(d, C)[entry]]
        /\ After(After(d, A), B) = [entry \in DOMAIN d |-> After(After(d, A), B)[entry]]
    BY <1>6 DEF After
  <2> QED BY <1>7, <2>1
<1> QED BY <1>5, <1>9 DEF C

\* ops lead from d to f, by way of directories of S only.
Leads(S, d, ops, f) ==
  /\ IsSeq(ops)
  /\ \A k \in 0 .. Len(ops) : After(d, SubSeq(ops, 1, k)) \in S
  /\ After(d, ops) = f

\* The beginnings of a sequence.
LEMMA SeqFacts ==
  ASSUME NEW ops, IsSeq(ops)
  PROVE  /\ Len(ops) \in Nat /\ DOMAIN ops = 1 .. Len(ops)
         /\ SubSeq(ops, 1, 0) = <<>> /\ SubSeq(ops, 1, Len(ops)) = ops
         /\ \A k \in 0 .. Len(ops) : IsSeq(SubSeq(ops, 1, k)) /\ Len(SubSeq(ops, 1, k)) = k
<1> DEFINE X == {ops[i] : i \in DOMAIN ops}
<1>1. ops \in Seq(X)
  BY DEF IsSeq
<1> HIDE DEF X
<1>2. /\ Len(ops) \in Nat /\ DOMAIN ops = 1 .. Len(ops)
      /\ SubSeq(ops, 1, 0) = <<>> /\ SubSeq(ops, 1, Len(ops)) = ops
  BY <1>1
<1>3. ASSUME NEW k \in 0 .. Len(ops)
      PROVE  IsSeq(SubSeq(ops, 1, k)) /\ Len(SubSeq(ops, 1, k)) = k
  <2> DEFINE q == SubSeq(ops, 1, k)
  <2>1. q \in Seq(X) /\ Len(q) = k /\ q = [i \in 1 .. k |-> q[i]]
    BY <1>1, <1>2
  <2> HIDE DEF q
  <2>3. IsSeq(q)
    BY <2>1, SeqOfItsOwn
  <2> QED BY <2>1, <2>3 DEF q
<1> QED BY <1>2, <1>3

\* To do nothing leads nowhere.
LEMMA LeadsNowhere ==
  ASSUME NEW S, NEW d \in S, IsDirectory(d)
  PROVE  Leads(S, d, <<>>, d)
<1>1. IsSeq(<<>>) /\ Len(<<>>) = 0
  BY DEF IsSeq
<1>2. After(d, <<>>) = d
  BY AfterNone
<1>3. \A k \in 0 .. Len(<<>>) : SubSeq(<<>>, 1, k) = <<>>
  BY <1>1
<1> QED BY <1>1, <1>2, <1>3 DEF Leads

\* One operation leads to the directory with its entries.
LEMMA LeadsOne ==
  ASSUME NEW S, NEW d \in S, IsDirectory(d), NEW o, NEW f \in S,
         f = [entry \in DOMAIN d |-> IF entry \in DOMAIN o THEN o[entry] ELSE d[entry]]
  PROVE  Leads(S, d, <<o>>, f)
<1>1. IsSeq(<<o>>) /\ Len(<<o>>) = 1
  BY DEF IsSeq
<1>2. After(d, <<>>) = d /\ After(d, <<o>>) = f
  BY AfterNone, AfterOne
<1>3. SubSeq(<<o>>, 1, 0) = <<>> /\ SubSeq(<<o>>, 1, Len(<<o>>)) = <<o>>
  BY <1>1, SeqFacts
<1>4. \A k \in 0 .. Len(<<o>>) : k = 0 \/ k = Len(<<o>>)
  BY <1>1
<1> QED BY <1>1, <1>2, <1>3, <1>4 DEF Leads

\* What leads on leads there by the same directories.
LEMMA LeadsOn ==
  ASSUME NEW S, NEW d, NEW e, NEW f, NEW A, NEW B, Leads(S, d, A, e), Leads(S, e, B, f)
  PROVE  Leads(S, d, A \o B, f)
<1>1. IsSeq(A) /\ IsSeq(B) /\ IsSeq(A \o B) /\ After(d, A \o B) = f
  BY AfterBoth DEF Leads
<1> DEFINE X == {A[i] : i \in DOMAIN A} \cup {B[i] : i \in DOMAIN B}
<1>2. A \in Seq(X) /\ B \in Seq(X)
  BY <1>1, SeqMonotonic DEF IsSeq
<1> HIDE DEF X
<1>3. Len(A) \in Nat /\ Len(B) \in Nat /\ Len(A \o B) = Len(A) + Len(B)
  BY <1>2
<1>4. ASSUME NEW k \in 0 .. Len(A \o B)
      PROVE  After(d, SubSeq(A \o B, 1, k)) \in S
  <2>1. CASE k <= Len(A)
    <3>1. SubSeq(A \o B, 1, k) = SubSeq(A, 1, k)
      <4>1. CASE k = 0
        BY <1>1, <4>1, SeqFacts
      <4>2. CASE k # 0
        <5>1. 1 \in 1 .. Len(A) /\ k \in 1 .. Len(A)
          BY <1>3, <2>1, <4>2
        <5> QED BY <1>2, <5>1, SubSeqOfConcat1
      <4> QED BY <4>1, <4>2
    <3>2. k \in 0 .. Len(A)
      BY <1>3, <2>1
    <3> QED BY <3>1, <3>2 DEF Leads
  <2>2. CASE k > Len(A)
    <3>1. k - Len(A) \in 0 .. Len(B)
      BY <1>3, <2>2
    <3>2. SubSeq(A \o B, 1, k) = A \o SubSeq(B, 1, k - Len(A))
      <4> DEFINE C == A \o B
                 P == SubSeq(C, 1, k)
                 Q == A \o SubSeq(B, 1, k - Len(A))
      <4>1. C \in Seq(X) /\ Len(C) = Len(A) + Len(B)
            /\ \A i \in 1 .. Len(C) : C[i] = IF i <= Len(A) THEN A[i] ELSE B[i - Len(A)]
        BY <1>2
      <4> HIDE DEF C
      <4>2. P \in Seq(X) /\ Len(P) = k /\ \A i \in 1 .. k : P[i] = C[i]
        BY <1>3, <4>1, <2>2
      <4>3. SubSeq(B, 1, k - Len(A)) \in Seq(X) /\ Len(SubSeq(B, 1, k - Len(A))) = k - Len(A)
            /\ \A i \in 1 .. k - Len(A) : SubSeq(B, 1, k - Len(A))[i] = B[i]
        BY <1>2, <1>3, <3>1
      <4>4. Q \in Seq(X) /\ Len(Q) = k
            /\ \A i \in 1 .. k : Q[i] = IF i <= Len(A) THEN A[i] ELSE B[i - Len(A)]
        BY <1>2, <1>3, <4>3, <3>1
      <4> HIDE DEF P, Q
      <4>5. P = Q
        BY <4>1, <4>2, <4>4, <1>3, <3>1, SeqEqual, SMTT(30)
      <4> QED BY <4>5 DEF P, Q, C
    <3>3. IsSeq(SubSeq(B, 1, k - Len(A)))
      BY <1>1, <3>1, SeqFacts
    <3>4. After(d, SubSeq(A \o B, 1, k)) = After(e, SubSeq(B, 1, k - Len(A)))
      <4>1. After(d, A) = e
        BY DEF Leads
      <4> DEFINE Q == SubSeq(B, 1, k - Len(A))
      <4>2. IsSeq(Q)
        BY <3>3
      <4> HIDE DEF Q
      <4>3. After(d, A \o Q) = After(After(d, A), Q)
        BY <1>1, <4>2, AfterBoth
      <4> QED BY <3>2, <4>1, <4>3 DEF Q
    <3> QED BY <3>1, <3>4 DEF Leads
  <2> QED BY <1>3, <2>1, <2>2
<1> QED BY <1>1, <1>4 DEF Leads

\* Operations written one by one, or as one sequence.
LEMMA Joined ==
  ASSUME NEW a, NEW b, NEW c
  PROVE  <<a>> \o <<b>> = <<a, b>> /\ <<a, b>> \o <<c>> = <<a, b, c>>
<1> DEFINE X == {a, b, c}
<1>1. <<a>> \in Seq(X) /\ <<b>> \in Seq(X) /\ <<c>> \in Seq(X) /\ <<a, b>> \in Seq(X)
      /\ <<a, b, c>> \in Seq(X)
  OBVIOUS
<1> HIDE DEF X
<1>2. <<a>> \o <<b>> = <<a, b>>
  <2>1. <<a>> \o <<b>> \in Seq(X) /\ Len(<<a>> \o <<b>>) = 2
        /\ \A i \in 1 .. 2 : (<<a>> \o <<b>>)[i] = <<a, b>>[i]
    BY <1>1, ConcatProperties
  <2> QED BY <1>1, <2>1, SeqEqual
<1>3. <<a, b>> \o <<c>> = <<a, b, c>>
  <2>1. <<a, b>> \o <<c>> \in Seq(X) /\ Len(<<a, b>> \o <<c>>) = 3
        /\ \A i \in 1 .. 3 : (<<a, b>> \o <<c>>)[i] = <<a, b, c>>[i]
    BY <1>1, ConcatProperties
  <2> QED BY <1>1, <2>1, SeqEqual
<1> QED BY <1>2, <1>3

\* The way may be described more loosely.
LEMMA LeadsWider ==
  ASSUME NEW S, NEW T, S \subseteq T, NEW d, NEW ops, NEW f, Leads(S, d, ops, f)
  PROVE  Leads(T, d, ops, f)
BY DEF Leads

\* Where operations lead is where they end.
LEMMA LeadsEnds ==
  ASSUME NEW S, NEW d, NEW ops, NEW f, Leads(S, d, ops, f)
  PROVE  f \in S /\ After(d, ops) = f /\ IsSeq(ops)
<1>1. IsSeq(ops) /\ After(d, ops) = f
  BY DEF Leads
<1>2. Len(ops) \in 0 .. Len(ops) /\ SubSeq(ops, 1, Len(ops)) = ops
  BY <1>1, SeqFacts
<1> QED BY <1>1, <1>2 DEF Leads

\* A directory has its eleven entries.
LEMMA Entries ==
  ASSUME NEW d \in Disk
  PROVE  /\ IsDirectory(d)
         /\ DOMAIN d = {"source", "input", "record", "plans", "work", "current", "released",
                        "history", "projection", "batch", "data"}
BY DiskIs DEF IsDirectory

\* The write of one entry, for each of them.
LEMMA Writes ==
  ASSUME NEW S \in SUBSET Disk, NEW d \in S, NEW v
  PROVE  /\ [d EXCEPT !.source = v] \in S =>
              Leads(S, d, <<[source |-> v]>>, [d EXCEPT !.source = v])
         /\ [d EXCEPT !.input = v] \in S =>
              Leads(S, d, <<[input |-> v]>>, [d EXCEPT !.input = v])
         /\ [d EXCEPT !.record = v] \in S =>
              Leads(S, d, <<[record |-> v]>>, [d EXCEPT !.record = v])
         /\ [d EXCEPT !.plans = v] \in S =>
              Leads(S, d, <<[plans |-> v]>>, [d EXCEPT !.plans = v])
         /\ [d EXCEPT !.work = v] \in S =>
              Leads(S, d, <<[work |-> v]>>, [d EXCEPT !.work = v])
         /\ [d EXCEPT !.current = v] \in S =>
              Leads(S, d, <<[current |-> v]>>, [d EXCEPT !.current = v])
         /\ [d EXCEPT !.projection = v] \in S =>
              Leads(S, d, <<[projection |-> v]>>, [d EXCEPT !.projection = v])
         /\ [d EXCEPT !.batch = v] \in S =>
              Leads(S, d, <<[batch |-> v]>>, [d EXCEPT !.batch = v])
         /\ [d EXCEPT !.data = v] \in S =>
              Leads(S, d, <<[data |-> v]>>, [d EXCEPT !.data = v])
         /\ [d EXCEPT !.released = v] \in S =>
              Leads(S, d, <<[released |-> v]>>, [d EXCEPT !.released = v])
<1>0. d \in Disk /\ IsDirectory(d) /\ DOMAIN d = {"source", "input", "record", "plans", "work", "current", "released",
                        "history", "projection", "batch", "data"}
  BY Entries
<1>1. ASSUME [d EXCEPT !.source = v] \in S
      PROVE  Leads(S, d, <<[source |-> v]>>, [d EXCEPT !.source = v])
  <2>1. [d EXCEPT !.source = v]
          = [entry \in DOMAIN d |-> IF entry \in DOMAIN [source |-> v] THEN [source |-> v][entry] ELSE d[entry]]
    BY <1>0
  <2> QED BY <1>0, <1>1, <2>1, LeadsOne
<1>2. ASSUME [d EXCEPT !.input = v] \in S
      PROVE  Leads(S, d, <<[input |-> v]>>, [d EXCEPT !.input = v])
  <2>1. [d EXCEPT !.input = v]
          = [entry \in DOMAIN d |-> IF entry \in DOMAIN [input |-> v] THEN [input |-> v][entry] ELSE d[entry]]
    BY <1>0
  <2> QED BY <1>0, <1>2, <2>1, LeadsOne
<1>3. ASSUME [d EXCEPT !.record = v] \in S
      PROVE  Leads(S, d, <<[record |-> v]>>, [d EXCEPT !.record = v])
  <2>1. [d EXCEPT !.record = v]
          = [entry \in DOMAIN d |-> IF entry \in DOMAIN [record |-> v] THEN [record |-> v][entry] ELSE d[entry]]
    BY <1>0
  <2> QED BY <1>0, <1>3, <2>1, LeadsOne
<1>4. ASSUME [d EXCEPT !.plans = v] \in S
      PROVE  Leads(S, d, <<[plans |-> v]>>, [d EXCEPT !.plans = v])
  <2>1. [d EXCEPT !.plans = v]
          = [entry \in DOMAIN d |-> IF entry \in DOMAIN [plans |-> v] THEN [plans |-> v][entry] ELSE d[entry]]
    BY <1>0
  <2> QED BY <1>0, <1>4, <2>1, LeadsOne
<1>5. ASSUME [d EXCEPT !.work = v] \in S
      PROVE  Leads(S, d, <<[work |-> v]>>, [d EXCEPT !.work = v])
  <2>1. [d EXCEPT !.work = v]
          = [entry \in DOMAIN d |-> IF entry \in DOMAIN [work |-> v] THEN [work |-> v][entry] ELSE d[entry]]
    BY <1>0
  <2> QED BY <1>0, <1>5, <2>1, LeadsOne
<1>6. ASSUME [d EXCEPT !.current = v] \in S
      PROVE  Leads(S, d, <<[current |-> v]>>, [d EXCEPT !.current = v])
  <2>1. [d EXCEPT !.current = v]
          = [entry \in DOMAIN d |-> IF entry \in DOMAIN [current |-> v] THEN [current |-> v][entry] ELSE d[entry]]
    BY <1>0
  <2> QED BY <1>0, <1>6, <2>1, LeadsOne
<1>7. ASSUME [d EXCEPT !.projection = v] \in S
      PROVE  Leads(S, d, <<[projection |-> v]>>, [d EXCEPT !.projection = v])
  <2>1. [d EXCEPT !.projection = v]
          = [entry \in DOMAIN d |-> IF entry \in DOMAIN [projection |-> v] THEN [projection |-> v][entry] ELSE d[entry]]
    BY <1>0
  <2> QED BY <1>0, <1>7, <2>1, LeadsOne
<1>8. ASSUME [d EXCEPT !.batch = v] \in S
      PROVE  Leads(S, d, <<[batch |-> v]>>, [d EXCEPT !.batch = v])
  <2>1. [d EXCEPT !.batch = v]
          = [entry \in DOMAIN d |-> IF entry \in DOMAIN [batch |-> v] THEN [batch |-> v][entry] ELSE d[entry]]
    BY <1>0
  <2> QED BY <1>0, <1>8, <2>1, LeadsOne
<1>9. ASSUME [d EXCEPT !.data = v] \in S
      PROVE  Leads(S, d, <<[data |-> v]>>, [d EXCEPT !.data = v])
  <2>1. [d EXCEPT !.data = v]
          = [entry \in DOMAIN d |-> IF entry \in DOMAIN [data |-> v] THEN [data |-> v][entry] ELSE d[entry]]
    BY <1>0
  <2> QED BY <1>0, <1>9, <2>1, LeadsOne
<1>10. ASSUME [d EXCEPT !.released = v] \in S
      PROVE  Leads(S, d, <<[released |-> v]>>, [d EXCEPT !.released = v])
  <2>1. [d EXCEPT !.released = v]
          = [entry \in DOMAIN d |-> IF entry \in DOMAIN [released |-> v] THEN [released |-> v][entry] ELSE d[entry]]
    BY <1>0
  <2> QED BY <1>0, <1>10, <2>1, LeadsOne
<1> QED BY <1>1, <1>2, <1>3, <1>4, <1>5, <1>6, <1>7, <1>8, <1>9, <1>10

-----------------------------------------------------------------------------
(* The methods of ProjectStorage, one after the other: where they lead, and by way of what *)

\* _set_code_projection
Projections == {"none", "working", "release"}
Projecting(d) == {[d EXCEPT !.projection = p] : p \in Projections}

\* The link is removed and made again, and nothing else happens.
LEMMA ProjectedLeads ==
  ASSUME NEW d \in Disk, NEW to \in {"working", "release"}
  PROVE  Leads(Projecting(d), d, Projected(d, to), [d EXCEPT !.projection = to])
<1> DEFINE S == Projecting(d)
<1>1. S \in SUBSET Disk /\ d \in S /\ \A p \in Projections : [d EXCEPT !.projection = p] \in S
  <2>1. \A p \in Projections : [d EXCEPT !.projection = p] \in Disk
    BY DiskIs DEF Projections
  <2>2. d.projection \in Projections /\ d = [d EXCEPT !.projection = d.projection]
    BY DiskIs DEF Projections
  <2> QED BY <2>1, <2>2 DEF Projecting
<1>2. IsDirectory(d) /\ "none" \in Projections /\ to \in Projections
  BY Entries DEF Projections
<1> HIDE DEF S
<1>3. CASE d.projection = to
  <2>1. [d EXCEPT !.projection = to] = d
    BY <1>3, DiskIs
  <2> QED BY <1>1, <1>2, <1>3, <2>1, LeadsNowhere DEF Projected, S
<1>4. CASE d.projection # to
  <2> DEFINE e == [d EXCEPT !.projection = "none"]
             f == [d EXCEPT !.projection = to]
  <2>1. e \in S /\ f \in S /\ [e EXCEPT !.projection = to] = f
    BY <1>1, <1>2, DiskIs
  <2>2. Leads(S, d, <<[projection |-> "none"]>>, e)
    BY <1>1, <2>1, Writes
  <2> HIDE DEF e, f
  <2>3. Leads(S, e, <<[projection |-> to]>>, f)
    BY <1>1, <2>1, Writes
  <2>4. Leads(S, d, <<[projection |-> "none"]>> \o <<[projection |-> to]>>, f)
    BY <2>2, <2>3, LeadsOn
  <2>5. <<[projection |-> "none"]>> \o <<[projection |-> to]>> = Projected(d, to)
    BY <1>4, Joined DEF Projected
  <2> QED BY <2>4, <2>5 DEF S, f
<1> QED BY <1>3, <1>4

\* e is d but for its working directories and the two links.
OnlyCode(d, e) ==
  e = [d EXCEPT !.work = e.work, !.current = e.current, !.projection = e.projection]

\* The directory that save_code_draft writes, and the works it leaves on its way.
New(d) == CHOOSE n \in Dirs : d.work[n] = None
Works1(d, draft, whole) == [d.work EXCEPT ![New(d)] = [draft |-> draft, whole |-> whole]]
WorksLeft(d, draft) ==
  IF d.current = None THEN Works1(d, draft, TRUE)
  ELSE [Works1(d, draft, TRUE) EXCEPT ![d.current] = None]

Saving(d, draft) ==
  {e \in Disk :
     /\ OnlyCode(d, e)
     /\ \/ e.current = d.current
           /\ e.work \in {d.work, Works1(d, draft, FALSE), Works1(d, draft, TRUE)}
        \/ e.current = New(d) /\ e.work \in {Works1(d, draft, TRUE), WorksLeft(d, draft)}}

CodeSavedTo(d, draft) ==
  [d EXCEPT !.work = WorksLeft(d, draft), !.current = New(d), !.projection = "working"]

\* A free directory is found when there is one.
LEMMA NewFree ==
  ASSUME NEW d \in Disk, \E n \in Dirs : d.work[n] = None
  PROVE  New(d) \in Dirs /\ d.work[New(d)] = None
BY DEF New

\* The working directories stay of their type.
LEMMA SavingType ==
  ASSUME NEW d \in Disk, \E n \in Dirs : d.work[n] = None, NEW draft \in W!Draft
  PROVE  /\ Works1(d, draft, FALSE) \in Works /\ Works1(d, draft, TRUE) \in Works
         /\ WorksLeft(d, draft) \in Works /\ New(d) \in Dirs
<1>1. New(d) \in Dirs /\ d.work \in Works
  BY NewFree, DiskIs
<1>2. Works1(d, draft, FALSE) \in Works /\ Works1(d, draft, TRUE) \in Works
  BY <1>1 DEF Works, Works1
<1>3. WorksLeft(d, draft) \in Works
  BY <1>2 DEF WorksLeft, Works
<1> QED BY <1>1, <1>2, <1>3

\* save_code_draft leads to the new draft by its five kinds of directory.
LEMMA CodeSavedLeads ==
  ASSUME NEW d \in Disk, \E n \in Dirs : d.work[n] = None, NEW draft \in W!Draft
  PROVE  Leads(Saving(d, draft), d, CodeSaved(d, draft), CodeSavedTo(d, draft))
<1> DEFINE S == Saving(d, draft)
           w1 == Works1(d, draft, FALSE)
           w2 == Works1(d, draft, TRUE)
           w3 == WorksLeft(d, draft)
           n == New(d)
           d1 == [d EXCEPT !.work = w1]
           d2 == [d1 EXCEPT !.work = w2]
           d3 == [d2 EXCEPT !.current = n]
           d4 == [d3 EXCEPT !.projection = "working"]
           d5 == [d4 EXCEPT !.work = w3]
<1>1. w1 \in Works /\ w2 \in Works /\ w3 \in Works /\ n \in Dirs
  BY SavingType
<1> HIDE DEF w1, w2, w3, n
<1>2. /\ d1 \in Disk /\ d2 \in Disk /\ d3 \in Disk /\ d4 \in Disk /\ d5 \in Disk
      /\ \A p \in Projections : [d3 EXCEPT !.projection = p] \in Disk
  BY <1>1, DiskIs DEF Projections
<1>3. /\ d \in S /\ d1 \in S /\ d2 \in S /\ d3 \in S /\ d4 \in S /\ d5 \in S
      /\ \A p \in Projections : [d3 EXCEPT !.projection = p] \in S
  <2>1. OnlyCode(d, d) /\ OnlyCode(d, d1) /\ OnlyCode(d, d2)
    BY <1>1, DiskIs DEF OnlyCode
  <2>2. OnlyCode(d, d3) /\ OnlyCode(d, d4) /\ OnlyCode(d, d5)
    BY <1>1, DiskIs DEF OnlyCode
  <2>3. \A p \in Projections : OnlyCode(d, [d3 EXCEPT !.projection = p])
    BY <1>1, DiskIs DEF OnlyCode, Projections
  <2>4. /\ d1.current = d.current /\ d1.work = w1 /\ d2.current = d.current /\ d2.work = w2
        /\ d3.current = n /\ d3.work = w2 /\ d4.current = n /\ d4.work = w2
        /\ d5.current = n /\ d5.work = w3
        /\ \A p \in Projections : [d3 EXCEPT !.projection = p].current = n
                                 /\ [d3 EXCEPT !.projection = p].work = w2
    BY DiskIs
  <2> HIDE DEF d1, d2, d3, d4, d5
  <2> QED BY <1>2, <2>1, <2>2, <2>3, <2>4 DEF Saving, w1, w2, w3, n
<1>4. Leads(S, d, <<[work |-> w1]>>, d1)
  BY <1>3, Writes DEF Saving
<1>5. Leads(S, d1, <<[work |-> w2]>>, d2)
  BY <1>3, Writes DEF Saving
<1>6. Leads(S, d2, <<[current |-> n]>>, d3)
  BY <1>3, Writes DEF Saving
<1>7. Leads(S, d3, Projected(d, "working"), d4)
  <2>1. Leads(Projecting(d3), d3, Projected(d3, "working"), d4)
    BY <1>2, ProjectedLeads
  <2>2. Projected(d3, "working") = Projected(d, "working")
    BY DiskIs DEF Projected
  <2>3. Projecting(d3) \subseteq S
    BY <1>3 DEF Projecting
  <2> HIDE DEF S, d3, d4
  <2> QED BY <2>1, <2>2, <2>3, LeadsWider
<1> DEFINE rest == IF d.current = None THEN <<>> ELSE <<[work |-> [w2 EXCEPT ![d.current] = None]]>>
<1>8. Leads(S, d4, rest, CodeSavedTo(d, draft))
  <2>1. CASE d.current = None
    <3>1. CodeSavedTo(d, draft) = d4
      BY <2>1, DiskIs DEF CodeSavedTo, WorksLeft, w2, n
    <3>2. rest = <<>> /\ IsDirectory(d4)
      BY <1>2, <2>1, Entries
    <3> HIDE DEF S, d4, rest
    <3> QED BY <1>3, <3>1, <3>2, LeadsNowhere
  <2>2. CASE d.current # None
    <3>1. w3 = [w2 EXCEPT ![d.current] = None]
      BY <2>2 DEF WorksLeft, w2, w3
    <3>2. CodeSavedTo(d, draft) = d5
      BY <2>2, DiskIs DEF CodeSavedTo, w3, n
    <3>3. Leads(S, d4, <<[work |-> w3]>>, d5)
      BY <1>3, Writes DEF Saving
    <3> QED BY <2>2, <3>1, <3>2, <3>3
  <2> QED BY <2>1, <2>2
<1>9. CodeSaved(d, draft) =
        (<<[work |-> w1], [work |-> w2], [current |-> n]>> \o Projected(d, "working")) \o rest
  BY DEF CodeSaved, w1, w2, n, Works1, New
<1> HIDE DEF S, d1, d2, d3, d4, d5, rest
<1>10. Leads(S, d, <<[work |-> w1], [work |-> w2], [current |-> n]>>, d3)
  <2>1. Leads(S, d, <<[work |-> w1]>> \o <<[work |-> w2]>>, d2)
    BY <1>4, <1>5, LeadsOn
  <2>2. Leads(S, d, <<[work |-> w1], [work |-> w2]>>, d2)
    BY <2>1, Joined
  <2>3. Leads(S, d, <<[work |-> w1], [work |-> w2]>> \o <<[current |-> n]>>, d3)
    BY <1>6, <2>2, LeadsOn
  <2> QED BY <2>3, Joined
<1>11. Leads(S, d, CodeSaved(d, draft), CodeSavedTo(d, draft))
  BY <1>7, <1>8, <1>9, <1>10, LeadsOn
<1> QED BY <1>11 DEF S

\* The operations on the files of data change nothing else.
Handling(d) == {[d EXCEPT !.data = x] : x \in DataSets}

\* Whatever is in data, it is a directory.
LEMMA HandlingType ==
  ASSUME NEW d \in Disk
  PROVE  /\ Handling(d) \in SUBSET Disk /\ d \in Handling(d) /\ d.data \in DataSets
         /\ NoData \in DataSets
<1>1. d.data \in DataSets /\ NoData \in DataSets
  BY DiskIs DEF DataSets, NoData
<1>2. \A x \in DataSets : [d EXCEPT !.data = x] \in Disk
  BY DiskIs
<1>3. d = [d EXCEPT !.data = d.data]
  BY DiskIs
<1> QED BY <1>1, <1>2, <1>3 DEF Handling

\* The files of data written one after the other end as the last write left them.
LEMMA DataWrites ==
  ASSUME NEW d \in Disk, NEW n \in Nat, NEW X \in [1 .. n -> DataSets]
  PROVE  Leads(Handling(d), d, [i \in 1 .. n |-> [data |-> X[i]]],
               IF n = 0 THEN d ELSE [d EXCEPT !.data = X[n]])
<1> DEFINE ops == [i \in 1 .. n |-> [data |-> X[i]]]
<1>1. ops \in Seq({[data |-> X[i]] : i \in 1 .. n}) /\ Len(ops) = n
  OBVIOUS
<1>2. IsSeq(ops)
  BY <1>1, SeqOfItsOwn
<1>3. "data" \in DOMAIN d /\ IsDirectory(d) /\ DOMAIN d = {"source", "input", "record", "plans", "work", "current", "released",
                        "history", "projection", "batch", "data"}
  BY Entries
<1>4. ASSUME NEW k \in 0 .. n
      PROVE  After(d, SubSeq(ops, 1, k)) = IF k = 0 THEN d ELSE [d EXCEPT !.data = X[k]]
  <2> DEFINE q == SubSeq(ops, 1, k)
  <2>1. q = [i \in 1 .. k |-> [data |-> X[i]]]
    BY <1>1
  <2>2. CASE k = 0
    <3>1. q = <<>>
      BY <1>2, <2>2, SeqFacts
    <3> QED BY <1>3, <2>2, <3>1, AfterNone
  <2>3. CASE k # 0
    <3> HIDE DEF q
    <3>1. DOMAIN q = 1 .. k /\ \A i \in 1 .. k : DOMAIN q[i] = {"data"} /\ q[i]["data"] = X[i]
      BY <2>1
    <3>2. ASSUME NEW entry \in DOMAIN d
          PROVE  (LET writes == {i \in DOMAIN q : entry \in DOMAIN q[i]}
                  IN  IF writes = {} THEN d[entry] ELSE q[Max(writes)][entry])
                 = IF entry = "data" THEN X[k] ELSE d[entry]
      <4> DEFINE writes == {i \in DOMAIN q : entry \in DOMAIN q[i]}
      <4>1. CASE entry = "data"
        <5>1. writes = 1 .. k /\ k \in 1 .. k
          BY <2>3, <3>1, <4>1
        <5> HIDE DEF writes
        <5>2. Max(writes) \in writes /\ \A m \in writes : m <= Max(writes)
          <6>1. k \in Nat /\ writes \in SUBSET (1 .. k) /\ writes # {}
            BY <5>1
          <6> QED BY <6>1, Greatest
        <5>3. Max(writes) = k
          BY <5>1, <5>2
        <5>4. writes # {} /\ q[Max(writes)][entry] = X[k]
          BY <3>1, <4>1, <5>1, <5>3
        <5> QED BY <4>1, <5>4 DEF writes
      <4>2. CASE entry # "data"
        BY <3>1, <4>2
      <4> QED BY <4>1, <4>2
    <3>3. After(d, q) = [entry \in DOMAIN d |-> IF entry = "data" THEN X[k] ELSE d[entry]]
      BY <3>2 DEF After
    <3>4. [d EXCEPT !.data = X[k]]
            = [entry \in DOMAIN d |-> IF entry = "data" THEN X[k] ELSE d[entry]]
      BY <1>3, <2>3
    <3> QED BY <2>3, <3>3, <3>4 DEF q
  <2> QED BY <2>2, <2>3
<1> HIDE DEF ops
<1>5. \A k \in 0 .. Len(ops) : After(d, SubSeq(ops, 1, k)) \in Handling(d)
  <2>1. \A k \in 0 .. n : k # 0 => X[k] \in DataSets
    OBVIOUS
  <2>2. ASSUME NEW k \in 0 .. Len(ops) PROVE After(d, SubSeq(ops, 1, k)) \in Handling(d)
    <3>1. k \in 0 .. n
      BY <1>1
    <3>2. CASE k = 0
      BY <1>4, <3>1, <3>2, HandlingType
    <3>3. CASE k # 0
      BY <1>4, <2>1, <3>1, <3>3 DEF Handling
    <3> QED BY <3>2, <3>3
  <2> QED BY <2>2
<1>6. After(d, ops) = IF n = 0 THEN d ELSE [d EXCEPT !.data = X[n]]
  <2>1. n \in 0 .. n /\ SubSeq(ops, 1, n) = ops
    BY <1>1, <1>2, SeqFacts
  <2> QED BY <1>4, <2>1
<1> QED BY <1>2, <1>5, <1>6 DEF Leads, ops

\* The files of a finite set, in some order.
LEMMA Ordering ==
  ASSUME NEW T, IsFiniteSet(T)
  PROVE  /\ Cardinality(T) \in Nat /\ SetToSeq(T) \in [1 .. Cardinality(T) -> T]
         /\ Len(SetToSeq(T)) = Cardinality(T) /\ Range(SetToSeq(T)) = T
         /\ SetToSeq(T) \in Seq(T)
         /\ Cardinality(T) = 0 <=> T = {}
<1> DEFINE n == Cardinality(T)
           q == SetToSeq(T)
<1>1. n \in Nat /\ ExistsBijection(1 .. n, T)
  BY FS_CardinalityType
<1>2. PICK b \in Bijection(1 .. n, T) : TRUE
  BY <1>1 DEF ExistsBijection
<1>3. b \in [1 .. n -> T] /\ IsInjective(b)
  BY <1>2 DEF Bijection, Injection, IsInjective
<1>4. q \in [1 .. n -> T] /\ IsInjective(q)
  BY <1>3 DEF SetToSeq
<1> HIDE DEF q
<1>5. q \in Injection(1 .. n, T)
  BY <1>4 DEF Injection, IsInjective
<1>6. IsFiniteSet(1 .. n) /\ Cardinality(1 .. n) = n
  BY <1>1, FS_Interval
<1>7. q \in Surjection(1 .. n, T)
  BY <1>5, <1>6, FS_Injection
<1>8. Range(q) = T
  BY <1>4, <1>7 DEF Surjection, Range
<1>9. q \in Seq(T) /\ Len(q) = n
  BY <1>1, <1>4, SeqDef
<1>10. n = 0 <=> T = {}
  BY FS_EmptySet
<1> QED BY <1>1, <1>4, <1>8, <1>9, <1>10 DEF q

\* What clear_directory leaves.
DataCleared0(d) == IF d.data.tests = {} THEN d ELSE [d EXCEPT !.data = NoData]

\* clear_directory empties data, whatever the order.
LEMMA DataClearedLeads ==
  ASSUME NEW d \in Disk
  PROVE  Leads(Handling(d), d, DataCleared(d), DataCleared0(d))
<1> DEFINE T == d.data.tests
           gone == SetToSeq(T)
           n == Cardinality(T)
           X == [i \in 1 .. n |-> IF i = n THEN NoData
                   ELSE [d.data EXCEPT !.tests = @ \ Range(SubSeq(gone, 1, i))]]
<1>1. IsFiniteSet(T)
  BY DiskIs, StoreAssumption, FS_Subset DEF DataSets
<1>2. n \in Nat /\ Len(gone) = n /\ DOMAIN gone = 1 .. n /\ (n = 0 <=> T = {})
  BY <1>1, Ordering
<1>3. X \in [1 .. n -> DataSets]
  <2>1. ASSUME NEW i \in 1 .. n
        PROVE  [d.data EXCEPT !.tests = @ \ Range(SubSeq(gone, 1, i))] \in DataSets
    BY HandlingType DEF DataSets
  <2>2. NoData \in DataSets
    BY HandlingType
  <2> QED BY <2>1, <2>2
<1>4. DataCleared(d) = [i \in 1 .. n |-> [data |-> X[i]]]
  BY <1>2 DEF DataCleared
<1>5. n # 0 => X[n] = NoData
  BY <1>2
<1> HIDE DEF X, n
<1>6. Leads(Handling(d), d, DataCleared(d), IF n = 0 THEN d ELSE [d EXCEPT !.data = X[n]])
  BY <1>2, <1>3, <1>4, DataWrites
<1> QED BY <1>2, <1>5, <1>6 DEF DataCleared0

\* What is gone, what is left, and where the link leads then.
Nothing == [n \in Dirs |-> None]
PlansUpTo(d, s) ==
  IF s >= 4 THEN d.plans ELSE [t \in 3..4 |-> IF t > s THEN None ELSE d.plans[t]]
\* The plans before stage s, and with the first of them gone.
PlansBefore(d, s) ==
  IF s >= 5 THEN d.plans ELSE [t \in 3..4 |-> IF t >= s THEN None ELSE d.plans[t]]
OneGone(d) == [t \in 3..4 |-> IF t = 3 THEN None ELSE d.plans[t]]
Emptied(d) == IF d.released.parts = {} THEN d.released ELSE NoRelease
Place(d) == IF Release(d) # None THEN "release" ELSE "working"

\* What invalidate_downstream_artifacts leaves, and what it goes through.
CutTo(d, s) ==
  IF s = 5 THEN d
  ELSE [d EXCEPT !.plans = PlansUpTo(d, s), !.current = None, !.work = Nothing, !.released = Emptied(d)]
InvalidatedTo(d, s) ==
  DataCleared0([CutTo(d, s) EXCEPT !.projection = Place(CutTo(d, s)), !.batch = None])

Losing(d, s) ==
  {e \in Disk :
     /\ e.source = d.source /\ e.input = d.input /\ e.record = d.record /\ e.history = d.history
     /\ e.plans \in {d.plans, PlansUpTo(d, s)} \/ (s = 2 /\ e.plans = OneGone(d))
     /\ \/ e.current = d.current /\ e.work = d.work
        \/ s # 5 /\ e.current = None /\ (e.work = d.work \/ e.work = Nothing)
     /\ \/ e.released = d.released
        \/ /\ s # 5 /\ e.plans = PlansUpTo(d, s)
           /\ \/ e.released = NoRelease
              \/ \E first \in Sides : e.released = [d.released EXCEPT !.parts = @ \ {first}]
     /\ \/ e.batch = d.batch
        \/ e.batch = None /\ e.plans = PlansUpTo(d, s) /\ (s # 5 => e.released = Emptied(d) /\ e.current = None)
     /\ e.data = d.data \/ e.batch = None}

\* The plans go one after the other.
LEMMA PlansLeads ==
  ASSUME NEW d \in Disk, NEW s \in 3..6, NEW S \in SUBSET Disk, d \in S,
         s = 3 => [d EXCEPT !.plans = OneGone(d)] \in S,
         [d EXCEPT !.plans = PlansBefore(d, s)] \in S
  PROVE  Leads(S, d, PlansRemoved(d, s), [d EXCEPT !.plans = PlansBefore(d, s)])
<1> DEFINE one == OneGone(d)
           left == PlansBefore(d, s)
           first == IF s <= 3 THEN <<[plans |-> one]>> ELSE <<>>
           second == IF s <= 4 THEN <<[plans |-> left]>> ELSE <<>>
           d1 == IF s = 3 THEN [d EXCEPT !.plans = one] ELSE d
           d2 == [d EXCEPT !.plans = left]
<1>1. PlansRemoved(d, s) = first \o second
  <2>1. OneGone(d) = [t \in 3..4 |-> IF t \in {3} THEN None ELSE d.plans[t]]
    BY DEF OneGone
  <2>2. s <= 4 => left = [t \in 3..4 |-> IF t \in {u \in 3..4 : u >= s} THEN None ELSE d.plans[t]]
    BY DEF PlansBefore
  <2> HIDE DEF one, left
  <2> QED BY <2>1, <2>2 DEF PlansRemoved, one
<1>2. d1 \in S /\ d2 \in S /\ IsDirectory(d) /\ (s >= 5 => d2 = d) /\ (s # 3 => d1 = d)
  <2>1. s >= 5 => left = d.plans
    BY DEF PlansBefore
  <2> QED BY <2>1, Entries, DiskIs
<1>3. d1 \in Disk /\ d2 = [d1 EXCEPT !.plans = left] /\ (s >= 5 => d2 = d1)
  BY <1>2, DiskIs
<1> HIDE DEF one, left
<1>4. Leads(S, d, first, d1)
  <2>1. CASE s = 3
    <3>1. first = <<[plans |-> one]>> /\ d1 = [d EXCEPT !.plans = one]
      BY <2>1
    <3> HIDE DEF first, d1
    <3> QED BY <1>2, <3>1, Writes
  <2>2. CASE s # 3
    <3>1. first = <<>> /\ d1 = d
      BY <2>2
    <3> HIDE DEF first, d1
    <3> QED BY <1>2, <3>1, LeadsNowhere
  <2> QED BY <2>1, <2>2
<1>5. Leads(S, d1, second, d2)
  <2>1. CASE s <= 4
    <3>1. second = <<[plans |-> left]>>
      BY <2>1
    <3> HIDE DEF second, d1, d2
    <3> QED BY <1>2, <1>3, <3>1, Writes
  <2>2. CASE ~ (s <= 4)
    <3>1. second = <<>> /\ d2 = d1 /\ IsDirectory(d1)
      BY <1>2, <1>3, <2>2
    <3> HIDE DEF second, d1, d2
    <3> QED BY <1>2, <3>1, LeadsNowhere
  <2> QED BY <2>1, <2>2
<1> HIDE DEF first, second, d1, d2
<1>6. Leads(S, d, PlansRemoved(d, s), d2)
  BY <1>1, <1>4, <1>5, LeadsOn
<1> QED BY <1>6 DEF d2, left

\* What is left has its type.
LEMMA LosingType ==
  ASSUME NEW d \in Disk, NEW s \in 2..5
  PROVE  /\ PlansUpTo(d, s) \in Plans /\ OneGone(d) \in Plans /\ PlansUpTo(d, s) = PlansBefore(d, s + 1)
         /\ Nothing \in Works /\ Emptied(d) \in Releases
         /\ \A first \in Sides : [d.released EXCEPT !.parts = @ \ {first}] \in Releases
         /\ (s >= 4 => PlansUpTo(d, s) = d.plans)
<1>1. d.plans \in Plans /\ d.released \in Releases
  BY DiskIs
<1>2. PlansUpTo(d, s) \in Plans /\ OneGone(d) \in Plans
  BY <1>1 DEF Plans, PlansUpTo, OneGone
<1>6. PlansUpTo(d, s) = PlansBefore(d, s + 1)
  BY DEF PlansUpTo, PlansBefore
<1>3. Nothing \in Works
  BY DEF Works, Nothing
<1>4. Emptied(d) \in Releases
  BY <1>1 DEF Emptied, Releases
<1>5. ASSUME NEW first \in Sides PROVE [d.released EXCEPT !.parts = @ \ {first}] \in Releases
  BY <1>1 DEF Releases, NoRelease
<1> QED BY <1>2, <1>3, <1>4, <1>5, <1>6 DEF PlansUpTo

\* The drafts, the templates and the release go first.
LEMMA CutLeads ==
  ASSUME NEW d \in Disk, NEW s \in 2..5, NEW first \in Sides
  PROVE  /\ CutTo(d, s) \in Disk
         /\ Leads(Losing(d, s), d,
              PlansRemoved(d, s + 1) \o (IF s = 5 THEN <<>> ELSE Discarded(d) \o ReleaseRemoved(d, first)),
              CutTo(d, s))
<1> DEFINE S == Losing(d, s)
           up == PlansUpTo(d, s)
           torn == [d.released EXCEPT !.parts = @ \ {first}]
           d0 == [d EXCEPT !.plans = OneGone(d)]
           d1 == [d EXCEPT !.plans = up]
           d2 == [d1 EXCEPT !.current = None]
           d3 == [d2 EXCEPT !.work = Nothing]
           d4 == [d3 EXCEPT !.released = torn]
           d5 == [d3 EXCEPT !.released = NoRelease]
           c == CutTo(d, s)
<1>1. /\ up \in Plans /\ OneGone(d) \in Plans /\ up = PlansBefore(d, s + 1) /\ Nothing \in Works /\ torn \in Releases /\ NoRelease \in Releases
      /\ Emptied(d) \in Releases /\ (s >= 4 => up = d.plans)
  BY LosingType DEF Releases
<1>2. S \in SUBSET Disk
  BY DEF Losing
<1> HIDE DEF up
<1>3. /\ d \in S /\ d1 \in S /\ (s # 5 => d2 \in S /\ d3 \in S) /\ (s = 2 => d0 \in S)
      /\ IsDirectory(d) /\ IsDirectory(d1) /\ IsDirectory(d3)
  <2>1. d0 \in Disk /\ d1 \in Disk /\ d2 \in Disk /\ d3 \in Disk
    BY <1>1, DiskIs
  <2>3. s = 2 => d0 \in S
    BY <1>1, <2>1, DiskIs DEF Losing
  <2>2. d \in S /\ d1 \in S /\ (s # 5 => d2 \in S /\ d3 \in S)
    BY <1>1, <2>1, DiskIs DEF Losing, up
  <2> QED BY <2>1, <2>2, <2>3, Entries
<1>4. s # 5 => d4 \in S /\ (d.released.parts # {} => d5 \in S)
  <2>1. d4 \in Disk /\ d5 \in Disk
    BY <1>1, DiskIs
  <2>2. s # 5 => d4 \in S
    BY <1>1, <2>1, DiskIs DEF Losing, up
  <2>3. s # 5 => d5 \in S
    BY <1>1, <2>1, DiskIs DEF Losing, up
  <2> QED BY <2>2, <2>3
<1>5. Leads(S, d, PlansRemoved(d, s + 1), d1)
  <2>1. s + 1 \in 3..6 /\ (s + 1 = 3 => d0 \in S) /\ d1 = [d EXCEPT !.plans = PlansBefore(d, s + 1)]
    BY <1>1, <1>3
  <2> HIDE DEF S
  <2> QED BY <1>2, <1>3, <2>1, PlansLeads
<1>6. ASSUME s # 5 PROVE Leads(S, d1, Discarded(d), d3)
  <2>1. Leads(S, d1, <<[current |-> None]>>, d2)
    <3> HIDE DEF S, d1
    <3> QED BY <1>2, <1>3, <1>6, Writes
  <2>2. Leads(S, d2, <<[work |-> Nothing]>>, d3)
    <3> HIDE DEF S, d2
    <3> QED BY <1>2, <1>3, <1>6, Writes
  <2>3. Discarded(d) = <<[current |-> None]>> \o <<[work |-> Nothing]>>
    BY Joined DEF Discarded, Nothing
  <2> HIDE DEF S, d1, d2, d3
  <2> QED BY <2>1, <2>2, <2>3, LeadsOn
<1>7. ASSUME s # 5 PROVE Leads(S, d3, ReleaseRemoved(d, first), c)
  <2>1. CASE d.released.parts = {}
    <3>1. c = d3 /\ ReleaseRemoved(d, first) = <<>>
      BY <1>7, <2>1, DiskIs DEF CutTo, Emptied, ReleaseRemoved, up
    <3> HIDE DEF S, d3
    <3> QED BY <1>2, <1>3, <1>7, <3>1, LeadsNowhere
  <2>2. CASE d.released.parts # {}
    <3>1. c = d5
      BY <1>7, <2>2, DiskIs DEF CutTo, Emptied, up
    <3>2. Leads(S, d3, <<[released |-> torn]>>, d4)
      <4> HIDE DEF S, d3, torn
      <4> QED BY <1>2, <1>3, <1>4, <1>7, Writes
    <3>3. [d4 EXCEPT !.released = NoRelease] = d5
      BY DiskIs
    <3>4. Leads(S, d4, <<[released |-> NoRelease]>>, d5)
      <4> HIDE DEF S, d4, d5
      <4> QED BY <1>2, <1>4, <1>7, <2>2, <3>3, Writes
    <3>5. ReleaseRemoved(d, first) = <<[released |-> torn]>> \o <<[released |-> NoRelease]>>
      BY <2>2, Joined DEF ReleaseRemoved
    <3> HIDE DEF S, d3, d4, d5, c
    <3> QED BY <3>1, <3>2, <3>4, <3>5, LeadsOn
  <2> QED BY <2>1, <2>2
<1> DEFINE code == IF s = 5 THEN <<>> ELSE Discarded(d) \o ReleaseRemoved(d, first)
<1>8. Leads(S, d1, code, c)
  <2>1. CASE s = 5
    <3>1. c = d1 /\ code = <<>>
      BY <1>1, <2>1, DiskIs DEF CutTo
    <3> HIDE DEF S, d1, c, code
    <3> QED BY <1>2, <1>3, <3>1, LeadsNowhere
  <2>2. CASE s # 5
    <3> HIDE DEF S, d1, d3, c
    <3> QED BY <1>6, <1>7, <2>2, LeadsOn
  <2> QED BY <2>1, <2>2
<1> HIDE DEF S, d1, c, code
<1>9. Leads(S, d, PlansRemoved(d, s + 1) \o code, c)
  BY <1>5, <1>8, LeadsOn
<1>10. c \in Disk
  BY <1>2, <1>9, LeadsEnds
<1> QED BY <1>9, <1>10 DEF S, c, code

\* _ensure_code_projection looks for a release only.
LEMMA EnsureLeads ==
  ASSUME NEW d \in Disk
  PROVE  Leads(Projecting(d), d, EnsureProjected(d), [d EXCEPT !.projection = Place(d)])
<1>1. Place(d) \in {"working", "release"} /\ EnsureProjected(d) = Projected(d, Place(d))
  BY DEF Place, EnsureProjected
<1> QED BY <1>1, ProjectedLeads

\* invalidate_downstream_artifacts leads to what it leaves, whichever entry of the release goes first.
LEMMA InvalidatedLeads ==
  ASSUME NEW d \in Disk, NEW s \in 2..5, NEW first \in Sides
  PROVE  Leads(Losing(d, s), d, Invalidated(d, s, first), InvalidatedTo(d, s))
<1> DEFINE S == Losing(d, s)
           c == CutTo(d, s)
           cut == PlansRemoved(d, s + 1) \o (IF s = 5 THEN <<>> ELSE Discarded(d) \o ReleaseRemoved(d, first))
           p == [c EXCEPT !.projection = Place(c)]
           b == [p EXCEPT !.batch = None]
<1>1. c \in Disk /\ Leads(S, d, cut, c)
  BY CutLeads
<1>2. /\ c.source = d.source /\ c.input = d.input /\ c.record = d.record /\ c.history = d.history
      /\ c.plans = PlansUpTo(d, s) /\ c.batch = d.batch /\ c.data = d.data
      /\ (s = 5 => c = d)
      /\ (s # 5 => c.current = None /\ c.work = Nothing /\ c.released = Emptied(d))
  BY DiskIs DEF CutTo, PlansUpTo
<1> HIDE DEF c, cut
<1>3. Place(c) \in Projections
  BY DEF Place, Projections
<1>4. /\ p \in Disk /\ b \in Disk /\ \A q \in Projections : [c EXCEPT !.projection = q] \in Disk
  BY <1>1, <1>3, DiskIs DEF Projections
<1>5. Emptied(d) = d.released \/ Emptied(d) = NoRelease
  BY DEF Emptied
<1>6. \A q \in Projections : [c EXCEPT !.projection = q] \in S
  <2>1. ASSUME NEW q \in Projections PROVE [c EXCEPT !.projection = q] \in S
    BY <1>1, <1>2, <1>4, <1>5, DiskIs DEF Losing
  <2> QED BY <2>1
<1>7. \A x \in DataSets : [b EXCEPT !.data = x] \in S
  <2>1. ASSUME NEW x \in DataSets PROVE [b EXCEPT !.data = x] \in S
    <3>1. [b EXCEPT !.data = x] \in Disk
      BY <1>4, DiskIs
    <3>2. [b EXCEPT !.data = x].batch = None
      BY <1>4, DiskIs
    <3> QED BY <1>1, <1>2, <1>4, <1>5, <3>1, <3>2, DiskIs DEF Losing
  <2> QED BY <2>1
<1>8. b \in S /\ p \in S
  <2>1. b = [b EXCEPT !.data = b.data] /\ b.data \in DataSets
    BY <1>4, DiskIs
  <2> QED BY <1>3, <1>6, <1>7, <2>1
<1>9. Leads(S, c, EnsureProjected(c), p)
  <2>1. Projecting(c) \subseteq S
    BY <1>6 DEF Projecting
  <2>2. Leads(Projecting(c), c, EnsureProjected(c), p)
    BY <1>1, EnsureLeads
  <2> HIDE DEF S, p
  <2> QED BY <2>1, <2>2, LeadsWider
<1>10. Leads(S, p, <<[batch |-> None]>>, b)
  <2>1. S \in SUBSET Disk
    BY DEF Losing
  <2> HIDE DEF S, p
  <2> QED BY <1>8, <2>1, Writes
<1>11. Leads(S, b, DataCleared(d), InvalidatedTo(d, s))
  <2>1. b.data = d.data
    BY <1>1, <1>2, <1>4, DiskIs
  <2>2. DataCleared(b) = DataCleared(d) /\ DataCleared0(b) = InvalidatedTo(d, s)
    <3>1. DataCleared(b) = DataCleared(d)
      BY <2>1 DEF DataCleared
    <3>2. DataCleared0(b) = InvalidatedTo(d, s)
      <4>1. [c EXCEPT !.projection = Place(c), !.batch = None] = b
        BY <1>1, DiskIs
      <4> QED BY <4>1 DEF InvalidatedTo, c
    <3> QED BY <3>1, <3>2
  <2>3. Handling(b) \subseteq S
    BY <1>7 DEF Handling
  <2> HIDE DEF S, b
  <2> QED BY <1>4, <2>2, <2>3, DataClearedLeads, LeadsWider
<1>12. Invalidated(d, s, first) = ((cut \o EnsureProjected(c)) \o <<[batch |-> None]>>) \o DataCleared(d)
  <2>1. After(d, cut) = c
    BY <1>1, LeadsEnds
  <2> QED BY <2>1 DEF Invalidated, Then, cut
<1> HIDE DEF S, p, b
<1>13. Leads(S, d, Invalidated(d, s, first), InvalidatedTo(d, s))
  BY <1>1, <1>9, <1>10, <1>11, <1>12, LeadsOn
<1> QED BY <1>13 DEF S

\* The entries that are left alone do not matter to it.
LEMMA InvalidatedSame ==
  ASSUME NEW d \in Disk, NEW e \in Disk, NEW s \in 2..5, NEW first \in Sides,
         e.plans = d.plans, e.work = d.work, e.current = d.current, e.released = d.released,
         e.projection = d.projection, e.batch = d.batch, e.data = d.data
  PROVE  Invalidated(e, s, first) = Invalidated(d, s, first)
<1> DEFINE cut(x) == PlansRemoved(x, s + 1) \o (IF s = 5 THEN <<>> ELSE Discarded(x) \o ReleaseRemoved(x, first))
<1>1. cut(e) = cut(d)
  BY DEF PlansRemoved, Discarded, ReleaseRemoved
<1>2. ASSUME NEW x \in Disk PROVE After(x, cut(x)) = CutTo(x, s)
  <2>1. Leads(Losing(x, s), x, cut(x), CutTo(x, s))
    BY CutLeads
  <2> HIDE DEF cut
  <2> QED BY <2>1, LeadsEnds
<1>3. CutTo(e, s).projection = CutTo(d, s).projection /\ CutTo(e, s).released = CutTo(d, s).released
  BY DiskIs DEF CutTo, Emptied
<1>4. EnsureProjected(CutTo(e, s)) = EnsureProjected(CutTo(d, s))
  BY <1>3 DEF EnsureProjected, Projected, Release
<1>5. DataCleared(e) = DataCleared(d)
  BY DEF DataCleared
<1> HIDE DEF cut
<1>6. \A x : Invalidated(x, s, first) = ((cut(x) \o EnsureProjected(After(x, cut(x)))) \o <<[batch |-> None]>>) \o DataCleared(x)
  BY DEF Invalidated, Then, cut
<1> QED BY <1>1, <1>2, <1>4, <1>5, <1>6

\* What clear_working_draft leaves.
ClearedTo(d, s) ==
  [d EXCEPT !.plans = PlansBefore(d, s), !.current = None, !.work = Nothing, !.projection = Place(d)]

\* It goes by directories in which a plan, a draft or the link is gone.
Clearing(d, s) ==
  {e \in Disk :
     /\ e = [d EXCEPT !.plans = e.plans, !.current = e.current, !.work = e.work,
                      !.projection = e.projection]
     /\ e.plans \in {d.plans, PlansBefore(d, s)} \/ (s = 3 /\ e.plans = OneGone(d))
     /\ \/ e.current = d.current /\ e.work = d.work
        \/ e.current = None /\ (e.work = d.work \/ e.work = Nothing)}

\* clear_working_draft leads to what it leaves.
LEMMA ClearedLeads ==
  ASSUME NEW d \in Disk, NEW s \in 3..5
  PROVE  Leads(Clearing(d, s), d, WorkingCleared(d, s), ClearedTo(d, s))
<1> DEFINE S == Clearing(d, s)
           before == PlansBefore(d, s)
           removed == PlansRemoved(d, s)
           d0 == [d EXCEPT !.plans = OneGone(d)]
           d1 == [d EXCEPT !.plans = before]
           d2 == [d1 EXCEPT !.current = None]
           d3 == [d2 EXCEPT !.work = Nothing]
           p == [d3 EXCEPT !.projection = Place(d3)]
<1>1. /\ before \in Plans /\ OneGone(d) \in Plans /\ Nothing \in Works
      /\ (s = 5 => before = d.plans) /\ S \in SUBSET Disk
  <2>1. S \in SUBSET Disk
    BY DEF Clearing
  <2> HIDE DEF S
  <2>2. before \in Plans /\ OneGone(d) \in Plans /\ Nothing \in Works /\ (s = 5 => before = d.plans)
    BY DiskIs DEF Plans, Works, Nothing, PlansBefore, OneGone
  <2> QED BY <2>1, <2>2
<1> HIDE DEF before, removed
<1>2. /\ d0 \in Disk /\ d1 \in Disk /\ d2 \in Disk /\ d3 \in Disk
      /\ \A q \in Projections : [d3 EXCEPT !.projection = q] \in Disk
  BY <1>1, DiskIs DEF Projections
<1>3. /\ d \in S /\ d1 \in S /\ d2 \in S /\ d3 \in S /\ (s = 3 => d0 \in S)
      /\ \A q \in Projections : [d3 EXCEPT !.projection = q] \in S
  <2>1. d \in S /\ d1 \in S
    BY <1>1, <1>2, DiskIs, ZenonT(60) DEF Clearing, before
  <2>2. s = 3 => d0 \in S
    BY <1>1, <1>2, DiskIs, ZenonT(60) DEF Clearing
  <2>3. d2 \in S /\ d3 \in S
    <3>1. /\ d2 = [d EXCEPT !.plans = d2.plans, !.current = d2.current, !.work = d2.work,
                           !.projection = d2.projection]
          /\ d2.plans = before /\ d2.current = None /\ d2.work = d.work
      BY <1>1, DiskIs
    <3>2. /\ d3 = [d EXCEPT !.plans = d3.plans, !.current = d3.current, !.work = d3.work,
                           !.projection = d3.projection]
          /\ d3.plans = before /\ d3.current = None /\ d3.work = Nothing
      BY <1>1, DiskIs
    <3> HIDE DEF d2, d3
    <3> QED BY <1>2, <3>1, <3>2 DEF Clearing, before
  <2>4. ASSUME NEW q \in Projections PROVE [d3 EXCEPT !.projection = q] \in S
    <3> DEFINE e == [d3 EXCEPT !.projection = q]
    <3>1. /\ e = [d EXCEPT !.plans = e.plans, !.current = e.current, !.work = e.work,
                          !.projection = e.projection]
          /\ e.plans = before /\ e.current = None /\ e.work = Nothing
      BY <1>1, DiskIs
    <3>2. e \in Disk
      BY <1>2
    <3> HIDE DEF e
    <3>3. e \in S
      BY <3>1, <3>2 DEF Clearing, before
    <3> QED BY <3>3 DEF e
  <2> QED BY <2>1, <2>2, <2>3, <2>4
<1>4. Leads(S, d, removed, d1)
  <2> HIDE DEF S
  <2>1. s \in 3..6
    OBVIOUS
  <2>2. /\ s = 3 => [d EXCEPT !.plans = OneGone(d)] \in S
        /\ [d EXCEPT !.plans = PlansBefore(d, s)] \in S /\ d \in S /\ S \in SUBSET Disk
    BY <1>1, <1>3, Zenon DEF before
  <2>3. Leads(S, d, PlansRemoved(d, s), [d EXCEPT !.plans = PlansBefore(d, s)])
    BY <2>1, <2>2, PlansLeads, Zenon
  <2> QED BY <2>3, Zenon DEF removed, before
<1>5. Leads(S, d1, Discarded(d), d3)
  <2>1. Leads(S, d1, <<[current |-> None]>>, d2)
    <3> HIDE DEF S, d1
    <3> QED BY <1>1, <1>3, Writes
  <2>2. Leads(S, d2, <<[work |-> Nothing]>>, d3)
    <3> HIDE DEF S, d2
    <3> QED BY <1>1, <1>3, Writes
  <2>3. Discarded(d) = <<[current |-> None]>> \o <<[work |-> Nothing]>>
    BY Joined DEF Discarded, Nothing
  <2> HIDE DEF S, d1, d2, d3
  <2> QED BY <2>1, <2>2, <2>3, LeadsOn
<1>6. Leads(S, d3, EnsureProjected(d3), p)
  <2>1. Projecting(d3) \subseteq S
    BY <1>3 DEF Projecting
  <2>2. Leads(Projecting(d3), d3, EnsureProjected(d3), p)
    BY <1>2, EnsureLeads
  <2> HIDE DEF S, p
  <2> QED BY <2>1, <2>2, LeadsWider
<1>7. p = ClearedTo(d, s)
  <2>1. Place(d3) = Place(d)
    BY <1>2, DiskIs DEF Place, Release
  <2> QED BY <2>1, DiskIs DEF ClearedTo, before
<1> HIDE DEF S, d1, d3, p
<1>8. Leads(S, d, removed \o Discarded(d), d3)
  BY <1>4, <1>5, LeadsOn
<1>9. WorkingCleared(d, s) = (removed \o Discarded(d)) \o EnsureProjected(d3)
  <2>1. After(d, removed \o Discarded(d)) = d3
    BY <1>8, LeadsEnds
  <2> QED BY <2>1 DEF WorkingCleared, Then, removed
<1>10. Leads(S, d, WorkingCleared(d, s), ClearedTo(d, s))
  BY <1>6, <1>7, <1>8, <1>9, LeadsOn
<1> QED BY <1>10 DEF S

\* What freeze_code_release leaves: the release of the code draft, the one before
\* in the history.
Snapshot(d) == [draft |-> Draft5(d), parts |-> Sides]
Archive(d) == IF Release(d) = None THEN d.history ELSE d.history \cup {Release(d)}
FrozenTo(d) ==
  IF SameRelease(d) THEN [d EXCEPT !.projection = "release"]
  ELSE [d EXCEPT !.released = Snapshot(d), !.history = Archive(d), !.projection = "release"]

Freezing(d) ==
  {e \in Disk :
     /\ e = [d EXCEPT !.released = e.released, !.history = e.history, !.projection = e.projection]
     /\ \/ e.released = d.released /\ e.history = d.history
        \/ /\ ~SameRelease(d) /\ e.history = Archive(d)
           /\ \/ e.released = NoRelease /\ Release(d) # None
              \/ e.released = Snapshot(d)}

\* The draft and the release are drafts, or there is none.
LEMMA DraftsType ==
  ASSUME NEW d \in Disk
  PROVE  Draft5(d) \in W!Draft \cup {None} /\ Release(d) \in W!Draft \cup {None}
<1>1. Draft5(d) \in W!Draft \cup {None}
  BY DiskIs DEF Draft5, Works
<1>2. Release(d) \in W!Draft \cup {None}
  BY DiskIs DEF Release, Releases, NoRelease
<1> QED BY <1>1, <1>2

\* freeze_code_release leads to the release by way of the archive.
LEMMA FrozenLeads ==
  ASSUME NEW d \in Disk, Draft5(d) # None
  PROVE  Leads(Freezing(d), d, Frozen(d), FrozenTo(d))
<1> DEFINE S == Freezing(d)
           d1 == IF Release(d) = None THEN d ELSE [d EXCEPT !.released = NoRelease, !.history = Archive(d)]
           d2 == [d1 EXCEPT !.released = Snapshot(d)]
           c == IF SameRelease(d) THEN d ELSE d2
           archived == IF Release(d) = None THEN <<>>
                       ELSE <<[released |-> NoRelease, history |-> d.history \cup {Release(d)}]>>
           ops == IF SameRelease(d) THEN <<>> ELSE archived \o Renamed(d)
<1>1. /\ Snapshot(d) \in Releases /\ NoRelease \in Releases /\ Archive(d) \in SUBSET W!Draft
      /\ S \in SUBSET Disk
  BY DraftsType, DiskIs DEF Snapshot, Releases, Archive, Freezing
<1>2. d1 \in Disk /\ d2 \in Disk /\ c \in Disk
  BY <1>1, DiskIs
<1>3. d \in S /\ (~SameRelease(d) => d1 \in S /\ d2 \in S)
  <2>1. d \in S
    BY <1>2, DiskIs DEF Freezing
  <2>2. Release(d) = None => Archive(d) = d.history
    BY DEF Archive
  <2>3. d1.history = Archive(d) /\ d2.history = Archive(d) /\ d2.released = Snapshot(d)
        /\ d1.released = IF Release(d) = None THEN d.released ELSE NoRelease
    BY <2>2, DiskIs
  <2>4. \A e \in {d1, d2} : e = [d EXCEPT !.released = e.released, !.history = e.history, !.projection = e.projection]
    BY DiskIs
  <2> HIDE DEF d1, d2
  <2>5. ~SameRelease(d) => d1 \in S /\ d2 \in S
    BY <1>2, <2>2, <2>3, <2>4 DEF Freezing
  <2> QED BY <2>1, <2>5
<1>4. ASSUME ~SameRelease(d) PROVE Leads(S, d, archived, d1)
  <2>1. CASE Release(d) = None
    <3>1. d1 = d /\ archived = <<>> /\ IsDirectory(d)
      BY <2>1, Entries
    <3> HIDE DEF S, d1, archived
    <3> QED BY <1>3, <3>1, LeadsNowhere
  <2>2. CASE Release(d) # None
    <3> DEFINE o == [released |-> NoRelease, history |-> d.history \cup {Release(d)}]
    <3>1. archived = <<o>> /\ IsDirectory(d)
      BY <2>2, Entries
    <3>2. d1 = [entry \in DOMAIN d |-> IF entry \in DOMAIN o THEN o[entry] ELSE d[entry]]
      <4>1. Archive(d) = d.history \cup {Release(d)}
        BY <2>2 DEF Archive
      <4>2. d1 = [d EXCEPT !.released = NoRelease, !.history = d.history \cup {Release(d)}]
        BY <2>2, <4>1
      <4> HIDE DEF d1
      <4>3. DOMAIN o = {"released", "history"} /\ o["released"] = NoRelease
            /\ o["history"] = d.history \cup {Release(d)}
        OBVIOUS
      <4> HIDE DEF o
      <4> QED BY <4>2, <4>3, Entries DEF IsDirectory
    <3> HIDE DEF S, d1, archived, o
    <3> QED BY <1>3, <1>4, <3>1, <3>2, LeadsOne
  <2> QED BY <2>1, <2>2
<1>5. ASSUME ~SameRelease(d) PROVE Leads(S, d1, Renamed(d), d2)
  <2>1. Renamed(d) = <<[released |-> Snapshot(d)]>>
    BY DEF Renamed, Snapshot
  <2> HIDE DEF S, d1
  <2> QED BY <1>1, <1>3, <1>5, <2>1, Writes
<1>6. Leads(S, d, ops, c)
  <2>1. CASE SameRelease(d)
    <3>1. c = d /\ ops = <<>> /\ IsDirectory(d)
      BY <2>1, Entries
    <3> HIDE DEF S, c, ops
    <3> QED BY <1>3, <3>1, LeadsNowhere
  <2>2. CASE ~SameRelease(d)
    <3>1. c = d2 /\ ops = archived \o Renamed(d)
      BY <2>2
    <3> HIDE DEF S, c, d1, d2, ops, archived
    <3> QED BY <1>4, <1>5, <2>2, <3>1, LeadsOn
  <2> QED BY <2>1, <2>2
<1>7. c.projection = d.projection /\ [c EXCEPT !.projection = "release"] = FrozenTo(d)
  <2>1. c.projection = d.projection
    BY DiskIs
  <2>2. CASE SameRelease(d)
    BY <2>2 DEF FrozenTo
  <2>3. CASE ~SameRelease(d)
    <3>1. Release(d) = None => Archive(d) = d.history
      BY DEF Archive
    <3> QED BY <2>3, <3>1, DiskIs DEF FrozenTo
  <2> QED BY <2>1, <2>2, <2>3
<1>8. Leads(S, c, Projected(d, "release"), FrozenTo(d))
  <2>1. Leads(Projecting(c), c, Projected(c, "release"), [c EXCEPT !.projection = "release"])
    BY <1>2, ProjectedLeads
  <2>2. Projected(c, "release") = Projected(d, "release")
    BY <1>7 DEF Projected
  <2>3. Projecting(c) \subseteq S
    <3>1. c \in S
      BY <1>3
    <3> HIDE DEF c
    <3>2. ASSUME NEW q \in Projections PROVE [c EXCEPT !.projection = q] \in S
      <4>1. [c EXCEPT !.projection = q] \in Disk
        BY <1>2, DiskIs DEF Projections
      <4> QED BY <1>2, <3>1, <4>1, DiskIs DEF Freezing
    <3> QED BY <3>2 DEF Projecting
  <2> HIDE DEF S, c
  <2> QED BY <1>7, <2>1, <2>2, <2>3, LeadsWider
<1>9. Frozen(d) = ops \o Projected(d, "release")
  BY DEF Frozen
<1> HIDE DEF S, c, ops
<1>10. Leads(S, d, Frozen(d), FrozenTo(d))
  BY <1>6, <1>8, <1>9, LeadsOn
<1> QED BY <1>10 DEF S

-----------------------------------------------------------------------------
(* The methods of ProjectService keep a record in order, whatever the directory *)

R == INSTANCE WorkflowProofs WITH rec <- disk.record, inp <- disk.input,
                                  disk <- Abstract(disk), op <- None
\* The order of the stages that WorkflowProperties has, but for the threads: a stop
\* between two saves leaves a stage that waits without its thread, or a thread behind.
InOrder(r) ==
  /\ r.compiled <=> r.stage >= 3
  /\ \A s \in 3..5 :
       /\ s < r.stage <=> r.st[s] = "passed"
       /\ s > r.stage => r.st[s] = "draft"
  /\ r.gen <=> r.stage >= 7
  /\ r.ready <=> r.stage = 8

\* A record in order.
Sound(r) == r \in W!ProjectRecord /\ InOrder(r)

\* What WorkflowProofs proves of the record is so of the record of a directory.
LEMMA SameRecord ==
  /\ R!WorkflowAssumption /\ R!NoneAssumption
  /\ R!ProjectRecord = W!ProjectRecord /\ R!Interactive = 3..5 /\ W!Interactive = 3..5
<1>1. R!WorkflowAssumption
  BY StoreAssumption DEF R!WorkflowAssumption
<1>2. R!NoneAssumption
  BY StoreAssumption DEF R!NoneAssumption, R!Draft, W!Draft, R!Batch, W!Batch, R!Data,
       W!Data, R!Stamp, W!Stamp,
         R!BatchStatus, W!BatchStatus
<1>3. R!ProjectRecord = W!ProjectRecord /\ R!Interactive = 3..5 /\ W!Interactive = 3..5
  BY DEF R!ProjectRecord, W!ProjectRecord, R!Interactive, W!Interactive, R!Status,
       W!Status
<1> QED BY <1>1, <1>2, <1>3

\* A stage in a check is the stage of the project.
LEMMA InCheck ==
  ASSUME NEW r, Sound(r), NEW s \in 3..5, r.st[s] = "checking"
  PROVE  r.stage = s /\ ~r.ready /\ r.st[5] # "passed"
BY DEF Sound, W!ProjectRecord, W!Interactive, W!Status, InOrder

\* The flags follow the stage.
LEMMA Staged ==
  ASSUME NEW r, Sound(r)
  PROVE  /\ r.stage \in 2..8 /\ r.subRev \in Nat
         /\ (r.st[5] = "passed" <=> r.stage >= 6) /\ (r.gen <=> r.stage >= 7) /\ (r.ready <=> r.stage = 8)
         /\ r.compiled <=> r.stage >= 3
BY DEF Sound, W!ProjectRecord, W!Interactive, W!Status, InOrder

\* update_solution brings the project back to stage 2.
LEMMA Edited ==
  ASSUME NEW r, Sound(r), NEW rev \in Nat
  PROVE  LET q == W!SolutionUpdated(r, rev) IN
             /\ Sound(q)
             /\ q.stage = 2
             /\ ~q.compiled
             /\ ~q.ready
             /\ q.st[5] = "draft"
             /\ q.subRev = r.subRev
<1>0. r \in W!ProjectRecord /\ InOrder(r)
  BY DEF Sound
<1>1. W!SolutionUpdated(r, rev) \in W!ProjectRecord
  <2>1. R!SolutionUpdated(r, rev) = W!SolutionUpdated(r, rev)
    BY DEF W!SolutionUpdated, W!InvalidateDownstream, W!NotBuilt, W!NoCode,
         R!SolutionUpdated, R!InvalidateDownstream, R!NotBuilt, R!NoCode,
         R!ProjectRecord, R!Interactive, R!Status, W!Interactive
  <2> QED BY <1>0, <2>1, SameRecord, R!SolutionUpdatedType
<1>2. InOrder(W!SolutionUpdated(r, rev))
  BY <1>0 DEF W!SolutionUpdated, W!InvalidateDownstream, W!NotBuilt, W!NoCode,
       W!ProjectRecord, W!Interactive, W!Status, InOrder
<1>3. LET q == W!SolutionUpdated(r, rev)
      IN  /\ q.stage = 2
          /\ ~q.compiled
          /\ ~q.ready
          /\ q.st[5] = "draft"
          /\ q.subRev = r.subRev
  BY <1>0 DEF W!SolutionUpdated, W!InvalidateDownstream, W!NotBuilt, W!NoCode,
       W!ProjectRecord, W!Interactive, W!Status, InOrder
<1> QED BY <1>1, <1>2, <1>3 DEF Sound

\* mark_solution_compiled goes on to stage 3, or back to stage 2.
LEMMA Compiled ==
  ASSUME NEW r, Sound(r)
  PROVE  /\ LET q == W!CompileAccepted(r) IN
             /\ Sound(q)
             /\ q.stage = IF r.stage = 2 THEN 3 ELSE r.stage
             /\ q.compiled
             /\ (q.ready <=> r.ready)
             /\ q.st = r.st
             /\ q.subRev = r.subRev
         /\ LET q == W!CompileRejected(r) IN
             /\ Sound(q)
             /\ q.stage = 2
             /\ ~q.compiled
             /\ ~q.ready
             /\ q.st[5] = "draft"
             /\ q.subRev = r.subRev
<1>0. r \in W!ProjectRecord /\ InOrder(r)
  BY DEF Sound
<1>1. W!CompileAccepted(r) \in W!ProjectRecord
  <2>1. R!CompileAccepted(r) = W!CompileAccepted(r)
    BY DEF W!CompileAccepted, W!CompileRejected, W!ResetsOnReject,
         W!InvalidateDownstream, W!NotBuilt, W!NoCode, R!CompileAccepted,
         R!CompileRejected, R!ResetsOnReject, R!InvalidateDownstream, R!NotBuilt,
         R!NoCode, R!ProjectRecord, R!Interactive, R!Status, W!Interactive
  <2> QED BY <1>0, <2>1, SameRecord, R!CompiledTypes
<1>2. InOrder(W!CompileAccepted(r))
  BY <1>0 DEF W!CompileAccepted, W!CompileRejected, W!ResetsOnReject,
       W!InvalidateDownstream, W!NotBuilt, W!NoCode, W!ProjectRecord, W!Interactive,
       W!Status, InOrder
<1>3. LET q == W!CompileAccepted(r)
      IN  /\ (q.stage = IF r.stage = 2 THEN 3 ELSE r.stage)
          /\ q.compiled
          /\ ((q.ready <=> r.ready))
          /\ q.st = r.st
          /\ q.subRev = r.subRev
  BY <1>0 DEF W!CompileAccepted, W!CompileRejected, W!ResetsOnReject,
       W!InvalidateDownstream, W!NotBuilt, W!NoCode, W!ProjectRecord, W!Interactive,
       W!Status, InOrder
<1>4. W!CompileRejected(r) \in W!ProjectRecord
  <2>1. R!CompileRejected(r) = W!CompileRejected(r)
    BY DEF W!CompileAccepted, W!CompileRejected, W!ResetsOnReject,
         W!InvalidateDownstream, W!NotBuilt, W!NoCode, R!CompileAccepted,
         R!CompileRejected, R!ResetsOnReject, R!InvalidateDownstream, R!NotBuilt,
         R!NoCode, R!ProjectRecord, R!Interactive, R!Status, W!Interactive
  <2> QED BY <1>0, <2>1, SameRecord, R!CompiledTypes
<1>5. InOrder(W!CompileRejected(r))
  BY <1>0 DEF W!CompileAccepted, W!CompileRejected, W!ResetsOnReject,
       W!InvalidateDownstream, W!NotBuilt, W!NoCode, W!ProjectRecord, W!Interactive,
       W!Status, InOrder
<1>6. LET q == W!CompileRejected(r)
      IN  /\ q.stage = 2
          /\ ~q.compiled
          /\ ~q.ready
          /\ q.st[5] = "draft"
          /\ q.subRev = r.subRev
  BY <1>0 DEF W!CompileAccepted, W!CompileRejected, W!ResetsOnReject,
       W!InvalidateDownstream, W!NotBuilt, W!NoCode, W!ProjectRecord, W!Interactive,
       W!Status, InOrder
<1> QED BY <1>1, <1>2, <1>3, <1>4, <1>5, <1>6 DEF Sound

\* save_user_draft brings the project back to the stage.
LEMMA UserSaved ==
  ASSUME NEW r, Sound(r), NEW s \in 3..5, s <= r.stage
  PROVE  LET q == W!UserDraftSaved(r, s) IN
             /\ Sound(q)
             /\ q.stage = s
             /\ q.compiled = r.compiled
             /\ ~q.ready
             /\ q.st[5] = "draft"
             /\ s # 4 => q.subRev = r.subRev
<1>0. r \in W!ProjectRecord /\ InOrder(r)
  BY DEF Sound
<1>1. W!UserDraftSaved(r, s) \in W!ProjectRecord
  <2>1. R!UserDraftSaved(r, s) = W!UserDraftSaved(r, s)
    BY DEF W!UserDraftSaved, W!SetStatus, W!InvalidateDownstream, W!NotBuilt, W!NoCode,
         R!UserDraftSaved, R!SetStatus, R!InvalidateDownstream, R!NotBuilt, R!NoCode,
         R!ProjectRecord, R!Interactive, R!Status, W!Interactive
  <2> QED BY <1>0, <2>1, SameRecord, R!UserDraftSavedType
<1>2. InOrder(W!UserDraftSaved(r, s))
  BY <1>0 DEF W!UserDraftSaved, W!SetStatus, W!InvalidateDownstream, W!NotBuilt,
       W!NoCode, W!ProjectRecord, W!Interactive, W!Status, InOrder
<1>3. LET q == W!UserDraftSaved(r, s)
      IN  /\ q.stage = s
          /\ q.compiled = r.compiled
          /\ ~q.ready
          /\ q.st[5] = "draft"
          /\ (s # 4 => q.subRev = r.subRev)
  BY <1>0 DEF W!UserDraftSaved, W!SetStatus, W!InvalidateDownstream, W!NotBuilt,
       W!NoCode, W!ProjectRecord, W!Interactive, W!Status, InOrder
<1> QED BY <1>1, <1>2, <1>3 DEF Sound

\* run_stage begins a check without moving the stage.
LEMMA CheckBegun ==
  ASSUME NEW r, Sound(r), NEW s \in 3..5, s = r.stage
  PROVE  LET q == W!BeginCheck(r, s) IN
             /\ Sound(q)
             /\ q.stage = s
             /\ q.compiled = r.compiled
             /\ ~q.ready
             /\ q.st[5] # "passed"
             /\ q.subRev = r.subRev
<1>0. r \in W!ProjectRecord /\ InOrder(r)
  BY DEF Sound
<1>1. W!BeginCheck(r, s) \in W!ProjectRecord
  <2>1. R!BeginCheck(r, s) = W!BeginCheck(r, s)
    BY DEF W!BeginCheck, R!BeginCheck, R!ProjectRecord, R!Interactive, R!Status,
         W!Interactive
  <2> QED BY <1>0, <2>1, SameRecord, R!BeginCheckType
<1>2. InOrder(W!BeginCheck(r, s))
  BY <1>0 DEF W!BeginCheck, W!ProjectRecord, W!Interactive, W!Status, InOrder
<1>3. LET q == W!BeginCheck(r, s)
      IN  /\ q.stage = s
          /\ q.compiled = r.compiled
          /\ ~q.ready
          /\ q.st[5] # "passed"
          /\ q.subRev = r.subRev
  BY <1>0 DEF W!BeginCheck, W!ProjectRecord, W!Interactive, W!Status, InOrder
<1> QED BY <1>1, <1>2, <1>3 DEF Sound

\* A failed check leaves the stage where it is.
LEMMA Failed ==
  ASSUME NEW r, Sound(r), NEW s \in 3..5, r.st[s] = "checking"
  PROVE  LET q == W!StageFailed(r, s) IN
             /\ Sound(q)
             /\ q.stage = s
             /\ q.compiled = r.compiled
             /\ ~q.ready
             /\ q.st[5] # "passed"
             /\ q.subRev = r.subRev
<1>0. r \in W!ProjectRecord /\ InOrder(r)
  BY DEF Sound
<1>1. W!StageFailed(r, s) \in W!ProjectRecord
  <2>1. R!StageFailed(r, s) = W!StageFailed(r, s)
    BY DEF W!StageFailed, W!SetStatus, W!InvalidateDownstream, W!NotBuilt, W!NoCode,
         R!StageFailed, R!SetStatus, R!InvalidateDownstream, R!NotBuilt, R!NoCode,
         R!ProjectRecord, R!Interactive, R!Status, W!Interactive
  <2> QED BY <1>0, <2>1, SameRecord, R!StageFailedType
<1>2. InOrder(W!StageFailed(r, s))
  BY <1>0, InCheck DEF W!StageFailed, W!SetStatus, W!InvalidateDownstream, W!NotBuilt,
       W!NoCode, W!ProjectRecord, W!Interactive, W!Status, InOrder
<1>3. LET q == W!StageFailed(r, s)
      IN  /\ q.stage = s
          /\ q.compiled = r.compiled
          /\ ~q.ready
          /\ q.st[5] # "passed"
          /\ q.subRev = r.subRev
  BY <1>0, InCheck DEF W!StageFailed, W!SetStatus, W!InvalidateDownstream, W!NotBuilt,
       W!NoCode, W!ProjectRecord, W!Interactive, W!Status, InOrder
<1> QED BY <1>1, <1>2, <1>3 DEF Sound

\* confirm goes on to the next stage.
LEMMA ConfirmingOnce ==
  ASSUME NEW r, Sound(r), NEW s \in 3..5, r.st[s] = "waiting_user", W!MayConfirm(r, s)
  PROVE  LET q == W!Confirmed(r, s) IN
             /\ Sound(q)
             /\ q.stage = s + 1
             /\ q.compiled = r.compiled
             /\ ~q.ready
             /\ s < 5 => q.st[5] # "passed"
             /\ q.subRev = r.subRev
<1>0. r \in W!ProjectRecord /\ InOrder(r)
  BY DEF Sound
<1>1. W!Confirmed(r, s) \in W!ProjectRecord
  <2>1. R!Confirmed(r, s) = W!Confirmed(r, s)
    BY DEF W!Confirmed, W!MayConfirm, R!Confirmed, R!MayConfirm, R!ProjectRecord,
         R!Interactive, R!Status, W!Interactive
  <2> QED BY <1>0, <2>1, SameRecord, R!ConfirmedType
<1>2. InOrder(W!Confirmed(r, s))
  BY <1>0 DEF W!Confirmed, W!MayConfirm, W!ProjectRecord, W!Interactive, W!Status,
       InOrder
<1>3. LET q == W!Confirmed(r, s)
      IN  /\ q.stage = s + 1
          /\ q.compiled = r.compiled
          /\ ~q.ready
          /\ (s < 5 => q.st[5] # "passed")
          /\ q.subRev = r.subRev
  BY <1>0 DEF W!Confirmed, W!MayConfirm, W!ProjectRecord, W!Interactive, W!Status,
       InOrder
<1> QED BY <1>1, <1>2, <1>3 DEF Sound

\* So does its first record, which has the thread still.
LEMMA Confirming ==
  ASSUME NEW r, Sound(r), NEW s \in 3..5, r.st[s] = "waiting_user", W!MayConfirm(r, s),
         NEW q, q \in {W!Confirmed(r, s), [W!Confirmed(r, s) EXCEPT !.threads = r.threads]}
  PROVE  /\ Sound(q)
         /\ q.stage = s + 1
         /\ q.compiled = r.compiled
         /\ ~q.ready
         /\ s < 5 => q.st[5] # "passed"
         /\ q.subRev = r.subRev
<1> DEFINE b == W!Confirmed(r, s)
<1>1. /\ Sound(b) /\ b.stage = s + 1 /\ b.compiled = r.compiled /\ ~b.ready
      /\ (s < 5 => b.st[5] # "passed") /\ b.subRev = r.subRev
  BY ConfirmingOnce
<1> HIDE DEF b
<1>2. r.threads \in SUBSET {3, 4} /\ b \in W!ProjectRecord
  BY <1>1 DEF Sound, W!ProjectRecord
<1>3. /\ q \in W!ProjectRecord /\ q.stage = b.stage /\ q.compiled = b.compiled /\ q.ready = b.ready
      /\ q.gen = b.gen /\ q.st = b.st /\ q.subRev = b.subRev
  <2>1. CASE q = b
    BY <1>2, <2>1
  <2>2. CASE q = [b EXCEPT !.threads = r.threads]
    BY <1>2, <2>2 DEF W!ProjectRecord
  <2> QED BY <2>1, <2>2 DEF b
<1>4. InOrder(q)
  BY <1>1, <1>3 DEF Sound, InOrder
<1> QED BY <1>1, <1>3, <1>4 DEF Sound

\* The build goes on to stages 7 and 8, or back to stage 5.
LEMMA Building ==
  ASSUME NEW r, Sound(r)
  PROVE  /\ r.stage >= 6 =>
           LET q == W!GenerationComplete(r) IN
             /\ Sound(q)
             /\ q.stage = 7
             /\ q.compiled = r.compiled
             /\ ~q.ready
             /\ q.st = r.st
             /\ q.subRev = r.subRev
         /\ r.stage >= 7 =>
           LET q == W!ValidationComplete(r) IN
             /\ Sound(q)
             /\ q.stage = 8
             /\ q.compiled = r.compiled
             /\ q.st = r.st
             /\ q.subRev = r.subRev
         /\ r.stage >= 6 =>
           LET q == W!PipelineFailure(r) IN
             /\ Sound(q)
             /\ q.stage = 5
             /\ q.compiled = r.compiled
             /\ ~q.ready
             /\ q.st[5] = "draft"
             /\ q.subRev = r.subRev
<1>0. r \in W!ProjectRecord /\ InOrder(r)
  BY DEF Sound
<1>1. ASSUME r.stage >= 6 PROVE W!GenerationComplete(r) \in W!ProjectRecord
  <2>1. R!GenerationComplete(r) = W!GenerationComplete(r)
    BY DEF W!GenerationComplete, W!ValidationComplete, W!PipelineFailure, W!NotBuilt,
         R!GenerationComplete, R!ValidationComplete, R!PipelineFailure, R!NotBuilt,
         R!ProjectRecord, R!Interactive, R!Status, W!Interactive
  <2> QED BY <1>0, <2>1, SameRecord, R!BuildTypes
<1>2. ASSUME r.stage >= 6 PROVE InOrder(W!GenerationComplete(r))
  BY <1>0, <1>2 DEF W!GenerationComplete, W!ValidationComplete, W!PipelineFailure,
       W!NotBuilt, W!ProjectRecord, W!Interactive, W!Status, InOrder
<1>3. ASSUME r.stage >= 6 PROVE LET q == W!GenerationComplete(r) IN q.stage = 7 /\ q.compiled = r.compiled /\ ~q.ready /\ q.st = r.st /\ q.subRev = r.subRev
  BY <1>0, <1>3 DEF W!GenerationComplete, W!ValidationComplete, W!PipelineFailure,
       W!NotBuilt, W!ProjectRecord, W!Interactive, W!Status, InOrder
<1>4. ASSUME r.stage >= 7 PROVE W!ValidationComplete(r) \in W!ProjectRecord
  <2>1. R!ValidationComplete(r) = W!ValidationComplete(r)
    BY DEF W!GenerationComplete, W!ValidationComplete, W!PipelineFailure, W!NotBuilt,
         R!GenerationComplete, R!ValidationComplete, R!PipelineFailure, R!NotBuilt,
         R!ProjectRecord, R!Interactive, R!Status, W!Interactive
  <2> QED BY <1>0, <2>1, SameRecord, R!BuildTypes
<1>5. ASSUME r.stage >= 7 PROVE InOrder(W!ValidationComplete(r))
  BY <1>0, <1>5 DEF W!GenerationComplete, W!ValidationComplete, W!PipelineFailure,
       W!NotBuilt, W!ProjectRecord, W!Interactive, W!Status, InOrder
<1>6. ASSUME r.stage >= 7 PROVE LET q == W!ValidationComplete(r) IN q.stage = 8 /\ q.compiled = r.compiled /\ q.st = r.st /\ q.subRev = r.subRev
  BY <1>0, <1>6 DEF W!GenerationComplete, W!ValidationComplete, W!PipelineFailure,
       W!NotBuilt, W!ProjectRecord, W!Interactive, W!Status, InOrder
<1>7. ASSUME r.stage >= 6 PROVE W!PipelineFailure(r) \in W!ProjectRecord
  <2>1. R!PipelineFailure(r) = W!PipelineFailure(r)
    BY DEF W!GenerationComplete, W!ValidationComplete, W!PipelineFailure, W!NotBuilt,
         R!GenerationComplete, R!ValidationComplete, R!PipelineFailure, R!NotBuilt,
         R!ProjectRecord, R!Interactive, R!Status, W!Interactive
  <2> QED BY <1>0, <2>1, SameRecord, R!BuildTypes
<1>8. ASSUME r.stage >= 6 PROVE InOrder(W!PipelineFailure(r))
  BY <1>0, <1>8 DEF W!GenerationComplete, W!ValidationComplete, W!PipelineFailure,
       W!NotBuilt, W!ProjectRecord, W!Interactive, W!Status, InOrder
<1>9. ASSUME r.stage >= 6 PROVE LET q == W!PipelineFailure(r) IN q.stage = 5 /\ q.compiled = r.compiled /\ ~q.ready /\ q.st[5] = "draft" /\ q.subRev = r.subRev
  BY <1>0, <1>9 DEF W!GenerationComplete, W!ValidationComplete, W!PipelineFailure,
       W!NotBuilt, W!ProjectRecord, W!Interactive, W!Status, InOrder
<1> QED BY <1>1, <1>2, <1>3, <1>4, <1>5, <1>6, <1>7, <1>8, <1>9 DEF Sound

\* recover_interrupted_checks moves nothing but the checks.
LEMMA Recovered ==
  ASSUME NEW r, Sound(r)
  PROVE  LET q == W!ChecksRecovered(r) IN
             /\ Sound(q)
             /\ q.stage = r.stage
             /\ q.compiled = r.compiled
             /\ q.ready = r.ready
             /\ (q.st[5] = "passed" <=> r.st[5] = "passed")
             /\ q.subRev = r.subRev
<1>0. r \in W!ProjectRecord /\ InOrder(r)
  BY DEF Sound
<1>1. W!ChecksRecovered(r) \in W!ProjectRecord
  <2>1. R!ChecksRecovered(r) = W!ChecksRecovered(r)
    BY DEF W!ChecksRecovered, W!Interrupted, R!ChecksRecovered, R!Interrupted,
         R!ProjectRecord, R!Interactive, R!Status, W!Interactive
  <2> QED BY <1>0, <2>1, SameRecord, R!ChecksRecoveredType
<1>2. InOrder(W!ChecksRecovered(r))
  BY <1>0 DEF W!ChecksRecovered, W!Interrupted, W!ProjectRecord, W!Interactive,
       W!Status, InOrder
<1>3. LET q == W!ChecksRecovered(r)
      IN  /\ q.stage = r.stage
          /\ q.compiled = r.compiled
          /\ q.ready = r.ready
          /\ ((q.st[5] = "passed" <=> r.st[5] = "passed"))
          /\ q.subRev = r.subRev
  BY <1>0 DEF W!ChecksRecovered, W!Interrupted, W!ProjectRecord, W!Interactive,
       W!Status, InOrder
<1> QED BY <1>1, <1>2, <1>3 DEF Sound

\* A stage that waits is the stage of the project.
LEMMA InWait ==
  ASSUME NEW r, Sound(r), NEW s \in 3..5, r.st[s] = "waiting_user"
  PROVE  r.stage = s
BY DEF Sound, W!ProjectRecord, W!Interactive, W!Status, InOrder

\* The record of a stage that passed, and the same with the thread it waits on.
Result(r, s, changed) == W!AiResultSaved(r, s, TRUE, changed)
Passed(r, s, changed) == [Result(r, s, changed) EXCEPT !.threads = @ \cup {s}]

\* A stage that passed waits for the user, with its thread or without.
LEMMA Passing ==
  ASSUME NEW r, Sound(r), NEW s \in 3..5, r.st[s] = "checking", NEW changed \in BOOLEAN,
         NEW q, q = Result(r, s, changed) \/ (s < 5 /\ q = Passed(r, s, changed))
  PROVE  /\ Sound(q)
         /\ q.stage = s
         /\ q.compiled = r.compiled
         /\ ~q.ready
         /\ q.st[5] # "passed"
         /\ (s # 4 \/ ~changed => q.subRev = r.subRev)
<1> DEFINE b == Result(r, s, changed)
<1>0. r \in W!ProjectRecord /\ InOrder(r) /\ s = r.stage
  BY InCheck DEF Sound
<1>1. b \in W!ProjectRecord
  <2>1. R!AiResultSaved(r, s, TRUE, changed) = b
    BY DEF W!AiResultSaved, R!AiResultSaved, W!SetStatus, R!SetStatus, W!InvalidateDownstream,
         R!InvalidateDownstream, W!NoCode, R!NoCode, W!Interactive, R!Interactive, Result
  <2>2. r \in R!ProjectRecord /\ s \in R!Interactive /\ TRUE \in BOOLEAN
    BY <1>0, SameRecord
  <2>3. R!AiResultSaved(r, s, TRUE, changed) \in R!ProjectRecord
    BY <2>2, SameRecord, R!AiResultSavedType
  <2> HIDE DEF b
  <2> QED BY <2>1, <2>3, SameRecord
<1>2. /\ b.stage = s /\ b.compiled = r.compiled /\ b.ready = r.ready /\ ~b.gen
      /\ b.st = [t \in 3..5 |-> IF t > s THEN "draft" ELSE IF t = s THEN "waiting_user" ELSE r.st[t]]
      /\ (s # 4 \/ ~changed => b.subRev = r.subRev)
  BY <1>0 DEF Result, W!AiResultSaved, W!SetStatus, W!InvalidateDownstream, W!NoCode,
       W!ProjectRecord, W!Interactive
<1> HIDE DEF b
<1>3. /\ q \in W!ProjectRecord /\ q.stage = b.stage /\ q.compiled = b.compiled /\ q.ready = b.ready
      /\ q.gen = b.gen /\ q.st = b.st /\ q.subRev = b.subRev
  <2>1. CASE q = b
    BY <1>1, <2>1
  <2>2. CASE s < 5 /\ q = [b EXCEPT !.threads = @ \cup {s}]
    <3>1. b.threads \cup {s} \in SUBSET {3, 4}
      BY <1>1, <2>2 DEF W!ProjectRecord
    <3> QED BY <1>1, <2>2, <3>1 DEF W!ProjectRecord
  <2> QED BY <2>1, <2>2 DEF b, Passed
<1>4. ~r.ready /\ r.stage \in 2..8 /\ (r.compiled <=> r.stage >= 3)
  BY <1>0, InCheck, Staged
<1>5. InOrder(q)
  BY <1>0, <1>2, <1>3, <1>4 DEF InOrder
<1> QED BY <1>2, <1>3, <1>4, <1>5 DEF Sound

-----------------------------------------------------------------------------
(* What is so of a directory whenever it is read *)

\* The template in use is whole.
CodeWhole(d) == d.current # None => d.work[d.current] # None /\ d.work[d.current].whole

\* A stop leaves at most one working directory behind.
Held(work) == {n \in Dirs : work[n] # None}
Occupied(d) == Held(d.work)
Room(d, stops) == Cardinality(Occupied(d)) <= stops + (IF d.current = None THEN 0 ELSE 1)

\* What the record says of the release and the batch is so.
Ahead(d) ==
  /\ Sound(d.record)
  /\ d.record.stage < 5 => d.released.parts = {} /\ d.batch = None
  /\ d.released.parts # {} => d.released.draft.subRev = d.record.subRev

Safe(d, stops) == d \in Disk /\ CodeWhole(d) /\ Room(d, stops) /\ Ahead(d)

\* A release that lost a file has lost its plans before.
Conf(d) ==
  /\ d.record.st[5] = "passed" /\ d.plans[4] # None => d.released.parts = Sides
  /\ d.released.parts \notin {{}, Sides} => d.plans[3] = None /\ d.plans[4] = None

\* The link generated has nothing to lead to.
Shut(d) == d.current = None /\ d.released.parts = {}

\* What the manifest says of the files of data is so; a plan may have been removed, by
\* a compile that was stopped.
Pack(d) ==
  /\ d.source = d.input.src
  /\ d.record.compiled => d.source \in GoodSources
  /\ d.record.ready /\ d.batch = None => Shut(d)
  /\ d.batch # None /\ d.batch.listed =>
       d.data.tests = Tests
       /\ (Tests # {} => /\ d.data.code = d.batch.stamp.code
                         /\ d.plans[4] # None => d.data.plan = d.plans[4].c)
  /\ d.batch # None /\ d.batch.status = "completed" => d.batch.listed /\ d.data.outs = d.input.src

NoDraftStops == "draft" \notin Crashing
NoEditStops == "draft" \notin Crashing /\ "solution" \notin Crashing
Fair(d, stops) == Safe(d, stops) /\ (NoDraftStops => Conf(d))
Good(d, stops) == Safe(d, stops) /\ (NoDraftStops => Conf(d)) /\ (NoEditStops => Pack(d))

\* The release of d is in force in e or in its history, unless the plans differ.
Traced(d, e) ==
  d.plans[4] # None /\ e.plans = d.plans /\ Release(d) # None
    => Release(e) = Release(d) \/ Release(d) \in e.history

\* Where a stop of method m may find the directory.  A plan with a thread left behind
\* can be saved again as it is, and takes the release with it.
Way(m) ==
  {e \in Disk : m \in Crashing => /\ Good(e, crashes + 1)
                                  /\ 4 \notin disk.record.threads => Traced(disk, e)}

\* There are two working directories more than stops.
LEMMA DirsFinite ==
  /\ IsFiniteSet(Dirs) /\ Cardinality(Dirs) = MaxCrashes + 2 /\ MaxCrashes \in Nat
  /\ \A S \in SUBSET Dirs : IsFiniteSet(S) /\ Cardinality(S) \in Nat
<1>1. MaxCrashes \in Nat
  BY StoreAssumption
<1>2. IsFiniteSet(Dirs) /\ Cardinality(Dirs) = MaxCrashes + 2
  BY <1>1, FS_Interval DEF Dirs
<1> QED BY <1>1, <1>2, FS_Subset, FS_CardinalityType

\* Room, with the count of the directories alone.
LEMMA RoomFor ==
  ASSUME NEW d, NEW stops \in Nat
  PROVE  Room(d, stops) <=> Cardinality(Occupied(d)) <= stops + 1
                            /\ (d.current = None => Cardinality(Occupied(d)) <= stops)
<1>1. Cardinality(Occupied(d)) \in Nat
  BY DirsFinite DEF Occupied, Held
<1>2. CASE d.current = None
  BY <1>1, <1>2 DEF Room
<1>3. CASE d.current # None
  BY <1>1, <1>3 DEF Room
<1> QED BY <1>2, <1>3

\* save_code_draft always finds a free directory.
LEMMA NewExists ==
  ASSUME NEW d, NEW stops \in 0 .. MaxCrashes, Safe(d, stops)
  PROVE  \E n \in Dirs : d.work[n] = None
<1> SUFFICES ASSUME \A n \in Dirs : d.work[n] # None PROVE FALSE
  OBVIOUS
<1>1. Occupied(d) = Dirs /\ stops \in Nat
  BY DirsFinite DEF Occupied, Held
<1>2. Cardinality(Dirs) <= stops + 1
  BY <1>1, RoomFor DEF Safe
<1> QED BY <1>2, DirsFinite

\* A draft that is saved takes one directory more until the old one is gone.
LEMMA SavingRoom ==
  ASSUME NEW d, NEW stops \in 0 .. MaxCrashes, Safe(d, stops), NEW draft \in W!Draft
  PROVE  /\ \A e \in Saving(d, draft) : CodeWhole(e) /\ Room(e, stops + 1)
         /\ CodeWhole(CodeSavedTo(d, draft)) /\ Room(CodeSavedTo(d, draft), stops)
<1> DEFINE n == New(d)
           half == Works1(d, draft, FALSE)
           full == Works1(d, draft, TRUE)
           left == WorksLeft(d, draft)
           have == Occupied(d)
           k == Cardinality(have)
<1>1. d \in Disk /\ n \in Dirs /\ d.work[n] = None /\ d.work \in Works /\ d.current \in Dirs \cup {None}
      /\ stops \in Nat
  BY NewExists, NewFree, DiskIs, DirsFinite DEF Safe
<1>2. None \notin Dirs /\ \A x \in BOOLEAN : [draft |-> draft, whole |-> x] # None
  <2>1. None \notin [draft: W!Draft, whole: BOOLEAN] /\ None \notin Dirs
    BY StoreAssumption
  <2>2. \A x \in BOOLEAN : [draft |-> draft, whole |-> x] \in [draft: W!Draft, whole: BOOLEAN]
    OBVIOUS
  <2> QED BY <2>1, <2>2
<1>3. d.current # None => d.current \in have /\ d.current # n /\ d.work[d.current].whole
  BY <1>1 DEF Safe, CodeWhole, Occupied, Held
<1>4. half \in Works /\ full \in Works /\ left \in Works
  BY <1>1, SavingType
<1>5. /\ \A m \in Dirs : half[m] = IF m = n THEN [draft |-> draft, whole |-> FALSE] ELSE d.work[m]
      /\ \A m \in Dirs : full[m] = IF m = n THEN [draft |-> draft, whole |-> TRUE] ELSE d.work[m]
  BY <1>1 DEF Works1, Works
<1>6. \A m \in Dirs : left[m] = IF d.current # None /\ m = d.current THEN None ELSE full[m]
  BY <1>4 DEF WorksLeft, Works
<1> HIDE DEF half, full, left, n
<1>7. Held(half) = have \cup {n} /\ Held(full) = have \cup {n}
  BY <1>1, <1>2, <1>5 DEF Occupied, Held
<1>8. Held(left) = IF d.current = None THEN have \cup {n} ELSE (have \cup {n}) \ {d.current}
  BY <1>6, <1>7 DEF Held
<1>9. IsFiniteSet(have) /\ n \notin have /\ k \in Nat
  BY <1>1, DirsFinite DEF Occupied, Held
<1> HIDE DEF have
<1>10. Cardinality(have \cup {n}) = k + 1 /\ IsFiniteSet(have \cup {n})
  BY <1>9, FS_AddElement
<1>11. k <= stops + 1 /\ (d.current = None => k <= stops)
  BY <1>1, RoomFor DEF Safe, have
<1>12. Cardinality(Held(left)) <= stops + 1
  <2>1. CASE d.current = None
    BY <1>1, <1>8, <1>9, <1>10, <1>11, <2>1
  <2>2. CASE d.current # None
    <3>1. Cardinality((have \cup {n}) \ {d.current}) = k
      <4> DEFINE all == have \cup {n}
      <4>1. d.current \in all /\ IsFiniteSet(all) /\ Cardinality(all) = k + 1
        BY <1>3, <1>10, <2>2
      <4> HIDE DEF all
      <4>2. Cardinality(all \ {d.current}) = Cardinality(all) - 1
        BY <4>1, FS_RemoveElement
      <4> QED BY <1>9, <4>1, <4>2 DEF all
    <3> QED BY <1>1, <1>8, <1>9, <1>11, <2>2, <3>1
  <2> QED BY <2>1, <2>2
<1>13. full[n] # None /\ full[n].whole /\ left[n] # None /\ left[n].whole /\ n # None
  <2>1. full[n] = [draft |-> draft, whole |-> TRUE]
    BY <1>1, <1>5
  <2>2. left[n] = full[n]
    BY <1>1, <1>3, <1>6
  <2>3. [draft |-> draft, whole |-> TRUE] # None /\ [draft |-> draft, whole |-> TRUE].whole
    BY <1>2
  <2>4. n # None
    BY <1>1, <1>2
  <2> QED BY <2>1, <2>2, <2>3, <2>4
<1>14. ASSUME NEW e \in Saving(d, draft) PROVE CodeWhole(e) /\ Room(e, stops + 1)
  <2>1. \/ e.current = d.current /\ e.work \in {d.work, half, full}
        \/ e.current = n /\ e.work \in {full, left}
    BY DEF Saving, half, full, left, n
  <2>2. CASE e.current = d.current /\ e.work \in {d.work, half, full}
    <3>1. CodeWhole(e)
      BY <1>1, <1>3, <1>5, <2>2 DEF Safe, CodeWhole
    <3>2. Held(e.work) = have \/ Held(e.work) = have \cup {n}
      BY <1>7, <2>2 DEF have, Occupied
    <3>3. Cardinality(Held(e.work)) \in {k, k + 1}
      BY <1>10, <3>2
    <3>4. Cardinality(Occupied(e)) <= stops + 1 + 1
          /\ (e.current = None => Cardinality(Occupied(e)) <= stops + 1)
      BY <1>1, <1>9, <1>11, <2>2, <3>3 DEF Occupied
    <3> QED BY <1>1, <3>1, <3>4, RoomFor
  <2>3. CASE e.current = n /\ e.work \in {full, left}
    <3>1. CodeWhole(e) /\ e.current # None
      BY <1>13, <2>3 DEF CodeWhole
    <3>2. Cardinality(Held(full)) <= stops + 2 /\ Cardinality(Held(left)) <= stops + 2
      <4>1. Cardinality(Held(left)) \in Nat
        BY DirsFinite DEF Held
      <4> QED BY <1>1, <1>7, <1>9, <1>10, <1>11, <1>12, <4>1
    <3>3. Cardinality(Occupied(e)) <= stops + 1 + 1
      BY <1>1, <2>3, <3>2 DEF Occupied
    <3> QED BY <1>1, <3>1, <3>3, RoomFor
  <2> QED BY <2>1, <2>2, <2>3
<1>15. CodeWhole(CodeSavedTo(d, draft)) /\ Room(CodeSavedTo(d, draft), stops)
  <2> DEFINE f == CodeSavedTo(d, draft)
  <2>1. f.current = n /\ f.work = left
    BY <1>1, DiskIs DEF CodeSavedTo, left, n
  <2> HIDE DEF f
  <2>2. CodeWhole(f) /\ f.current # None
    BY <1>13, <2>1 DEF CodeWhole
  <2>3. Cardinality(Occupied(f)) <= stops + 1
    BY <1>12, <2>1 DEF Occupied
  <2>4. Room(f, stops)
    BY <1>1, <2>2, <2>3, RoomFor
  <2> QED BY <2>2, <2>4 DEF f
<1> QED BY <1>14, <1>15

-----------------------------------------------------------------------------
(* What a method may lose without harm *)

\* The link may go and the room is still there after one more stop.
LEMMA RoomGrows ==
  ASSUME NEW d, NEW e, NEW stops \in Nat, Room(d, stops), e.work = d.work
  PROVE  /\ Room(e, stops + 1)
         /\ e.current = d.current => Room(e, stops)
<1>1. Cardinality(Occupied(d)) \in Nat /\ Occupied(e) = Occupied(d)
  BY DirsFinite DEF Occupied, Held
<1>2. Cardinality(Occupied(e)) <= stops + 1 /\ Cardinality(Occupied(e)) <= stops + 1 + 1
  BY <1>1, RoomFor
<1>3. Room(e, stops + 1)
  BY <1>2, RoomFor
<1>4. e.current = d.current => Room(e, stops)
  BY <1>1 DEF Room
<1> QED BY <1>3, <1>4

\* With no template there is room.
LEMMA RoomEmpty ==
  ASSUME NEW e, NEW stops \in Nat, e.work = Nothing
  PROVE  Room(e, stops)
<1>1. Occupied(e) = {}
  BY DEF Occupied, Held, Nothing
<1>2. Cardinality({}) = 0
  BY FS_EmptySet
<1> QED BY <1>1, <1>2, RoomFor

\* What is good after some stops is good after one more.
LEMMA GoodGrows ==
  ASSUME NEW d, NEW stops \in Nat, Good(d, stops)
  PROVE  Good(d, stops + 1)
BY RoomGrows DEF Good, Safe

\* Of a release only files are lost.
LEMMA LosingReleased ==
  ASSUME NEW d \in Disk, NEW s \in 2..5, NEW e \in Losing(d, s)
  PROVE  e.released.parts \subseteq d.released.parts
         /\ (e.released.parts # {} => e.released.draft = d.released.draft)
<1>1. \/ e.released \in {d.released, NoRelease}
      \/ \E first \in Sides : e.released = [d.released EXCEPT !.parts = @ \ {first}]
  BY DEF Losing
<1>2. CASE e.released \in {d.released, NoRelease}
  BY <1>2 DEF NoRelease
<1>3. ASSUME NEW first \in Sides, e.released = [d.released EXCEPT !.parts = @ \ {first}]
      PROVE  e.released.parts \subseteq d.released.parts
             /\ (e.released.parts # {} => e.released.draft = d.released.draft)
  <2>1. DOMAIN d.released = {"draft", "parts"}
    BY DiskIs DEF Releases, NoRelease
  <2>2. e.released.parts = d.released.parts \ {first} /\ e.released.draft = d.released.draft
    BY <1>3, <2>1
  <2> QED BY <2>2
<1> QED BY <1>1, <1>2, <1>3

\* A stop in invalidate_downstream_artifacts leaves one directory at most.
LEMMA LosingSafe ==
  ASSUME NEW d, NEW stops \in Nat, Safe(d, stops), NEW s \in 2..5, NEW e \in Losing(d, s)
  PROVE  Safe(e, stops + 1)
<1>1. /\ e \in Disk /\ e.record = d.record
      /\ \/ e.current = d.current /\ e.work = d.work
         \/ e.current = None /\ e.work \in {d.work, Nothing}
      /\ e.batch \in {d.batch, None}
  BY DEF Losing
<1>2. d \in Disk /\ CodeWhole(d) /\ Room(d, stops) /\ Ahead(d)
  BY DEF Safe
<1>3. CodeWhole(e)
  BY <1>1, <1>2 DEF CodeWhole
<1>4. Room(e, stops + 1)
  BY <1>1, <1>2, RoomGrows, RoomEmpty
<1>5. e.released.parts \subseteq d.released.parts /\ (e.released.parts # {} => e.released.draft = d.released.draft)
  BY <1>2, LosingReleased
<1>6. Ahead(e)
  BY <1>1, <1>2, <1>5 DEF Ahead
<1> QED BY <1>1, <1>3, <1>4, <1>6 DEF Safe

\* Unless it is the release of a plan that stays.
LEMMA LosingTraced ==
  ASSUME NEW d \in Disk, NEW s \in 2..5, NEW e \in Losing(d, s), s = 4 => d.released.parts = {}
  PROVE  Traced(d, e)
<1> SUFFICES ASSUME d.plans[4] # None, e.plans = d.plans, Release(d) # None
    PROVE  e.released = d.released
  BY DEF Traced, Release
<1>1. s # 4
  BY DEF Release
<1>2. s \in {2, 3} => PlansUpTo(d, s)[4] = None
  BY DEF PlansUpTo
<1> QED BY <1>1, <1>2 DEF Losing

\* Nor does it leave a torn release, where the plans go first.
LEMMA LosingConf ==
  ASSUME NEW d \in Disk, Ahead(d), Conf(d), NEW s \in 2..5, NEW e \in Losing(d, s),
         s \in {3, 4} => d.record.stage < 5
  PROVE  Conf(e)
<1>1. s = 2 => PlansUpTo(d, s)[3] = None /\ PlansUpTo(d, s)[4] = None
  BY DEF PlansUpTo
<1>2. /\ e.record = d.record
      /\ e.plans \in {d.plans, PlansUpTo(d, s)} \/ (s = 2 /\ e.plans = OneGone(d))
  BY DEF Losing
<1>3. CASE s = 5
  <2>1. PlansUpTo(d, s) = d.plans
    BY <1>3 DEF PlansUpTo
  <2>2. e.released = d.released
    BY <1>3 DEF Losing
  <2>3. e.plans = d.plans
    BY <1>2, <1>3, <2>1
  <2> QED BY <1>2, <2>2, <2>3 DEF Conf
<1>4. CASE s = 2
  <2>1. CASE e.plans = PlansUpTo(d, s)
    BY <1>1, <1>4, <2>1 DEF Conf
  <2>2. CASE e.plans # PlansUpTo(d, s)
    <3>1. e.released = d.released
      BY <2>2 DEF Losing
    <3>2. e.plans[4] = d.plans[4] /\ (d.plans[3] = None => e.plans[3] = None)
      BY <1>2, <2>2 DEF OneGone
    <3> QED BY <1>2, <3>1, <3>2 DEF Conf
  <2> QED BY <1>2, <2>1, <2>2
<1>5. CASE s \in {3, 4}
  <2>1. d.released.parts = {} /\ d.record.st[5] # "passed"
    BY <1>5, Staged DEF Ahead
  <2>2. e.released.parts = {}
    BY <2>1, LosingReleased
  <2> QED BY <1>2, <2>1, <2>2 DEF Conf
<1> QED BY <1>3, <1>4, <1>5

\* Nor a manifest without its files, where the stage keeps them apart.
LEMMA LosingPack ==
  ASSUME NEW d \in Disk, Ahead(d), Pack(d), NEW s \in 2..5, NEW e \in Losing(d, s),
         s \in {3, 4} => d.record.stage < 5, s # 2 => ~d.record.ready
  PROVE  Pack(e)
<1>1. /\ e.record = d.record /\ e.source = d.source /\ e.input = d.input
      /\ e.batch = d.batch \/ e.batch = None
      /\ e.data = d.data \/ e.batch = None
  BY DEF Losing
<1>2. CASE s \in {3, 4}
  <2>1. e.batch = None
    BY <1>1, <1>2 DEF Ahead
  <2> QED BY <1>1, <1>2, <2>1 DEF Pack
<1>3. CASE s = 5
  <2>1. e.plans = d.plans
    BY <1>3 DEF Losing, PlansUpTo
  <2> QED BY <1>1, <1>3, <2>1 DEF Pack
<1>4. CASE s = 2
  <2>1. e.plans[4] \in {d.plans[4], None}
    <3>1. OneGone(d)[4] = d.plans[4] /\ PlansUpTo(d, 2)[4] = None
      BY DEF OneGone, PlansUpTo
    <3> QED BY <1>4, <3>1 DEF Losing
  <2>2. Shut(d) => Shut(e)
    <3>1. e.current \in {d.current, None}
      BY DEF Losing
    <3>2. e.released.parts \subseteq d.released.parts
      BY LosingReleased
    <3> QED BY <3>1, <3>2 DEF Shut
  <2>3. e.batch = None => d.batch = None \/ Shut(e)
    <3>1. Emptied(d).parts = {}
      BY DEF Emptied, NoRelease
    <3> QED BY <1>4, <3>1 DEF Losing, Shut
  <2> QED BY <1>1, <2>1, <2>2, <2>3 DEF Pack
<1> QED BY <1>2, <1>3, <1>4

\* What invalidate_downstream_artifacts leaves.
LEMMA InvalidatedFacts ==
  ASSUME NEW d \in Disk, NEW s \in 2..5
  PROVE  LET f == InvalidatedTo(d, s) IN
         /\ f \in Disk
         /\ f.source = d.source /\ f.input = d.input /\ f.record = d.record /\ f.history = d.history
         /\ f.plans = PlansUpTo(d, s) /\ f.batch = None /\ f.projection = Place(f)
         /\ s = 5 => f.current = d.current /\ f.work = d.work /\ f.released = d.released
         /\ s # 5 => f.current = None /\ f.work = Nothing /\ f.released.parts = {}
         /\ f.data = IF d.data.tests = {} THEN d.data ELSE NoData
<1> DEFINE c == CutTo(d, s)
           p == [c EXCEPT !.projection = Place(c), !.batch = None]
           f == InvalidatedTo(d, s)
<1>1. /\ c \in Disk /\ c.source = d.source /\ c.input = d.input /\ c.record = d.record
      /\ c.history = d.history /\ c.plans = PlansUpTo(d, s) /\ c.batch = d.batch /\ c.data = d.data
      /\ (s = 5 => c = d)
      /\ (s # 5 => c.current = None /\ c.work = Nothing /\ c.released = Emptied(d))
  <2>1. c \in Disk
    <3>1. "json" \in Sides
      BY DEF Sides
    <3> QED BY <3>1, CutLeads
  <2>2. CASE s = 5
    BY <2>1, <2>2 DEF CutTo, PlansUpTo
  <2>3. CASE s # 5
    BY <2>1, <2>3, DiskIs DEF CutTo
  <2> QED BY <2>2, <2>3
<1>2. Emptied(d).parts = {}
  BY DEF Emptied, NoRelease
<1> HIDE DEF c
<1>3. Place(c) \in Projections
  BY DEF Place, Projections
<1>4. /\ p \in Disk /\ p.source = c.source /\ p.input = c.input /\ p.record = c.record
      /\ p.history = c.history /\ p.plans = c.plans /\ p.batch = None /\ p.data = c.data
      /\ p.current = c.current /\ p.work = c.work /\ p.released = c.released /\ p.projection = Place(c)
  BY <1>1, <1>3, DiskIs DEF Projections
<1>5. f = IF p.data.tests = {} THEN p ELSE [p EXCEPT !.data = NoData]
  BY DEF InvalidatedTo, DataCleared0, c
<1> HIDE DEF p, f
<1>6. /\ f.source = p.source /\ f.input = p.input /\ f.record = p.record
      /\ f.history = p.history /\ f.plans = p.plans /\ f.batch = None
      /\ f.current = p.current /\ f.work = p.work /\ f.released = p.released /\ f.projection = p.projection
      /\ f.data = IF d.data.tests = {} THEN d.data ELSE NoData
      /\ f \in Disk
  <2>1. NoData \in DataSets
    BY HandlingType
  <2>2. CASE p.data.tests = {}
    BY <1>1, <1>4, <1>5, <2>2
  <2>3. CASE p.data.tests # {}
    BY <1>1, <1>4, <1>5, <2>1, <2>3, DiskIs
  <2> QED BY <2>2, <2>3
<1>7. Place(f) = Place(c)
  BY <1>4, <1>6 DEF Place, Release
<1>8. /\ s = 5 => f.current = d.current /\ f.work = d.work /\ f.released = d.released
      /\ s # 5 => f.current = None /\ f.work = Nothing /\ f.released.parts = {}
  BY <1>1, <1>2, <1>4, <1>6
<1>9. /\ f.source = d.source /\ f.input = d.input /\ f.record = d.record /\ f.history = d.history
      /\ f.plans = PlansUpTo(d, s) /\ f.projection = Place(f)
  BY <1>1, <1>4, <1>6, <1>7
<1> QED BY <1>6, <1>8, <1>9 DEF f

\* The start of the process changes the record alone.
LEMMA RestartedGood ==
  ASSUME NEW d, NEW stops \in Nat, Good(d, stops)
  PROVE  Good(Restarted(d), stops) /\ \A x : Traced(x, d) => Traced(x, Restarted(d))
<1> DEFINE r == W!ChecksRecovered(d.record)
           e == Restarted(d)
<1>1. d \in Disk /\ Sound(d.record)
  BY DEF Good, Safe, Ahead
<1>2. /\ Sound(r) /\ r.stage = d.record.stage /\ r.compiled = d.record.compiled /\ r.ready = d.record.ready
      /\ (r.st[5] = "passed" <=> d.record.st[5] = "passed") /\ r.subRev = d.record.subRev
  BY <1>1, Recovered
<1> HIDE DEF r
<1>3. e \in Disk /\ e.record = r
  BY <1>1, <1>2, DiskIs DEF Restarted, Sound, r
<1>4. /\ e.source = d.source /\ e.input = d.input /\ e.plans = d.plans /\ e.work = d.work
      /\ e.current = d.current /\ e.released = d.released /\ e.history = d.history
      /\ e.batch = d.batch /\ e.data = d.data
  BY <1>1, DiskIs DEF Restarted
<1> HIDE DEF e
<1>5. CodeWhole(e) /\ Room(e, stops)
  BY <1>4, RoomGrows DEF Good, Safe, CodeWhole
<1>6. Ahead(e)
  BY <1>2, <1>3, <1>4 DEF Good, Safe, Ahead
<1>7. Conf(d) => Conf(e)
  BY <1>2, <1>3, <1>4 DEF Conf
<1>8. Pack(d) => Pack(e)
  BY <1>2, <1>3, <1>4 DEF Pack, Shut
<1>9. \A x : Traced(x, d) => Traced(x, e)
  BY <1>4 DEF Traced, Release
<1> QED BY <1>3, <1>5, <1>6, <1>7, <1>8, <1>9 DEF Good, Safe, e

-----------------------------------------------------------------------------
(* A method that runs to its end, or stops *)

\* What a step has to show.
Kept ==
  /\ crashes' \in 0 .. MaxCrashes /\ Good(disk', crashes')
  /\ 4 \notin disk.record.threads => Traced(disk, disk')

\* A run of a method whose every stop is good keeps the invariant.
LEMMA Moves ==
  ASSUME disk \in Disk, crashes \in 0 .. MaxCrashes, NEW m, NEW ops, NEW f,
         Run(m, ops), Leads(Way(m), disk, ops, f), Good(f, crashes),
         4 \notin disk.record.threads => Traced(disk, f)
  PROVE  Kept
<1>1. MaxCrashes \in Nat /\ crashes \in Nat
  BY DirsFinite
<1>2. CASE disk' = After(disk, ops) /\ UNCHANGED crashes
  <2>1. disk' = f
    BY <1>2, LeadsEnds
  <2> QED BY <1>2, <2>1 DEF Kept
<1>3. CASE /\ m \in Crashing /\ crashes < MaxCrashes
           /\ \E k \in 0 .. Len(ops) - 1 : disk' = Restarted(After(disk, SubSeq(ops, 1, k)))
           /\ crashes' = crashes + 1
  <2>1. PICK k \in 0 .. Len(ops) - 1 : disk' = Restarted(After(disk, SubSeq(ops, 1, k)))
    BY <1>3
  <2>2. k \in 0 .. Len(ops)
    <3>1. Len(ops) \in Nat
      BY LeadsEnds, SeqFacts
    <3> QED BY <3>1
  <2>3. After(disk, SubSeq(ops, 1, k)) \in Way(m)
    BY <2>2 DEF Leads
  <2> DEFINE e == After(disk, SubSeq(ops, 1, k))
  <2> HIDE DEF e
  <2>4. Good(e, crashes + 1) /\ (4 \notin disk.record.threads => Traced(disk, e))
    BY <1>3, <2>3 DEF Way, e
  <2>5. Good(Restarted(e), crashes + 1) /\ (4 \notin disk.record.threads => Traced(disk, Restarted(e)))
    BY <1>1, <2>4, RestartedGood
  <2>6. crashes' \in 0 .. MaxCrashes
    BY <1>1, <1>3
  <2> QED BY <1>3, <2>1, <2>5, <2>6 DEF Kept, e
<1> QED BY <1>2, <1>3 DEF Run

\* The record is saved last.
LEMMA SavedLeads ==
  ASSUME NEW S \in SUBSET Disk, NEW d, NEW ops, NEW e, Leads(S, d, ops, e),
         NEW r, [e EXCEPT !.record = r] \in S
  PROVE  Leads(S, d, ops \o Saved(r), [e EXCEPT !.record = r])
<1>1. e \in S
  BY LeadsEnds
<1>2. Leads(S, e, Saved(r), [e EXCEPT !.record = r])
  BY <1>1, Writes DEF Saved
<1> QED BY <1>2, LeadsOn

\* e is d but for the code draft, the links and the history.
LEMMA GoodStays ==
  ASSUME NEW d, NEW stops \in Nat, Good(d, stops), NEW e \in Disk, NEW later \in Nat,
         e.source = d.source, e.input = d.input, e.record = d.record, e.plans = d.plans,
         e.released = d.released, e.batch = d.batch, e.data = d.data,
         CodeWhole(e), Room(e, later)
  PROVE  /\ Fair(e, later) /\ Traced(d, e)
         /\ ~d.record.ready \/ e.current \in {d.current, None} => Good(e, later)
<1>1. Safe(e, later)
  BY DEF Good, Safe, Ahead
<1>2. Conf(d) => Conf(e)
  BY DEF Conf
<1>3. Traced(d, e)
  BY DEF Traced, Release
<1>4. ~d.record.ready \/ e.current \in {d.current, None} => (Pack(d) => Pack(e))
  BY DEF Pack, Shut
<1> QED BY <1>1, <1>2, <1>3, <1>4 DEF Good, Fair

\* save_code_draft, stopped anywhere, leaves a good directory, unless there is an export to come.
LEMMA SavingGood ==
  ASSUME NEW d, NEW stops \in 0 .. MaxCrashes, Good(d, stops), NEW draft \in W!Draft
  PROVE  /\ Leads(Saving(d, draft), d, CodeSaved(d, draft), CodeSavedTo(d, draft))
         /\ \A e \in Saving(d, draft) :
              Fair(e, stops + 1) /\ Traced(d, e) /\ (~d.record.ready => Good(e, stops + 1))
         /\ Fair(CodeSavedTo(d, draft), stops) /\ Traced(d, CodeSavedTo(d, draft))
         /\ ~d.record.ready => Good(CodeSavedTo(d, draft), stops)
<1> DEFINE f == CodeSavedTo(d, draft)
<1>1. stops \in Nat /\ Safe(d, stops) /\ d \in Disk
  BY DirsFinite DEF Good, Safe
<1>2. Leads(Saving(d, draft), d, CodeSaved(d, draft), f)
  BY <1>1, NewExists, CodeSavedLeads
<1>3. f \in Saving(d, draft)
  BY <1>2, LeadsEnds
<1>4. \A e \in Saving(d, draft) : CodeWhole(e) /\ Room(e, stops + 1)
  BY <1>1, SavingRoom
<1>5. CodeWhole(f) /\ Room(f, stops)
  BY <1>1, SavingRoom
<1> HIDE DEF f
<1>6. ASSUME NEW e \in Saving(d, draft), NEW later \in Nat, CodeWhole(e), Room(e, later)
      PROVE  Fair(e, later) /\ Traced(d, e) /\ (~d.record.ready => Good(e, later))
  <2>1. e \in Disk /\ e = [d EXCEPT !.work = e.work, !.current = e.current, !.projection = e.projection]
    BY DEF Saving, OnlyCode
  <2>2. /\ e.source = d.source /\ e.input = d.input /\ e.record = d.record /\ e.plans = d.plans
        /\ e.released = d.released /\ e.batch = d.batch /\ e.data = d.data
    BY <1>1, <2>1, DiskIs
  <2> QED BY <1>1, <1>6, <2>1, <2>2, GoodStays
<1> QED BY <1>1, <1>2, <1>3, <1>4, <1>5, <1>6 DEF f

\* Of the draft of the code alone.
LEMMA ClearingGood ==
  ASSUME NEW d, NEW stops \in 0 .. MaxCrashes, Good(d, stops)
  PROVE  /\ \A e \in Clearing(d, 5) : Good(e, stops + 1) /\ Traced(d, e)
         /\ Good(ClearedTo(d, 5), stops) /\ Traced(d, ClearedTo(d, 5))
<1> DEFINE f == ClearedTo(d, 5)
<1>1. stops \in Nat /\ Safe(d, stops) /\ d \in Disk
  BY DirsFinite DEF Good, Safe
<1>2. f \in Clearing(d, 5)
  BY <1>1, ClearedLeads, LeadsEnds
<1>3. f.work = Nothing /\ f.current = None
  BY <1>1, DiskIs DEF ClearedTo
<1> HIDE DEF f
<1>4. ASSUME NEW e \in Clearing(d, 5), NEW later \in Nat, Room(e, later)
      PROVE  Good(e, later) /\ Traced(d, e)
  <2>1. e \in Disk /\ e = [d EXCEPT !.plans = e.plans, !.current = e.current, !.work = e.work,
                      !.projection = e.projection]
    BY DEF Clearing
  <2>2. /\ e.source = d.source /\ e.input = d.input /\ e.record = d.record
        /\ e.released = d.released /\ e.batch = d.batch /\ e.data = d.data
    BY <1>1, <2>1, DiskIs
  <2>3. e.plans = d.plans
    BY DEF Clearing, PlansBefore
  <2>4. CodeWhole(e) /\ e.current \in {d.current, None}
    BY <1>1 DEF Clearing, CodeWhole, Safe
  <2> QED BY <1>1, <1>4, <2>1, <2>2, <2>3, <2>4, GoodStays
<1>5. \A e \in Clearing(d, 5) : Room(e, stops + 1)
  BY <1>1, RoomGrows, RoomEmpty DEF Clearing, Safe
<1>6. Room(f, stops)
  BY <1>1, <1>3, RoomEmpty
<1> QED BY <1>1, <1>2, <1>4, <1>5, <1>6 DEF f

\* Of a draft that was checked against the plan there is.
LEMMA FreezingGood ==
  ASSUME NEW d, NEW stops \in Nat, Good(d, stops), d.record.st[5] = "waiting_user",
         Draft5(d) # None, Draft5(d).subRev = d.record.subRev, NEW e \in Freezing(d)
  PROVE  Good(e, stops) /\ Traced(d, e)
<1>1. /\ d \in Disk /\ e \in Disk /\ Sound(d.record)
      /\ e = [d EXCEPT !.released = e.released, !.history = e.history, !.projection = e.projection]
  BY DEF Freezing, Good, Safe, Ahead
<1>2. /\ e.source = d.source /\ e.input = d.input /\ e.record = d.record /\ e.plans = d.plans
      /\ e.work = d.work /\ e.current = d.current /\ e.batch = d.batch /\ e.data = d.data
  BY <1>1, DiskIs
<1>3. d.record.stage = 5
  BY <1>1, InWait
<1>4. CASE e.released = d.released
  <2>1. CodeWhole(e) /\ Room(e, stops)
    BY <1>2, RoomGrows DEF Good, Safe, CodeWhole
  <2> QED BY <1>1, <1>2, <1>4, <2>1, GoodStays
<1>5. CASE e.history = Archive(d) /\ e.released \in {NoRelease, Snapshot(d)}
  <2>1. CodeWhole(e) /\ Room(e, stops)
    BY <1>2, RoomGrows DEF Good, Safe, CodeWhole
  <2>2. e.released.parts \in {{}, Sides} /\ (e.released.parts # {} => e.released.draft = Draft5(d))
    BY <1>5 DEF NoRelease, Snapshot
  <2>3. Ahead(e)
    BY <1>2, <1>3, <2>2 DEF Good, Safe, Ahead
  <2>4. Conf(e)
    BY <1>2, <2>2 DEF Conf
  <2>5. Pack(d) => Pack(e)
    <3>1. ~d.record.ready
      BY <1>1, <1>3, Staged
    <3> QED BY <1>2, <3>1 DEF Pack
  <2>6. Traced(d, e)
    BY <1>5 DEF Traced, Archive
  <2> QED BY <1>1, <2>1, <2>3, <2>4, <2>5, <2>6 DEF Good, Safe
<1> QED BY <1>4, <1>5 DEF Freezing

\* What is no content is none of the others.
LEMMA Contained ==
  /\ \A s \in 3..5 : Texts(s) \subseteq Contents
  /\ None \notin Contents /\ None \notin W!Draft /\ None \notin W!Batch /\ None \notin Dirs
BY StoreAssumption DEF Texts

\* The content of a stage.
LEMMA ContentIs ==
  ASSUME NEW d \in Disk
  PROVE  /\ W!Content(Abstract(d), 3) = IF d.plans[3] = None THEN None ELSE d.plans[3].c
         /\ W!Content(Abstract(d), 4) = IF d.plans[4] = None THEN None ELSE d.plans[4].c
         /\ W!Content(Abstract(d), 5) = IF Draft5(d) = None THEN None ELSE Draft5(d).c
BY DEF W!Content, Abstract

\* What a stage saves is a draft.
LEMMA DraftType ==
  ASSUME disk \in Disk, NEW s \in 3..5, NEW c \in Contents,
         NEW in \in Nat \cup {None}, NEW sub \in Nat \cup {None}
  PROVE  Draft(s, c, in, sub) \in W!Draft
<1>1. W!Upstream(Abstract(disk), s) \in Contents \cup {None}
  <2>1. disk.plans \in Plans
    BY DiskIs
  <2>2. \A t \in {3, 4} : disk.plans[t] # None => disk.plans[t].c \in Contents
    BY <2>1 DEF Plans, W!Draft
  <2>3. s - 1 = 2 \/ s - 1 = 3 \/ s - 1 = 4
    OBVIOUS
  <2> QED BY <2>2, <2>3, ContentIs DEF W!Upstream
<1>2. disk.input.src \in Sources
  BY DiskIs DEF W!GlobalInput
<1> QED BY <1>1, <1>2 DEF Draft, W!Draft

-----------------------------------------------------------------------------
(* Every action leaves a directory that is sound *)

\* The inductive invariant.
IndInv == crashes \in 0 .. MaxCrashes /\ Good(disk, crashes)

\* A record that goes with what the directory has.
LEMMA RecordGood ==
  ASSUME NEW d, NEW stops \in Nat, Good(d, stops), NEW r, Sound(r),
         r.stage < 5 => d.released.parts = {} /\ d.batch = None,
         d.released.parts # {} => r.subRev = d.record.subRev,
         NoDraftStops /\ r.st[5] = "passed" /\ d.plans[4] # None => d.released.parts = Sides,
         NoEditStops /\ r.compiled => d.source \in GoodSources,
         NoEditStops /\ r.ready /\ d.batch = None => Shut(d)
  PROVE  /\ Good([d EXCEPT !.record = r], stops)
         /\ \A x : Traced(x, d) => Traced(x, [d EXCEPT !.record = r])
<1> DEFINE e == [d EXCEPT !.record = r]
<1>1. d \in Disk
  BY DEF Good, Safe
<1>2. /\ e \in Disk /\ e.source = d.source /\ e.input = d.input /\ e.record = r /\ e.plans = d.plans
      /\ e.released = d.released /\ e.batch = d.batch /\ e.data = d.data /\ e.work = d.work
      /\ e.current = d.current /\ e.history = d.history
  BY <1>1, DiskIs DEF Sound
<1> HIDE DEF e
<1>3. CodeWhole(e) /\ Room(e, stops)
  BY <1>2, RoomGrows DEF Good, Safe, CodeWhole
<1>4. Ahead(e)
  BY <1>2 DEF Good, Safe, Ahead
<1>5. NoDraftStops => Conf(e)
  BY <1>2 DEF Good, Conf
<1>6. NoEditStops => Pack(e)
  BY <1>2 DEF Good, Pack, Shut
<1>7. \A x : Traced(x, d) => Traced(x, e)
  BY <1>2 DEF Traced, Release
<1> QED BY <1>2, <1>3, <1>4, <1>5, <1>6, <1>7 DEF Good, Safe, e

\* What was invalidated goes with a record that is back at that stage.
LEMMA InvalidatedGood ==
  ASSUME NEW d \in Disk, NEW stops \in Nat, CodeWhole(d), Room(d, stops), NEW s \in 2..5,
         NEW r, Sound(r), ~r.ready, r.st[5] # "passed",
         s = 5 => /\ r.stage >= 5
                  /\ d.released.parts # {} => d.released.draft.subRev = r.subRev
                  /\ NoDraftStops => Conf(d),
         NoEditStops => d.source = d.input.src /\ (r.compiled => d.source \in GoodSources)
  PROVE  LET g == [InvalidatedTo(d, s) EXCEPT !.record = r] IN
         Good(g, stops) /\ g.plans = PlansUpTo(d, s) /\ (s = 5 => g.released = d.released)
<1> DEFINE f == InvalidatedTo(d, s)
           g == [f EXCEPT !.record = r]
<1>1. /\ f \in Disk
      /\ f.source = d.source /\ f.input = d.input
      /\ f.plans = PlansUpTo(d, s) /\ f.batch = None
      /\ s = 5 => f.current = d.current /\ f.work = d.work /\ f.released = d.released
      /\ s # 5 => f.current = None /\ f.work = Nothing /\ f.released.parts = {}
  BY InvalidatedFacts
<1> HIDE DEF f
<1>2. /\ g \in Disk /\ g.source = d.source /\ g.input = d.input /\ g.record = r
      /\ g.plans = f.plans /\ g.batch = None
      /\ g.current = f.current /\ g.work = f.work /\ g.released = f.released
  BY <1>1, DiskIs DEF Sound
<1> HIDE DEF g
<1>3. CodeWhole(g)
  BY <1>1, <1>2 DEF CodeWhole
<1>4. Room(g, stops)
  BY <1>1, <1>2, RoomGrows, RoomEmpty
<1>5. Ahead(g)
  <2>1. r.stage \in 2..8
    BY Staged
  <2> QED BY <1>1, <1>2, <2>1 DEF Ahead
<1>6. NoDraftStops => Conf(g)
  <2>1. s = 5 => g.plans = d.plans
    BY <1>1, <1>2 DEF PlansUpTo
  <2> QED BY <1>1, <1>2, <2>1 DEF Conf
<1>7. NoEditStops => Pack(g)
  BY <1>1, <1>2 DEF Pack
<1> QED BY <1>1, <1>2, <1>3, <1>4, <1>5, <1>6, <1>7 DEF Good, Safe, f, g

\* So a method may stop in it.
LEMMA LosingWay ==
  ASSUME crashes \in Nat, NEW m, NEW b \in Disk, NEW s \in 2..5,
         m \in Crashing =>
           /\ Safe(b, crashes)
           /\ NoDraftStops => Conf(b) /\ (s \in {3, 4} => b.record.stage < 5)
           /\ NoEditStops => Pack(b) /\ (s # 2 => ~b.record.ready)
           /\ \A e \in Losing(b, s) : 4 \notin disk.record.threads => Traced(disk, e)
  PROVE  Losing(b, s) \subseteq Way(m)
<1> SUFFICES ASSUME NEW e \in Losing(b, s), m \in Crashing PROVE Good(e, crashes + 1)
  BY DEF Losing, Way
<1>1. Ahead(b)
  BY DEF Safe
<1>2. Safe(e, crashes + 1)
  BY LosingSafe
<1>3. NoDraftStops => Conf(e)
  BY <1>1, LosingConf
<1>4. NoEditStops => Pack(e)
  <2>1. CASE NoDraftStops
    BY <1>1, <2>1, LosingPack
  <2>2. CASE ~NoDraftStops
    BY <2>2 DEF NoDraftStops, NoEditStops
  <2> QED BY <2>1, <2>2
<1> QED BY <1>2, <1>3, <1>4 DEF Good

\* Where a method begins, and where it ends.
LEMMA WayEnds ==
  ASSUME IndInv, NEW m
  PROVE  /\ disk \in Way(m) /\ Way(m) \in SUBSET Disk /\ Traced(disk, disk) /\ crashes \in Nat
         /\ \A f : Good(f, crashes) /\ (4 \notin disk.record.threads => Traced(disk, f)) => f \in Way(m)
<1>1. crashes \in Nat /\ Traced(disk, disk)
  BY DirsFinite DEF IndInv, Traced
<1>2. \A f : Good(f, crashes) => Good(f, crashes + 1) /\ f \in Disk
  BY <1>1, GoodGrows DEF Good, Safe
<1> QED BY <1>1, <1>2 DEF Way, IndInv

\* update_solution
LEMMA UpdateSolutionKeeps ==
  ASSUME IndInv, NEW src \in Sources, UpdateSolution(src)
  PROVE  Kept
<1> DEFINE in == [src |-> src, rev |-> disk.input.rev + 1]
           r == W!SolutionUpdated(disk.record, in.rev)
           d1 == [disk EXCEPT !.source = src]
           d2 == [d1 EXCEPT !.input = in]
           S == Way("solution")
           f == [InvalidatedTo(d2, 2) EXCEPT !.record = r]
<1>1. PICK first \in Sides :
        Run("solution", <<[source |-> src], [input |-> in]>> \o Invalidated(disk, 2, first) \o Saved(r))
  BY DEF UpdateSolution
<1>2. /\ disk \in Disk /\ Safe(disk, crashes) /\ Sound(disk.record) /\ disk.input \in W!GlobalInput
      /\ disk \in S /\ S \in SUBSET Disk /\ crashes \in Nat
      /\ \A x : Good(x, crashes) /\ Traced(disk, x) => x \in S
  BY WayEnds, DiskIs DEF IndInv, Good, Safe, Ahead
<1>3. in \in W!GlobalInput /\ in.src = src /\ in.rev \in Nat
  BY <1>2 DEF W!GlobalInput
<1> HIDE DEF in
<1>4. /\ d1 \in Disk /\ d2 \in Disk /\ d2.source = src /\ d2.input = in
      /\ \A e \in {d1, d2} : /\ e.record = disk.record /\ e.plans = disk.plans /\ e.work = disk.work
                             /\ e.current = disk.current /\ e.released = disk.released
                             /\ e.projection = disk.projection /\ e.batch = disk.batch
                             /\ e.data = disk.data /\ e.history = disk.history
  BY <1>2, <1>3, DiskIs
<1>5. \A e \in {d1, d2} : e \in Disk /\ Safe(e, crashes) /\ (NoDraftStops => Conf(e)) /\ Traced(disk, e)
  <2> HIDE DEF d1, d2
  <2>1. \A e \in {d1, d2} : CodeWhole(e) /\ Room(e, crashes)
    BY <1>2, <1>4, RoomGrows DEF Safe, CodeWhole
  <2>2. \A e \in {d1, d2} : Ahead(e)
    BY <1>2, <1>4 DEF Safe, Ahead
  <2>3. NoDraftStops => \A e \in {d1, d2} : Conf(e)
    BY <1>4 DEF IndInv, Good, Conf
  <2>4. \A e \in {d1, d2} : Traced(disk, e)
    BY <1>4 DEF Traced, Release
  <2> QED BY <1>4, <2>1, <2>2, <2>3, <2>4 DEF Safe
<1>6. Sound(r) /\ r.stage = 2 /\ ~r.compiled /\ ~r.ready /\ r.st[5] = "draft"
  BY <1>2, <1>3, Edited
<1> HIDE DEF r
<1>7. d1 \in S /\ d2 \in S
  <2> HIDE DEF d1, d2
  <2>1. "solution" \in Crashing => ~NoEditStops
    BY DEF NoEditStops
  <2>2. \A e \in {d1, d2} : "solution" \in Crashing => Good(e, crashes)
    BY <1>5, <2>1 DEF Good
  <2>3. \A e \in {d1, d2} : "solution" \in Crashing => Good(e, crashes + 1)
    BY <1>2, <2>2, GoodGrows
  <2> QED BY <1>5, <2>3 DEF Way
<1>8. Losing(d2, 2) \subseteq S
  <2>1. \A e \in Losing(d2, 2) : Traced(disk, e)
    <3>1. \A e \in Losing(d2, 2) : Traced(d2, e)
      BY <1>4, LosingTraced
    <3> QED BY <1>4, <3>1 DEF Traced, Release
  <2>2. "solution" \in Crashing => ~NoEditStops
    BY DEF NoEditStops
  <2> HIDE DEF d2
  <2> QED BY <1>2, <1>5, <2>1, <2>2, LosingWay
<1>9. Good(f, crashes) /\ Traced(disk, f)
  <2>1. Good(f, crashes) /\ f.plans = PlansUpTo(d2, 2)
    <3> HIDE DEF d2
    <3> QED BY <1>2, <1>3, <1>4, <1>5, <1>6, InvalidatedGood DEF Safe
  <2>2. f.plans[4] = None
    BY <2>1 DEF PlansUpTo
  <2> QED BY <2>1, <2>2 DEF Traced
<1> HIDE DEF f
<1>10. Leads(S, disk, <<[source |-> src]>>, d1)
  BY <1>2, <1>7, Writes
<1>11. Leads(S, d1, <<[input |-> in]>>, d2)
  BY <1>2, <1>7, Writes
<1>12. Leads(S, d2, Invalidated(disk, 2, first), InvalidatedTo(d2, 2))
  <2>1. Invalidated(disk, 2, first) = Invalidated(d2, 2, first)
    <3> HIDE DEF d1, d2
    <3> QED BY <1>2, <1>4, InvalidatedSame
  <2> QED BY <1>4, <1>8, <2>1, InvalidatedLeads, LeadsWider
<1> HIDE DEF d1, d2, S
<1>13. Leads(S, disk, <<[source |-> src], [input |-> in]>>, d2)
  BY <1>10, <1>11, LeadsOn, Joined
<1>14. Leads(S, disk, <<[source |-> src], [input |-> in]>> \o Invalidated(disk, 2, first), InvalidatedTo(d2, 2))
  BY <1>12, <1>13, LeadsOn
<1>15. Leads(S, disk, <<[source |-> src], [input |-> in]>> \o Invalidated(disk, 2, first) \o Saved(r), f)
  BY <1>2, <1>9, <1>14, SavedLeads DEF f
<1> QED BY <1>1, <1>2, <1>9, <1>15, Moves DEF IndInv, S

\* IndInv, taken apart.
LEMMA Now ==
  ASSUME IndInv
  PROVE  /\ disk \in Disk /\ crashes \in Nat /\ crashes \in 0 .. MaxCrashes
         /\ Good(disk, crashes) /\ Safe(disk, crashes) /\ CodeWhole(disk) /\ Room(disk, crashes)
         /\ Ahead(disk) /\ Sound(disk.record)
         /\ disk.record.stage \in 2..8 /\ disk.record.subRev \in Nat /\ disk.record.inRev \in Nat
         /\ disk.input \in W!GlobalInput /\ disk.input.rev \in Nat
         /\ (NoDraftStops => Conf(disk)) /\ (NoEditStops => Pack(disk))
<1>1. disk \in Disk /\ Safe(disk, crashes) /\ Ahead(disk) /\ Sound(disk.record)
  BY DEF IndInv, Good, Safe, Ahead
<1>2. disk.input \in W!GlobalInput /\ disk.record \in W!ProjectRecord
  BY <1>1, DiskIs
<1>3. disk.input.rev \in Nat /\ disk.record.inRev \in Nat
  BY <1>2 DEF W!GlobalInput, W!ProjectRecord
<1> QED BY <1>1, <1>2, <1>3, WayEnds, Staged DEF IndInv, Good, Safe

\* A method that saves the record and nothing else.
LEMMA RecordKeeps ==
  ASSUME IndInv, NEW m, NEW r, Run(m, Saved(r)) \/ Run(m, <<>> \o Saved(r)),
         Good([disk EXCEPT !.record = r], crashes)
  PROVE  Kept
<1> DEFINE S == Way(m)
           f == [disk EXCEPT !.record = r]
<1>1. disk \in Disk /\ IsDirectory(disk) /\ disk \in S /\ S \in SUBSET Disk
  BY Now, WayEnds, Entries
<1>2. Traced(disk, f)
  BY <1>1, DiskIs DEF Traced, Release
<1>3. f \in S
  BY <1>2, WayEnds
<1> HIDE DEF S
<1>4. Leads(S, disk, Saved(r), f)
  BY <1>1, <1>3, Writes DEF Saved
<1>5. Leads(S, disk, <<>> \o Saved(r), f)
  BY <1>1, <1>4, LeadsNowhere, LeadsOn
<1> HIDE DEF f
<1> QED BY <1>2, <1>4, <1>5, Now, Moves DEF S, f

\* One that saves it twice.
LEMMA RecordKeepsTwice ==
  ASSUME IndInv, NEW m, NEW b, NEW r, Run(m, <<>> \o (Saved(b) \o Saved(r))),
         Good([disk EXCEPT !.record = b], crashes), Good([disk EXCEPT !.record = r], crashes)
  PROVE  Kept
<1> DEFINE S == Way(m)
           e == [disk EXCEPT !.record = b]
           f == [disk EXCEPT !.record = r]
<1>1. disk \in Disk /\ IsDirectory(disk) /\ disk \in S /\ S \in SUBSET Disk
  BY Now, WayEnds, Entries
<1>2. Traced(disk, e) /\ Traced(disk, f)
  BY <1>1, DiskIs DEF Traced, Release
<1>3. e \in S /\ f \in S /\ f = [e EXCEPT !.record = r]
  BY <1>1, <1>2, WayEnds, DiskIs
<1> HIDE DEF S
<1>4. Leads(S, disk, Saved(b), e)
  BY <1>1, <1>3, Writes DEF Saved
<1>5. Leads(S, e, Saved(r), f)
  <2> HIDE DEF e
  <2> QED BY <1>1, <1>3, Writes DEF Saved
<1>6. Leads(S, disk, <<>> \o (Saved(b) \o Saved(r)), f)
  <2>1. Leads(S, disk, <<>>, disk)
    BY <1>1, LeadsNowhere
  <2> HIDE DEF e, f
  <2> QED BY <1>4, <1>5, <2>1, LeadsOn
<1> HIDE DEF f
<1> QED BY <1>2, <1>6, Now, Moves DEF S, f

\* run_stage
LEMMA RunStageKeeps ==
  ASSUME IndInv, NEW s \in 3..5, RunStage(s)
  PROVE  Kept
<1> DEFINE r == W!BeginCheck(disk.record, s)
<1>1. /\ Sound(r) /\ r.stage = disk.record.stage /\ r.compiled = disk.record.compiled /\ ~r.ready
      /\ r.st[5] # "passed" /\ r.subRev = disk.record.subRev
  BY Now, CheckBegun DEF RunStage
<1>2. Run("check", Saved(r))
  BY DEF RunStage
<1> HIDE DEF r
<1>3. Good([disk EXCEPT !.record = r], crashes)
  BY <1>1, Now, RecordGood DEF Ahead, Pack
<1> QED BY <1>2, <1>3, RecordKeeps

\* A check that fails.
LEMMA AgentFailsKeeps ==
  ASSUME IndInv, NEW s \in 3..5, AgentFails(s)
  PROVE  Kept
<1> DEFINE r == W!StageFailed(disk.record, s)
<1>1. /\ Sound(r) /\ r.stage = s /\ r.compiled = disk.record.compiled /\ ~r.ready
      /\ r.st[5] # "passed" /\ r.subRev = disk.record.subRev
  BY Now, Failed DEF AgentFails
<1>2. disk.record.stage = s
  BY Now, InCheck DEF AgentFails
<1>3. Run("check", Saved(r))
  BY DEF AgentFails
<1> HIDE DEF r
<1>4. Good([disk EXCEPT !.record = r], crashes)
  BY <1>1, <1>2, Now, RecordGood DEF Ahead, Pack
<1> QED BY <1>3, <1>4, RecordKeeps

\* mark_solution_compiled
LEMMA CompileKeeps ==
  ASSUME IndInv, NEW ok \in BOOLEAN, CompileSolution(ok)
  PROVE  Kept
<1> DEFINE reset == ~ok /\ W!ResetsOnReject(disk.record)
           yes == W!CompileAccepted(disk.record)
           no == W!CompileRejected(disk.record)
           S == Way("compile")
           f == [InvalidatedTo(disk, 2) EXCEPT !.record = no]
<1>1. PICK first \in Sides :
        Run("compile", (IF reset THEN Invalidated(disk, 2, first) ELSE <<>>) \o Saved(IF ok THEN yes ELSE no))
  BY DEF CompileSolution
<1>0. ok => disk.source \in GoodSources
  BY DEF CompileSolution
<1>2. /\ Sound(yes) /\ (yes.stage = IF disk.record.stage = 2 THEN 3 ELSE disk.record.stage)
      /\ (yes.ready <=> disk.record.ready) /\ yes.st = disk.record.st /\ yes.subRev = disk.record.subRev
      /\ Sound(no) /\ no.stage = 2 /\ ~no.compiled /\ ~no.ready /\ no.st[5] = "draft"
      /\ no.subRev = disk.record.subRev
  BY Now, Compiled
<1>3. disk.record.compiled <=> disk.record.stage >= 3
  BY Now, Staged
<1> HIDE DEF yes, no
<1>4. CASE ok
  <2>1. Run("compile", <<>> \o Saved(yes))
    BY <1>1, <1>4
  <2>2. Good([disk EXCEPT !.record = yes], crashes)
    BY <1>0, <1>2, <1>4, Now, RecordGood DEF Ahead, Pack, Conf
  <2> QED BY <2>1, <2>2, RecordKeeps
<1>5. CASE ~ok /\ ~reset
  <2>1. Run("compile", <<>> \o Saved(no))
    BY <1>1, <1>5
  <2>2. disk.record.stage = 2
    BY <1>5, Now DEF W!ResetsOnReject
  <2>3. Good([disk EXCEPT !.record = no], crashes)
    BY <1>2, <2>2, Now, RecordGood DEF Ahead
  <2> QED BY <2>1, <2>3, RecordKeeps
<1>6. CASE reset
  <2>1. Run("compile", Invalidated(disk, 2, first) \o Saved(no))
    BY <1>1, <1>6
  <2>2. NoEditStops => disk.source = disk.input.src
    BY Now DEF Pack
  <2>3. Good(f, crashes) /\ f.plans = PlansUpTo(disk, 2)
    BY <1>2, <2>2, Now, InvalidatedGood
  <2>4. Traced(disk, f)
    <3>1. f.plans[4] = None
      BY <2>3 DEF PlansUpTo
    <3> HIDE DEF f
    <3> QED BY <2>3, <3>1 DEF Traced
  <2>5. Losing(disk, 2) \subseteq S
    <3>1. \A e \in Losing(disk, 2) : Traced(disk, e)
      BY Now, LosingTraced
    <3>2. /\ Safe(disk, crashes)
          /\ NoDraftStops => Conf(disk) /\ (2 \in {3, 4} => disk.record.stage < 5)
      BY Now
    <3>3. disk \in Disk /\ crashes \in Nat /\ 2 \in 2..5 /\ (NoEditStops => Pack(disk))
      BY Now
    <3> QED BY <3>1, <3>2, <3>3, LosingWay
  <2>6. S \in SUBSET Disk /\ f \in S
    BY <2>3, <2>4, WayEnds
  <2> HIDE DEF S
  <2>7. Leads(S, disk, Invalidated(disk, 2, first), InvalidatedTo(disk, 2))
    BY <2>5, Now, InvalidatedLeads, LeadsWider
  <2>8. Leads(S, disk, Invalidated(disk, 2, first) \o Saved(no), f)
    BY <2>6, <2>7, SavedLeads
  <2> QED BY <2>1, <2>3, <2>4, <2>8, Now, Moves DEF S
<1> QED BY <1>4, <1>5, <1>6

\* Agent4RecoveryPolicy._save
LEMMA CandidateKeeps ==
  ASSUME IndInv, NEW c \in Contents, AgentSavesCandidate(c)
  PROVE  Kept
<1> DEFINE draft == Draft(5, c, disk.input.rev, disk.record.subRev)
<1>1. draft \in W!Draft
  BY Now, DraftType
<1>2. Run("candidate", CodeSaved(disk, draft))
  BY DEF AgentSavesCandidate
<1> HIDE DEF draft
<1>3. ~disk.record.ready
  <2>1. disk.record.st[5] = "checking" /\ Sound(disk.record) /\ 5 \in 3..5
    BY Now DEF AgentSavesCandidate, Ahead
  <2> QED BY <2>1, InCheck
<1>4. /\ Leads(Saving(disk, draft), disk, CodeSaved(disk, draft), CodeSavedTo(disk, draft))
      /\ \A e \in Saving(disk, draft) : Good(e, crashes + 1) /\ Traced(disk, e)
      /\ Good(CodeSavedTo(disk, draft), crashes) /\ Traced(disk, CodeSavedTo(disk, draft))
  BY <1>1, <1>3, Now, SavingGood
<1>5. Saving(disk, draft) \subseteq Way("candidate")
  BY <1>4 DEF Way, Saving
<1> QED BY <1>2, <1>4, <1>5, Now, LeadsWider, Moves

\* A recovery round is exhausted.
LEMMA ClearsKeeps ==
  ASSUME IndInv, AgentClearsDraft
  PROVE  Kept
<1>1. Run("clear", WorkingCleared(disk, 5))
  BY DEF AgentClearsDraft
<1>2. Leads(Clearing(disk, 5), disk, WorkingCleared(disk, 5), ClearedTo(disk, 5))
  BY Now, ClearedLeads
<1>3. /\ \A e \in Clearing(disk, 5) : Good(e, crashes + 1) /\ Traced(disk, e)
      /\ Good(ClearedTo(disk, 5), crashes) /\ Traced(disk, ClearedTo(disk, 5))
  BY Now, ClearingGood
<1>4. Clearing(disk, 5) \subseteq Way("clear")
  BY <1>3 DEF Way, Clearing
<1> QED BY <1>1, <1>2, <1>3, <1>4, Now, LeadsWider, Moves

\* prepare_auto_run_resume
LEMMA ResumeKeeps ==
  ASSUME IndInv, NEW s \in 3..5, AutoResume(s)
  PROVE  Kept
<1> DEFINE r == W!StageFailed(disk.record, s)
           d1 == [disk EXCEPT !.record = r]
           S == Way("resume")
           f == InvalidatedTo(d1, s)
<1>1. PICK first \in Sides : Run("resume", Saved(r) \o Invalidated(disk, s, first))
  BY DEF AutoResume
<1>2. /\ Sound(r) /\ r.stage = s /\ r.compiled = disk.record.compiled /\ ~r.ready
      /\ r.st[5] # "passed" /\ r.subRev = disk.record.subRev /\ disk.record.stage = s
  BY Now, Failed, InCheck DEF AutoResume
<1> HIDE DEF r
<1>3. Good(d1, crashes) /\ \A x : Traced(x, disk) => Traced(x, d1)
  BY <1>2, Now, RecordGood DEF Ahead, Pack
<1>4. /\ d1 \in Disk /\ d1.record = r /\ d1.plans = disk.plans /\ d1.work = disk.work
      /\ d1.current = disk.current /\ d1.released = disk.released /\ d1.projection = disk.projection
      /\ d1.batch = disk.batch /\ d1.data = disk.data /\ d1.source = disk.source /\ d1.input = disk.input
      /\ d1.history = disk.history
  BY <1>2, Now, DiskIs DEF Sound
<1>5. disk \in S /\ d1 \in S /\ S \in SUBSET Disk
  BY <1>3, WayEnds
<1>6. Leads(S, disk, Saved(r), d1)
  BY <1>5, Writes DEF Saved
<1> HIDE DEF d1
<1>7. \A e \in Losing(d1, s) : Traced(disk, e)
  <2>1. s = 4 => d1.released.parts = {}
    BY <1>2, <1>4, Now DEF Ahead
  <2>2. \A e \in Losing(d1, s) : Traced(d1, e)
    BY <1>4, <2>1, LosingTraced
  <2> QED BY <1>4, <2>2 DEF Traced, Release
<1>8. Losing(d1, s) \subseteq S
  <2>1. /\ Safe(d1, crashes)
        /\ NoDraftStops => Conf(d1) /\ (s \in {3, 4} => d1.record.stage < 5)
        /\ NoEditStops => Pack(d1) /\ ~d1.record.ready
    BY <1>2, <1>3, <1>4 DEF Good
  <2>2. d1 \in Disk /\ crashes \in Nat /\ s \in 2..5
    BY <1>4, Now
  <2> QED BY <1>7, <2>1, <2>2, LosingWay
<1>9. Leads(Losing(d1, s), d1, Invalidated(disk, s, first), f)
  <2>1. Invalidated(disk, s, first) = Invalidated(d1, s, first)
    BY <1>4, Now, InvalidatedSame
  <2> QED BY <1>4, <2>1, InvalidatedLeads
<1>10. Traced(disk, f)
  BY <1>7, <1>9, LeadsEnds
<1>11. Good(f, crashes)
  <2>1. f \in Disk /\ f.record = r
    BY <1>4, InvalidatedFacts
  <2>2. [f EXCEPT !.record = r] = f
    BY <2>1, DiskIs
  <2>3. Good([f EXCEPT !.record = r], crashes)
    <3>1. s = 5 => (d1.released.parts # {} => d1.released.draft.subRev = r.subRev)
      BY <1>2, <1>4, Now DEF Ahead
    <3>2. NoEditStops => d1.source = d1.input.src /\ (r.compiled => d1.source \in GoodSources)
      BY <1>2, <1>4, Now DEF Pack
    <3>3. CodeWhole(d1) /\ Room(d1, crashes) /\ (NoDraftStops => Conf(d1))
      BY <1>3 DEF Good, Safe
    <3> QED BY <1>2, <1>4, <3>1, <3>2, <3>3, Now, InvalidatedGood
  <2> QED BY <2>2, <2>3
<1> HIDE DEF S, f
<1>12. Leads(S, disk, Saved(r) \o Invalidated(disk, s, first), f)
  BY <1>6, <1>8, <1>9, LeadsWider, LeadsOn
<1> QED BY <1>1, <1>10, <1>11, <1>12, Now, Moves DEF S

\* A stop between two methods.
LEMMA StopKeeps ==
  ASSUME IndInv, Stop
  PROVE  Kept
BY Now, RestartedGood DEF Stop, Kept, Traced

\* The record says nothing of where a release is.
LEMMA TracedRecord ==
  ASSUME NEW x \in Disk, NEW d, Traced(d, x), NEW r
  PROVE  Traced(d, [x EXCEPT !.record = r])
BY DiskIs DEF Traced, Release

\* The directory with the draft saved.
DraftedTo(s, c) ==
  LET draft == Draft(s, c, disk.record.inRev, disk.record.subRev)
  IN  IF s = 5 THEN CodeSavedTo(disk, draft) ELSE [disk EXCEPT !.plans = [disk.plans EXCEPT ![s] = draft]]

\* A draft that was saved changes its own stage alone.
LEMMA DraftedFacts ==
  ASSUME IndInv, NEW s \in 3..5, NEW c \in Contents
  PROVE  LET e == DraftedTo(s, c) IN
         /\ e \in Disk /\ Safe(e, crashes) /\ Traced(disk, e)
         /\ e.source = disk.source /\ e.input = disk.input /\ e.record = disk.record
         /\ e.released = disk.released /\ e.history = disk.history /\ e.batch = disk.batch /\ e.data = disk.data
         /\ s = 5 => /\ e.plans = disk.plans /\ Fair(e, crashes)
                     /\ ~disk.record.ready => Good(e, crashes)
         /\ s < 5 => \A t \in 3..4 : e.plans[t] = IF t = s THEN Draft(s, c, disk.record.inRev, disk.record.subRev)
                                                  ELSE disk.plans[t]
<1> DEFINE draft == Draft(s, c, disk.record.inRev, disk.record.subRev)
           e == DraftedTo(s, c)
<1>1. draft \in W!Draft
  BY Now, DraftType
<1> HIDE DEF draft
<1>2. CASE s = 5
  <2>1. e = CodeSavedTo(disk, draft)
    BY <1>2 DEF DraftedTo, draft
  <2>2. /\ Fair(CodeSavedTo(disk, draft), crashes) /\ Traced(disk, CodeSavedTo(disk, draft))
        /\ ~disk.record.ready => Good(CodeSavedTo(disk, draft), crashes)
    BY <1>1, Now, SavingGood
  <2>3. /\ e.source = disk.source /\ e.input = disk.input /\ e.record = disk.record /\ e.plans = disk.plans
        /\ e.released = disk.released /\ e.history = disk.history /\ e.batch = disk.batch /\ e.data = disk.data
    BY <2>1, Now, DiskIs DEF CodeSavedTo
  <2> HIDE DEF e
  <2> QED BY <1>2, <2>1, <2>2, <2>3 DEF Fair, Safe, e
<1>3. CASE s # 5
  <2> DEFINE plans == [disk.plans EXCEPT ![s] = draft]
  <2>1. e = [disk EXCEPT !.plans = plans] /\ s \in 3..4
    BY <1>3 DEF DraftedTo, draft
  <2>2. plans \in Plans /\ \A t \in 3..4 : plans[t] = IF t = s THEN draft ELSE disk.plans[t]
    BY <1>1, <2>1, Now, DiskIs DEF Plans
  <2> HIDE DEF plans
  <2>3. /\ e \in Disk /\ e.source = disk.source /\ e.input = disk.input /\ e.record = disk.record
        /\ e.released = disk.released /\ e.history = disk.history /\ e.batch = disk.batch
        /\ e.data = disk.data /\ e.work = disk.work /\ e.current = disk.current /\ e.plans = plans
    BY <2>1, <2>2, Now, DiskIs
  <2> HIDE DEF e
  <2>4. CodeWhole(e) /\ Room(e, crashes)
    BY <2>3, Now, RoomGrows DEF CodeWhole
  <2>5. Ahead(e) /\ Traced(disk, e)
    BY <2>3, Now DEF Ahead, Traced, Release
  <2> QED BY <1>3, <2>2, <2>3, <2>4, <2>5 DEF Safe, e, draft
<1> QED BY <1>2, <1>3

\* And nothing else on the way.
LEMMA DraftedLeads ==
  ASSUME IndInv, NEW s \in 3..5, NEW c \in Contents, NEW m, DraftedTo(s, c) \in Way(m),
         m \in Crashing /\ NoEditStops => ~disk.record.ready
  PROVE  Leads(Way(m), disk, Drafted(s, c), DraftedTo(s, c))
<1> DEFINE draft == Draft(s, c, disk.record.inRev, disk.record.subRev)
           S == Way(m)
           e == DraftedTo(s, c)
<1>1. draft \in W!Draft
  BY Now, DraftType
<1>2. disk \in S /\ S \in SUBSET Disk /\ e \in S
  BY WayEnds
<1> HIDE DEF draft
<1>3. CASE s = 5
  <2>1. Drafted(s, c) = CodeSaved(disk, draft) /\ e = CodeSavedTo(disk, draft)
    BY <1>3 DEF Drafted, DraftedTo, draft
  <2>2. Leads(Saving(disk, draft), disk, CodeSaved(disk, draft), CodeSavedTo(disk, draft))
    BY <1>1, Now, SavingGood
  <2>3. Saving(disk, draft) \subseteq S
    <3>1. \A x \in Saving(disk, draft) :
            Fair(x, crashes + 1) /\ Traced(disk, x) /\ (~disk.record.ready => Good(x, crashes + 1))
      BY <1>1, Now, SavingGood
    <3>2. \A x \in Saving(disk, draft) : m \in Crashing => Good(x, crashes + 1)
      BY <3>1 DEF Fair, Good
    <3> QED BY <3>1, <3>2 DEF Way, Saving
  <2> HIDE DEF S, e
  <2>4. Leads(S, disk, Drafted(s, c), e)
    BY <2>1, <2>2, <2>3, LeadsWider
  <2> QED BY <2>4 DEF S, e
<1>4. CASE s # 5
  <2> DEFINE plans == [disk.plans EXCEPT ![s] = draft]
  <2>1. Drafted(s, c) = <<[plans |-> plans]>> /\ e = [disk EXCEPT !.plans = plans]
    BY <1>4 DEF Drafted, DraftedTo, Written, draft
  <2> HIDE DEF S, e, plans
  <2>2. Leads(S, disk, Drafted(s, c), e)
    BY <1>2, <2>1, Writes
  <2> QED BY <2>2 DEF S, e
<1> QED BY <1>3, <1>4

\* A stage above it is not left with the release of another plan.
LEMMA DraftedTraced ==
  ASSUME IndInv, NEW s \in 3..5, NEW c \in Contents,
         s = 4 => Changed(4, c) \/ disk.released.parts = {}, NEW x \in Losing(DraftedTo(s, c), s)
  PROVE  Traced(disk, x)
<1> DEFINE e == DraftedTo(s, c)
           draft == Draft(s, c, disk.record.inRev, disk.record.subRev)
<1>1. /\ e \in Disk /\ e.released = disk.released
      /\ s < 5 => \A t \in 3..4 : e.plans[t] = IF t = s THEN draft ELSE disk.plans[t]
  BY DraftedFacts
<1>2. draft.c = c
  BY DEF Draft
<1> HIDE DEF e, draft
<1>3. /\ x.plans = e.plans \/ x.plans = PlansUpTo(e, s)
      /\ \/ x.released = e.released
         \/ s # 5 /\ x.plans = PlansUpTo(e, s)
  BY DEF Losing, e
<1> SUFFICES ASSUME disk.plans[4] # None, x.plans = disk.plans, Release(disk) # None
    PROVE  x.released = disk.released
  BY DEF Traced, Release
<1>4. CASE s = 5
  BY <1>1, <1>3, <1>4
<1>5. CASE s = 3
  <2>1. PlansUpTo(e, s)[4] = None
    BY <1>5 DEF PlansUpTo
  <2> QED BY <1>1, <1>3, <2>1
<1>6. CASE s = 4
  <2>1. PlansUpTo(e, s) = e.plans
    BY <1>6 DEF PlansUpTo
  <2>2. disk.plans[4] = draft
    BY <1>1, <1>3, <1>6, <2>1
  <2>3. ~Changed(4, c)
    BY <1>2, <2>2, Now, ContentIs DEF Changed
  <2> QED BY <1>6, <2>3 DEF Release
<1> QED BY <1>4, <1>5, <1>6

\* save_user_draft
LEMMA UserDraftKeeps ==
  ASSUME IndInv, NEW s \in 3..5, NEW c \in Contents, SaveUserDraft(s, c)
  PROVE  Kept
<1> DEFINE r == W!UserDraftSaved(disk.record, s)
           S == Way("draft")
           e == DraftedTo(s, c)
           f == [InvalidatedTo(e, s) EXCEPT !.record = r]
<1>1. PICK first \in Sides :
        Run("draft", Then(disk, Drafted(s, c), LAMBDA x : Invalidated(x, s, first)) \o Saved(r))
  BY DEF SaveUserDraft
<1>2. /\ Sound(r) /\ r.stage = s /\ r.compiled = disk.record.compiled /\ ~r.ready
      /\ r.st[5] = "draft" /\ (s # 4 => r.subRev = disk.record.subRev)
  BY Now, UserSaved DEF SaveUserDraft
<1> HIDE DEF r
<1>3. /\ e \in Disk /\ Safe(e, crashes) /\ Traced(disk, e)
      /\ e.source = disk.source /\ e.input = disk.input /\ e.record = disk.record
      /\ e.released = disk.released /\ e.batch = disk.batch
      /\ s = 5 => e.plans = disk.plans /\ Fair(e, crashes)
  BY DraftedFacts
<1>4. "draft" \in Crashing => ~NoDraftStops /\ ~NoEditStops
  BY DEF NoDraftStops, NoEditStops
<1> HIDE DEF e
<1>5. e \in S /\ S \in SUBSET Disk
  <2>1. "draft" \in Crashing => Good(e, crashes)
    BY <1>3, <1>4 DEF Good
  <2>2. "draft" \in Crashing => Good(e, crashes + 1)
    BY <2>1, Now, GoodGrows
  <2> QED BY <1>3, <2>2 DEF Way
<1>6. Leads(S, disk, Drafted(s, c), e)
  BY <1>4, <1>5, DraftedLeads DEF e
<1>7. \A x \in Losing(e, s) : 4 \notin disk.record.threads => Traced(disk, x)
  <2> SUFFICES ASSUME 4 \notin disk.record.threads PROVE \A x \in Losing(e, s) : Traced(disk, x)
    OBVIOUS
  <2>1. s = 4 => Changed(4, c) \/ disk.released.parts = {}
    <3>1. SUFFICES ASSUME s = 4, ~Changed(4, c) PROVE disk.released.parts = {}
      OBVIOUS
    <3>2. disk.record.st[4] = "waiting_user"
      BY <3>1 DEF SaveUserDraft
    <3>3. disk.record.stage = 4
      BY <3>2, Now, InWait
    <3> QED BY <3>3, Now DEF Ahead
  <2> QED BY <2>1, DraftedTraced DEF e
<1>8. Losing(e, s) \subseteq S
  <2>1. crashes \in Nat /\ s \in 2..5
    BY Now
  <2> QED BY <1>3, <1>4, <1>7, <2>1, LosingWay
<1>9. Leads(Losing(e, s), e, Invalidated(e, s, first), InvalidatedTo(e, s))
  BY <1>3, InvalidatedLeads
<1>10. Good(f, crashes)
  <2>1. s = 5 => /\ r.stage >= 5
                 /\ e.released.parts # {} => e.released.draft.subRev = r.subRev
                 /\ NoDraftStops => Conf(e)
    BY <1>2, <1>3, Now DEF Ahead, Fair
  <2>2. NoEditStops => e.source = e.input.src /\ (r.compiled => e.source \in GoodSources)
    BY <1>2, <1>3, Now DEF Pack
  <2>3. CodeWhole(e) /\ Room(e, crashes)
    BY <1>3 DEF Safe
  <2> QED BY <1>2, <1>3, <2>1, <2>2, <2>3, Now, InvalidatedGood
<1>11. 4 \notin disk.record.threads => Traced(disk, f)
  <2>1. InvalidatedTo(e, s) \in Losing(e, s)
    BY <1>9, LeadsEnds
  <2>2. /\ InvalidatedTo(e, s) \in Disk
        /\ 4 \notin disk.record.threads => Traced(disk, InvalidatedTo(e, s))
    BY <1>7, <2>1 DEF Losing
  <2> QED BY <2>2, TracedRecord
<1>12. f \in S
  BY <1>10, <1>11, WayEnds
<1> HIDE DEF S
<1>13. Then(disk, Drafted(s, c), LAMBDA x : Invalidated(x, s, first)) = Drafted(s, c) \o Invalidated(e, s, first)
  <2>1. After(disk, Drafted(s, c)) = e
    BY <1>6, LeadsEnds
  <2> QED BY <2>1 DEF Then
<1>14. Leads(S, disk, Drafted(s, c) \o Invalidated(e, s, first), InvalidatedTo(e, s))
  BY <1>6, <1>8, <1>9, LeadsWider, LeadsOn
<1>15. Leads(S, disk, Drafted(s, c) \o Invalidated(e, s, first) \o Saved(r), f)
  BY <1>5, <1>12, <1>14, SavedLeads
<1> HIDE DEF f
<1> QED BY <1>1, <1>10, <1>11, <1>13, <1>15, Now, Moves DEF S

\* The record is saved twice, but of stage 5.
LEMMA SavedTwice ==
  ASSUME NEW S \in SUBSET Disk, NEW d, NEW ops, NEW e \in Disk, Leads(S, d, ops, e),
         NEW b, NEW r, [e EXCEPT !.record = b] \in S, [e EXCEPT !.record = r] \in S, NEW s
  PROVE  LET g == [e EXCEPT !.record = IF s = 5 THEN b ELSE r] IN
         Leads(S, d, ops \o Saved(b) \o (IF s = 5 THEN <<>> ELSE Saved(r)), g)
<1> DEFINE x == [e EXCEPT !.record = b]
           y == [e EXCEPT !.record = r]
<1>1. Leads(S, d, ops \o Saved(b), x)
  BY SavedLeads
<1>2. CASE s = 5
  <2>1. IsDirectory(x) /\ x \in S
    BY Entries
  <2> HIDE DEF x
  <2>2. Leads(S, x, <<>>, x)
    BY <2>1, LeadsNowhere
  <2>3. Leads(S, d, (ops \o Saved(b)) \o <<>>, x)
    BY <1>1, <2>2, LeadsOn
  <2> QED BY <1>2, <2>3 DEF x
<1>3. CASE s # 5
  <2>1. [x EXCEPT !.record = r] = y
    BY DiskIs
  <2> HIDE DEF x
  <2>2. Leads(S, d, (ops \o Saved(b)) \o Saved(r), [x EXCEPT !.record = r])
    BY <1>1, <2>1, SavedLeads
  <2> QED BY <1>3, <2>1, <2>2
<1> QED BY <1>2, <1>3

\* save_ai_result and set_stage_thread
LEMMA AgentPassesKeeps ==
  ASSUME IndInv, NEW s \in 3..5, NEW c \in Contents, AgentPasses(s, c)
  PROVE  Kept
<1> DEFINE b == Result(disk.record, s, Changed(s, c))
           r == Passed(disk.record, s, Changed(s, c))
           q == IF s = 5 THEN b ELSE r
           m == IF s = 5 THEN "result" ELSE "plan"
           S == Way(m)
           e == DraftedTo(s, c)
           f(x) == [InvalidatedTo(e, s) EXCEPT !.record = x]
           g(x) == [e EXCEPT !.record = x]
           threaded == IF s = 5 THEN <<>> ELSE Saved(r)
<1>1. PICK first \in Sides :
        Run(m, (IF Changed(s, c) THEN Then(disk, Drafted(s, c), LAMBDA x : Invalidated(x, s, first))
                ELSE Drafted(s, c)) \o Saved(b) \o threaded)
  BY DEF AgentPasses, Passed, Result
<1>2. Changed(s, c) \in BOOLEAN /\ disk.record.st[s] = "checking" /\ (s = 5 => ~Changed(s, c))
  BY DEF Changed, AgentPasses
<1>3. ASSUME NEW x, x = b \/ (s < 5 /\ x = r)
      PROVE  /\ Sound(x) /\ x.stage = s /\ x.compiled = disk.record.compiled /\ ~x.ready
             /\ x.st[5] # "passed" /\ (s # 4 \/ ~Changed(s, c) => x.subRev = disk.record.subRev)
  <2>1. Sound(disk.record)
    BY Now
  <2> HIDE DEF b, r
  <2>2. x = Result(disk.record, s, Changed(s, c)) \/ (s < 5 /\ x = Passed(disk.record, s, Changed(s, c)))
    BY <1>3 DEF b, r
  <2>3. s # 4 \/ ~Changed(s, c) => x.subRev = disk.record.subRev
    BY <1>2, <2>1, <2>2, Passing
  <2> QED BY <1>2, <2>1, <2>2, <2>3, Passing
<1>4. disk.record.stage = s /\ ~disk.record.ready /\ disk.record.st[5] # "passed"
  BY <1>2, Now, InCheck
<1>5. s < 5 => disk.released.parts = {} /\ disk.batch = None
  BY <1>4, Now DEF Ahead
<1>6. /\ e \in Disk /\ Safe(e, crashes) /\ Traced(disk, e)
      /\ e.source = disk.source /\ e.input = disk.input /\ e.record = disk.record
      /\ e.released = disk.released /\ e.batch = disk.batch
      /\ s = 5 => e.plans = disk.plans /\ Good(e, crashes)
  BY <1>4, DraftedFacts
<1> HIDE DEF e, b, r, threaded
<1>7. Good(e, crashes)
  <2>1. s < 5 => (NoDraftStops => Conf(e)) /\ (NoEditStops => Pack(e))
    BY <1>4, <1>5, <1>6, Now DEF Conf, Pack
  <2> QED BY <1>6, <2>1 DEF Good
<1>8. e \in S /\ S \in SUBSET Disk
  BY <1>6, <1>7, WayEnds
<1>9. Leads(S, disk, Drafted(s, c), e)
  BY <1>4, <1>8, DraftedLeads DEF e
<1>10. CASE ~Changed(s, c)
  <2>1. Run(m, Drafted(s, c) \o Saved(b) \o threaded)
    BY <1>1, <1>10
  <2>2. ASSUME NEW x, x = b \/ (s < 5 /\ x = r) PROVE Good(g(x), crashes) /\ Traced(disk, g(x))
    <3>1. /\ Sound(x) /\ x.stage = s /\ x.compiled = disk.record.compiled /\ ~x.ready
          /\ x.st[5] # "passed" /\ x.subRev = disk.record.subRev
      BY <1>3, <1>10, <2>2
    <3> QED BY <1>5, <1>6, <1>7, <3>1, Now, RecordGood DEF Good, Pack
  <2>3. ASSUME NEW x, x = b \/ (s < 5 /\ x = r) PROVE g(x) \in S
    BY <2>2, <2>3, WayEnds
  <2>4. g(b) \in S /\ (s # 5 => g(r) \in S)
    BY <2>3
  <2> HIDE DEF S
  <2>5. Leads(S, disk, Drafted(s, c) \o Saved(b) \o threaded, g(q))
    <3>1. CASE s = 5
      BY <1>6, <1>8, <1>9, <2>4, <3>1, SavedTwice DEF threaded
    <3>2. CASE s # 5
      BY <1>6, <1>8, <1>9, <2>4, <3>2, SavedTwice DEF threaded
    <3> QED BY <3>1, <3>2
  <2>6. Good(g(q), crashes) /\ Traced(disk, g(q))
    BY <2>2
  <2> HIDE DEF g, m, q
  <2> QED BY <2>1, <2>5, <2>6, Now, Moves DEF S
<1>11. CASE Changed(s, c)
  <2>0. s < 5 /\ q = r
    BY <1>2, <1>11
  <2>1. Then(disk, Drafted(s, c), LAMBDA x : Invalidated(x, s, first)) = Drafted(s, c) \o Invalidated(e, s, first)
    <3>1. After(disk, Drafted(s, c)) = e
      BY <1>9, LeadsEnds
    <3> QED BY <3>1 DEF Then
  <2>2. Run(m, Drafted(s, c) \o Invalidated(e, s, first) \o Saved(b) \o threaded)
    BY <1>1, <1>11, <2>1
  <2> HIDE DEF m
  <2>3. \A x \in Losing(e, s) : Traced(disk, x)
    BY <1>5, DraftedTraced DEF e
  <2>4. Losing(e, s) \subseteq S
    <3>1. /\ Safe(e, crashes)
          /\ NoDraftStops => Conf(e) /\ (s \in {3, 4} => e.record.stage < 5)
          /\ NoEditStops => Pack(e) /\ ~e.record.ready
      BY <1>4, <1>6, <1>7 DEF Good
    <3>2. crashes \in Nat /\ s \in 2..5
      BY Now
    <3> QED BY <1>6, <2>3, <3>1, <3>2, LosingWay
  <2>5. Leads(Losing(e, s), e, Invalidated(e, s, first), InvalidatedTo(e, s))
    BY <1>6, InvalidatedLeads
  <2>6. InvalidatedTo(e, s) \in Disk /\ Traced(disk, InvalidatedTo(e, s))
    <3>1. InvalidatedTo(e, s) \in Losing(e, s)
      BY <2>5, LeadsEnds
    <3> QED BY <2>3, <3>1 DEF Losing
  <2>7. ASSUME NEW x, x = b \/ (s < 5 /\ x = r) PROVE Good(f(x), crashes) /\ Traced(disk, f(x))
    <3>0. Sound(x) /\ x.compiled = disk.record.compiled /\ ~x.ready /\ x.st[5] # "passed"
      BY <1>3, <2>7
    <3>1. NoEditStops => e.source = e.input.src /\ (x.compiled => e.source \in GoodSources)
      BY <1>6, <3>0, Now DEF Pack
    <3>2. CodeWhole(e) /\ Room(e, crashes)
      BY <1>6 DEF Safe
    <3>3. Good(f(x), crashes)
      BY <1>6, <2>0, <3>0, <3>1, <3>2, Now, InvalidatedGood
    <3> QED BY <2>6, <3>3, TracedRecord
  <2>8. ASSUME NEW x, x = b \/ (s < 5 /\ x = r) PROVE f(x) \in S
    BY <2>7, <2>8, WayEnds
  <2>9. f(b) \in S /\ f(r) \in S
    BY <2>0, <2>8
  <2> HIDE DEF S
  <2>10. Leads(S, disk, Drafted(s, c) \o Invalidated(e, s, first), InvalidatedTo(e, s))
    BY <1>9, <2>4, <2>5, LeadsWider, LeadsOn
  <2>11. Leads(S, disk, Drafted(s, c) \o Invalidated(e, s, first) \o Saved(b) \o threaded, f(r))
    BY <1>8, <2>0, <2>6, <2>9, <2>10, SavedTwice DEF threaded
  <2>12. Good(f(r), crashes) /\ Traced(disk, f(r))
    BY <2>0, <2>7
  <2> HIDE DEF f
  <2> QED BY <2>2, <2>11, <2>12, Now, Moves DEF S
<1> QED BY <1>10, <1>11

\* confirm and pop_stage_thread
LEMMA ConfirmKeeps ==
  ASSUME IndInv, NEW s \in 3..5, Confirm(s)
  PROVE  Kept
<1> DEFINE r == W!Confirmed(disk.record, s)
           kept == [r EXCEPT !.threads = disk.record.threads]
           S == Way("confirm")
           e == FrozenTo(disk)
           f == [e EXCEPT !.record = r]
<1>1. ASSUME NEW q \in {r, kept}
      PROVE  /\ Sound(q) /\ q.stage = s + 1 /\ q.compiled = disk.record.compiled /\ ~q.ready
             /\ (s < 5 => q.st[5] # "passed") /\ q.subRev = disk.record.subRev
  <2>1. Sound(disk.record) /\ disk.record.st[s] = "waiting_user" /\ W!MayConfirm(disk.record, s)
    BY Now DEF Confirm
  <2>2. q \in {W!Confirmed(disk.record, s), [W!Confirmed(disk.record, s) EXCEPT !.threads = disk.record.threads]}
    BY <1>1
  <2> HIDE DEF r, kept
  <2> QED BY <2>1, <2>2, Confirming
<1>2. disk.record.st[s] = "waiting_user" /\ disk.record.stage = s
  BY Now, InWait DEF Confirm
<1>3. /\ s = 5 => Run("confirm", Frozen(disk) \o Saved(r))
      /\ s # 5 => Run("confirm", <<>> \o (Saved(kept) \o Saved(r)))
  BY DEF Confirm, ConfirmedSaved
<1> HIDE DEF r, kept
<1>4. CASE s # 5
  <2>1. ASSUME NEW q \in {r, kept} PROVE Good([disk EXCEPT !.record = q], crashes)
    BY <1>1, <1>2, <1>4, <2>1, Now, RecordGood DEF Ahead, Pack
  <2>2. Good([disk EXCEPT !.record = r], crashes) /\ Good([disk EXCEPT !.record = kept], crashes)
    BY <2>1
  <2> QED BY <1>3, <1>4, <2>2, RecordKeepsTwice
<1>5. CASE s = 5
  <2>1. Draft5(disk) # None /\ Draft5(disk).subRev = disk.record.subRev
    BY <1>5 DEF Confirm, W!MayFreeze, Abstract
  <2>2. Leads(Freezing(disk), disk, Frozen(disk), e)
    BY <2>1, Now, FrozenLeads
  <2>3. \A x \in Freezing(disk) : Good(x, crashes) /\ Traced(disk, x)
    BY <1>2, <1>5, <2>1, Now, FreezingGood
  <2>4. Freezing(disk) \subseteq S
    BY <2>3, WayEnds
  <2>5. e \in Freezing(disk)
    BY <2>2, LeadsEnds
  <2>6. e.record = disk.record /\ e.plans = disk.plans /\ e.source = disk.source
        /\ e.released = IF SameRelease(disk) THEN disk.released ELSE Snapshot(disk)
    BY Now, DiskIs DEF FrozenTo
  <2>7. NoDraftStops /\ e.plans[4] # None => e.released.parts = Sides
    <3>1. CASE SameRelease(disk)
      BY <2>6, <3>1, Now DEF SameRelease, Release, Conf
    <3>2. CASE ~SameRelease(disk)
      BY <2>6, <3>2 DEF Snapshot
    <3> QED BY <3>1, <3>2
  <2> HIDE DEF e
  <2>8. Good(f, crashes) /\ Traced(disk, f)
    <3>1. Good(e, crashes) /\ Traced(disk, e)
      BY <2>3, <2>5
    <3>2. Sound(r) /\ r.stage = 6 /\ ~r.ready /\ r.subRev = disk.record.subRev
      BY <1>1, <1>5
    <3>3. NoEditStops /\ r.compiled => e.source \in GoodSources
      BY <1>1, <2>6, Now DEF Pack
    <3> QED BY <2>6, <2>7, <3>1, <3>2, <3>3, Now, RecordGood
  <2>9. f \in S /\ S \in SUBSET Disk
    BY <2>8, WayEnds
  <2>10. Run("confirm", Frozen(disk) \o Saved(r))
    BY <1>3, <1>5
  <2> HIDE DEF S
  <2>11. Leads(S, disk, Frozen(disk) \o Saved(r), f)
    BY <2>2, <2>4, <2>9, LeadsWider, SavedLeads
  <2> HIDE DEF f
  <2> QED BY <2>8, <2>10, <2>11, Now, Moves DEF S
<1> QED BY <1>4, <1>5

-----------------------------------------------------------------------------
(* The build of the dataset *)

\* What Pack says of the manifest of a batch.
Tally(d) ==
  /\ d.batch # None /\ d.batch.listed =>
       d.data.tests = Tests
       /\ (Tests # {} => /\ d.data.code = d.batch.stamp.code
                         /\ d.plans[4] # None => d.data.plan = d.plans[4].c)
  /\ d.batch # None /\ d.batch.status = "completed" => d.batch.listed /\ d.data.outs = d.input.src

\* e is the directory but for the link generated, the manifest and the data.
Built(e) ==
  /\ e \in Disk
  /\ e.source = disk.source /\ e.input = disk.input /\ e.record = disk.record /\ e.plans = disk.plans
  /\ e.work = disk.work /\ e.current = disk.current /\ e.released = disk.released
  /\ e.history = disk.history

\* A build in progress, stopped anywhere, leaves a good directory.
LEMMA BuiltGood ==
  ASSUME IndInv, NEW e, Built(e), disk.record.stage >= 5,
         NoEditStops => (disk.record.ready /\ e.batch = None => Shut(e)) /\ Tally(e)
  PROVE  Good(e, crashes) /\ Traced(disk, e) /\ \A m : e \in Way(m)
<1>1. CodeWhole(e) /\ Room(e, crashes)
  BY Now, RoomGrows DEF Built, CodeWhole
<1>2. Ahead(e)
  BY Now DEF Built, Ahead
<1>3. NoDraftStops => Conf(e)
  BY Now DEF Built, Conf
<1>4. NoEditStops => Pack(e)
  BY Now DEF Built, Pack, Shut, Tally
<1>5. Traced(disk, e)
  BY DEF Built, Traced, Release
<1>6. Good(e, crashes)
  BY <1>1, <1>2, <1>3, <1>4 DEF Built, Good, Safe
<1> QED BY <1>5, <1>6, WayEnds

\* Each write of a build leaves the rest alone.
LEMMA BuiltOn ==
  ASSUME NEW e, Built(e)
  PROVE  /\ \A p \in Projections : Built([e EXCEPT !.projection = p])
         /\ \A b \in W!Batch \cup {None} : Built([e EXCEPT !.batch = b])
         /\ \A x \in DataSets : Built([e EXCEPT !.data = x])
<1>1. e \in Disk
  BY DEF Built
<1>2. ASSUME NEW p \in Projections PROVE Built([e EXCEPT !.projection = p])
  BY <1>1, DiskIs DEF Built, Projections
<1>3. ASSUME NEW b \in W!Batch \cup {None} PROVE Built([e EXCEPT !.batch = b])
  BY <1>1, DiskIs DEF Built
<1>4. ASSUME NEW x \in DataSets PROVE Built([e EXCEPT !.data = x])
  BY <1>1, DiskIs DEF Built
<1> QED BY <1>2, <1>3, <1>4

\* The link generated is set to the release first.
LEMMA ProjectingKeeps ==
  ASSUME IndInv, disk.record.stage >= 5, NEW m
  PROVE  LET p == [disk EXCEPT !.projection = "release"] IN
         /\ Leads(Way(m), disk, Projected(disk, "release"), p)
         /\ Built(p) /\ p.batch = disk.batch /\ p.data = disk.data
         /\ Good(p, crashes) /\ Traced(disk, p)
<1> DEFINE p == [disk EXCEPT !.projection = "release"]
<1>1. "release" \in Projections /\ disk \in Disk /\ Built(disk)
  BY Now DEF Projections, Built
<1>2. ASSUME NEW to \in Projections
      PROVE  LET e == [disk EXCEPT !.projection = to] IN
             /\ Built(e) /\ e.batch = disk.batch /\ e.data = disk.data
             /\ Good(e, crashes) /\ Traced(disk, e) /\ e \in Way(m)
  <2> DEFINE e == [disk EXCEPT !.projection = to]
  <2>1. Built(e) /\ e.batch = disk.batch /\ e.data = disk.data
    BY <1>1, BuiltOn, DiskIs
  <2> HIDE DEF e
  <2>2. NoEditStops => (disk.record.ready /\ e.batch = None => Shut(e)) /\ Tally(e)
    BY <2>1, Now DEF Pack, Shut, Tally, Built
  <2> QED BY <2>1, <2>2, BuiltGood DEF e
<1>3. Projecting(disk) \subseteq Way(m)
  BY <1>2 DEF Projecting
<1>4. Leads(Projecting(disk), disk, Projected(disk, "release"), p)
  BY <1>1, ProjectedLeads
<1> QED BY <1>1, <1>2, <1>3, <1>4, LeadsWider

\* export
LEMMA ExportKeeps ==
  ASSUME IndInv, Export
  PROVE  Kept
<1>1. disk.record.stage >= 5
  BY Now, Staged DEF Export, MayExport
<1> DEFINE p == [disk EXCEPT !.projection = "release"]
<1>2. CASE disk.batch = None
  <2>1. Run("export", <<>>)
    BY <1>2 DEF Export
  <2>2. Leads(Way("export"), disk, <<>>, disk)
    BY Now, WayEnds, Entries, LeadsNowhere
  <2> QED BY <2>1, <2>2, Now, WayEnds, Moves
<1>3. CASE disk.batch # None
  <2>1. Run("export", Projected(disk, "release"))
    BY <1>3 DEF Export
  <2>2. Leads(Way("export"), disk, Projected(disk, "release"), p) /\ Good(p, crashes) /\ Traced(disk, p)
    BY <1>1, ProjectingKeeps
  <2> HIDE DEF p
  <2> QED BY <2>1, <2>2, Now, Moves
<1> QED BY <1>2, <1>3

\* _fail_to_agent4
LEMMA BuildFailsKeeps ==
  ASSUME IndInv, BuildFails
  PROVE  Kept
<1> DEFINE p == [disk EXCEPT !.projection = "release"]
           b == IF disk.batch = None THEN None ELSE [disk.batch EXCEPT !.status = "failed"]
           e == [p EXCEPT !.batch = b]
           r == W!PipelineFailure(disk.record)
           f == [e EXCEPT !.record = r]
           S == Way("fail")
           marked == IF disk.batch = None THEN <<>> ELSE <<[batch |-> [disk.batch EXCEPT !.status = "failed"]]>>
<1>1. disk.record.stage \in {6, 7} /\ Run("fail", Projected(disk, "release") \o marked \o Saved(r))
  BY DEF BuildFails
<1>2. /\ Sound(r) /\ r.stage = 5 /\ r.compiled = disk.record.compiled /\ ~r.ready
      /\ r.st[5] = "draft" /\ r.subRev = disk.record.subRev
  BY <1>1, Now, Building
<1>3. /\ Leads(S, disk, Projected(disk, "release"), p)
      /\ Built(p) /\ p.batch = disk.batch /\ p.data = disk.data
  BY <1>1, ProjectingKeeps
<1>4. p \in Disk /\ disk.batch \in W!Batch \cup {None} /\ IsDirectory(p)
  BY <1>3, Now, DiskIs, Entries DEF Built
<1>5. /\ b \in W!Batch \cup {None} /\ (b = None <=> disk.batch = None)
      /\ b # None => b.listed = disk.batch.listed /\ b.stamp = disk.batch.stamp /\ b.status # "completed"
  <2>1. CASE disk.batch = None
    BY <2>1
  <2>2. CASE disk.batch # None
    <3>1. b \in W!Batch /\ b.listed = disk.batch.listed /\ b.stamp = disk.batch.stamp /\ b.status = "failed"
      BY <1>4, <2>2 DEF W!Batch, W!BatchStatus
    <3> QED BY <2>2, <3>1, Contained
  <2> QED BY <2>1, <2>2
<1>6. b # None => marked = <<[batch |-> b]>>
  BY <1>5
<1>7. b = None => marked = <<>>
  BY <1>5
<1> HIDE DEF b, marked, r
<1>8. Built(e) /\ e.batch = b /\ e.data = disk.data
  BY <1>3, <1>4, <1>5, BuiltOn, DiskIs
<1>9. b = None => e = p
  BY <1>3, <1>4, <1>5, DiskIs
<1> HIDE DEF p
<1>10. Good(e, crashes) /\ Traced(disk, e) /\ e \in S
  <2>1. NoEditStops => (disk.record.ready /\ e.batch = None => Shut(e)) /\ Tally(e)
    <3> HIDE DEF e
    <3> QED BY <1>5, <1>8, Now DEF Pack, Shut, Tally, Built
  <2>2. disk.record.stage >= 5
    BY <1>1
  <2> HIDE DEF e
  <2> QED BY <1>8, <2>1, <2>2, BuiltGood
<1>11. S \in SUBSET Disk
  BY WayEnds
<1> HIDE DEF S
<1>12. Leads(S, p, marked, e)
  <2>1. p \in S
    BY <1>3, LeadsEnds
  <2>2. CASE b = None
    BY <1>4, <1>7, <1>9, <2>1, <2>2, LeadsNowhere
  <2>3. CASE b # None
    BY <1>6, <1>10, <1>11, <2>1, <2>3, Writes
  <2> QED BY <2>2, <2>3
<1> HIDE DEF e
<1>13. Good(f, crashes) /\ Traced(disk, f)
  <2>1. NoEditStops /\ r.compiled => e.source \in GoodSources
    BY <1>2, <1>8, Now DEF Pack, Built
  <2>2. e.record = disk.record
    BY <1>8 DEF Built
  <2> QED BY <1>2, <1>10, <2>1, <2>2, Now, RecordGood
<1>14. f \in S
  BY <1>13, WayEnds DEF S
<1>15. Leads(S, disk, Projected(disk, "release") \o marked \o Saved(r), f)
  BY <1>3, <1>11, <1>12, <1>14, LeadsOn, SavedLeads
<1> HIDE DEF f
<1> QED BY <1>1, <1>13, <1>15, Now, Moves DEF S

\* validate_and_solve
LEMMA ValidateKeeps ==
  ASSUME IndInv, Validate
  PROVE  Kept
<1> DEFINE p == [disk EXCEPT !.projection = "release"]
           b1 == [disk.batch EXCEPT !.status = "validating"]
           b2 == [disk.batch EXCEPT !.status = "completed"]
           x == [disk.data EXCEPT !.outs = disk.source]
           e1 == [p EXCEPT !.batch = b1]
           e2 == [e1 EXCEPT !.data = x]
           e3 == [e2 EXCEPT !.batch = b2]
           r == W!ValidationComplete(disk.record)
           f == [e3 EXCEPT !.record = r]
           S == Way("validate")
           Fits(e) == Built(e) /\ e.batch \in {b1, b2} /\ (e.batch = b2 => e.data = x) /\ e.data \in {x, disk.data}
<1>1. /\ Run("validate", Projected(disk, "release") \o <<[batch |-> b1], [data |-> x], [batch |-> b2]>> \o Saved(r))
      /\ disk.record.gen /\ disk.plans[4] # None /\ disk.batch # None /\ disk.batch.listed
      /\ disk.data.tests = Tests /\ Verified(disk)
  BY DEF Validate, W!MayValidate, Abstract
<1>2. disk.record.stage >= 7 /\ disk.record.st[5] = "passed"
  BY <1>1, Now, Staged
<1>3. /\ Sound(r) /\ r.stage = 8 /\ r.compiled = disk.record.compiled
      /\ r.st = disk.record.st /\ r.subRev = disk.record.subRev
  BY <1>2, Now, Building
<1>4. /\ Leads(S, disk, Projected(disk, "release"), p)
      /\ Built(p) /\ p.batch = disk.batch /\ p.data = disk.data
  <2>1. disk.record.stage >= 5
    BY <1>2, Now
  <2> QED BY <2>1, ProjectingKeeps
<1>5. p \in Disk /\ disk.batch \in W!Batch /\ disk.data \in DataSets /\ disk.source \in Sources
  BY <1>1, <1>4, Now, DiskIs DEF Built
<1>6. /\ b1 \in W!Batch /\ b1.listed = disk.batch.listed /\ b1.stamp = disk.batch.stamp /\ b1.status = "validating"
      /\ b2 \in W!Batch /\ b2.listed = disk.batch.listed /\ b2.stamp = disk.batch.stamp /\ b2.status = "completed"
      /\ b1 # None /\ b2 # None
  <2>1. /\ b1 \in W!Batch /\ b1.listed = disk.batch.listed /\ b1.stamp = disk.batch.stamp /\ b1.status = "validating"
        /\ b2 \in W!Batch /\ b2.listed = disk.batch.listed /\ b2.stamp = disk.batch.stamp /\ b2.status = "completed"
    BY <1>5 DEF W!Batch, W!BatchStatus
  <2> QED BY <2>1, Contained
<1>7. /\ x \in DataSets /\ x.tests = disk.data.tests /\ x.code = disk.data.code /\ x.plan = disk.data.plan
      /\ x.outs = disk.source
  BY <1>5 DEF DataSets
<1> HIDE DEF b1, b2, x, r, p
<1>8. Built(e1) /\ e1.batch = b1 /\ e1.data = disk.data
  BY <1>4, <1>5, <1>6, BuiltOn, DiskIs
<1>9. Built(e2) /\ e2.batch = b1 /\ e2.data = x
  <2>1. e1 \in Disk
    BY <1>8 DEF Built
  <2> HIDE DEF e1
  <2> QED BY <1>7, <1>8, <2>1, BuiltOn, DiskIs
<1>10. Built(e3) /\ e3.batch = b2 /\ e3.data = x
  <2>1. e2 \in Disk
    BY <1>9 DEF Built
  <2> HIDE DEF e2
  <2> QED BY <1>6, <1>9, <2>1, BuiltOn, DiskIs
<1>11. ASSUME NEW e, Fits(e)
      PROVE  Good(e, crashes) /\ Traced(disk, e) /\ e \in S
  <2>1. NoEditStops => (disk.record.ready /\ e.batch = None => Shut(e)) /\ Tally(e)
    <3>1. e.plans = disk.plans /\ e.input = disk.input
      BY <1>11 DEF Built
    <3> QED BY <1>1, <1>6, <1>7, <1>11, <3>1, Now, ZenonT(60) DEF Pack, Tally
  <2>2. disk.record.stage >= 5
    BY <1>2, Now
  <2> QED BY <1>11, <2>1, <2>2, BuiltGood
<1>12. /\ e1 \in S /\ e2 \in S /\ e3 \in S
       /\ Good(e3, crashes) /\ Traced(disk, e3)
  <2> HIDE DEF e1, e2, e3, S
  <2>1. Fits(e1) /\ Fits(e2) /\ Fits(e3)
    BY <1>6, <1>8, <1>9, <1>10
  <2> HIDE DEF Fits
  <2> QED BY <1>11, <2>1
<1> HIDE DEF Fits
<1>13. S \in SUBSET Disk /\ p \in S
  BY <1>4, WayEnds, LeadsEnds
<1> HIDE DEF S
<1>14. Leads(S, p, <<[batch |-> b1], [data |-> x], [batch |-> b2]>>, e3)
  <2>1. Leads(S, p, <<[batch |-> b1]>>, e1)
    BY <1>12, <1>13, Writes
  <2>2. Leads(S, e1, <<[data |-> x]>>, e2)
    BY <1>12, <1>13, Writes
  <2>3. Leads(S, e2, <<[batch |-> b2]>>, e3)
    BY <1>12, <1>13, Writes
  <2> HIDE DEF e1, e2, e3
  <2>4. Leads(S, p, <<[batch |-> b1]>> \o <<[data |-> x]>>, e2)
    BY <2>1, <2>2, LeadsOn
  <2>5. Leads(S, p, <<[batch |-> b1], [data |-> x]>>, e2)
    BY <2>4, Joined
  <2>6. Leads(S, p, <<[batch |-> b1], [data |-> x]>> \o <<[batch |-> b2]>>, e3)
    BY <2>3, <2>5, LeadsOn
  <2> QED BY <2>6, Joined
<1> HIDE DEF e3
<1>15. Good(f, crashes) /\ Traced(disk, f)
  <2>1. NoEditStops /\ r.compiled => e3.source \in GoodSources
    BY <1>3, <1>10, Now DEF Pack, Built
  <2>2. e3.record = disk.record /\ e3.released = disk.released
    BY <1>10 DEF Built
  <2>3. e3.batch # None /\ disk.released.parts = Sides
    BY <1>1, <1>6, <1>10 DEF Verified
  <2> QED BY <1>3, <1>12, <2>1, <2>2, <2>3, Now, RecordGood
<1>16. f \in S
  BY <1>15, WayEnds DEF S
<1>17. Leads(S, disk, Projected(disk, "release") \o <<[batch |-> b1], [data |-> x], [batch |-> b2]>> \o Saved(r), f)
  BY <1>4, <1>13, <1>14, <1>16, LeadsOn, SavedLeads
<1> HIDE DEF f
<1> QED BY <1>1, <1>15, <1>17, Now, Moves DEF S

\* The writing of the test cases, one after the other.
Writings(plan, code) ==
  LET order == SetToSeq(Tests)
  IN  [i \in 1 .. Cardinality(Tests) |->
         [tests |-> Range(SubSeq(order, 1, i)), code |-> code, plan |-> plan, outs |-> None]]

\* At the end every test case is there.
LEMMA WritingsAre ==
  ASSUME NEW plan \in Contents, NEW code \in Contents
  PROVE  LET n == Cardinality(Tests)
             X == Writings(plan, code) IN
         /\ n \in Nat /\ X \in [1 .. n -> DataSets] /\ (n = 0 <=> Tests = {})
         /\ n # 0 => X[n] = [tests |-> Tests, code |-> code, plan |-> plan, outs |-> None]
         /\ [i \in DOMAIN SetToSeq(Tests) |->
               [data |-> [tests |-> Range(SubSeq(SetToSeq(Tests), 1, i)), code |-> code, plan |-> plan, outs |-> None]]]
            = [i \in 1 .. n |-> [data |-> X[i]]]
<1> DEFINE n == Cardinality(Tests)
           order == SetToSeq(Tests)
           X == Writings(plan, code)
<1>1. /\ n \in Nat /\ order \in Seq(Tests) /\ Len(order) = n /\ Range(order) = Tests /\ (n = 0 <=> Tests = {})
  BY StoreAssumption, Ordering
<1> HIDE DEF order, n
<1>2. DOMAIN order = 1 .. n
  BY <1>1
<1>3. ASSUME NEW i \in 1 .. n PROVE Range(SubSeq(order, 1, i)) \in SUBSET Tests
  <2>1. SubSeq(order, 1, i) \in Seq(Tests)
    BY <1>1
  <2> QED BY <2>1 DEF Range
<1>4. X = [i \in 1 .. n |->
             [tests |-> Range(SubSeq(order, 1, i)), code |-> code, plan |-> plan, outs |-> None]]
  BY DEF Writings, order, n
<1>5. X \in [1 .. n -> DataSets]
  <2>1. \A i \in 1 .. n :
           [tests |-> Range(SubSeq(order, 1, i)), code |-> code, plan |-> plan, outs |-> None] \in DataSets
    BY <1>3 DEF DataSets
  <2> QED BY <1>4, <2>1
<1>6. n # 0 => X[n] = [tests |-> Tests, code |-> code, plan |-> plan, outs |-> None]
  <2>1. SubSeq(order, 1, n) = order
    BY <1>1
  <2>2. n # 0 => n \in 1 .. n
    BY <1>1
  <2> HIDE DEF X
  <2> QED BY <1>1, <1>4, <2>1, <2>2
<1>7. [i \in DOMAIN order |->
         [data |-> [tests |-> Range(SubSeq(order, 1, i)), code |-> code, plan |-> plan, outs |-> None]]]
      = [i \in 1 .. n |-> [data |-> X[i]]]
  BY <1>2, <1>4
<1> QED BY <1>1, <1>5, <1>6, <1>7 DEF order, n

\* generate_inputs
LEMMA GenerateKeeps ==
  ASSUME IndInv, Generate
  PROVE  Kept
<1> DEFINE man(status) == [status |-> status, stamp |-> W!CurrentStamp(disk.record, Abstract(disk)),
                           listed |-> status # "generating"]
           code == disk.released.draft.c
           plan == disk.plans[4].c
           n == Cardinality(Tests)
           X == Writings(plan, code)
           order == SetToSeq(Tests)
           written == [i \in DOMAIN order |->
                         [data |-> [tests |-> Range(SubSeq(order, 1, i)), code |-> code, plan |-> plan, outs |-> None]]]
           p == [disk EXCEPT !.projection = "release"]
           b1 == man("generating")
           b2 == man("generated")
           e1 == [p EXCEPT !.batch = b1]
           e2 == DataCleared0(e1)
           e3 == IF n = 0 THEN e2 ELSE [e2 EXCEPT !.data = X[n]]
           e4 == [e3 EXCEPT !.batch = b2]
           r == W!GenerationComplete(disk.record)
           f == [e4 EXCEPT !.record = r]
           S == Way("generate")
           Fits(e) ==
             /\ Built(e)
             /\ \/ e.batch = b1
                \/ e.batch = b2 /\ e.data.tests = Tests
                      /\ (Tests # {} => e.data.code = code /\ e.data.plan = plan)
<1>1. /\ Run("generate", Projected(disk, "release") \o <<[batch |-> b1]>> \o DataCleared(disk) \o written
                           \o <<[batch |-> b2]>> \o Saved(r))
      /\ disk.record.st[5] = "passed" /\ disk.plans[4] # None /\ Verified(disk)
  BY DEF Generate, W!MayGenerate, Abstract
<1>2. disk.record.stage >= 6 /\ disk.record.stage >= 5
  BY <1>1, Now, Staged
<1>3. /\ Sound(r) /\ r.stage = 7 /\ r.compiled = disk.record.compiled /\ ~r.ready
      /\ r.st = disk.record.st /\ r.subRev = disk.record.subRev
  BY <1>2, Now, Building
<1>4. /\ Leads(S, disk, Projected(disk, "release"), p)
      /\ Built(p) /\ p.batch = disk.batch /\ p.data = disk.data
  BY <1>2, ProjectingKeeps
<1>5. code \in Contents /\ plan \in Contents /\ disk.released.draft = Release(disk)
  <2>1. Release(disk) # None /\ Release(disk) = disk.released.draft
    BY <1>1 DEF Verified, Release
  <2>2. Release(disk) \in W!Draft /\ disk.plans[4] \in W!Draft
    BY <1>1, <2>1, Now, DraftsType, DiskIs DEF Plans
  <2> QED BY <2>1, <2>2 DEF W!Draft
<1>6. /\ b1 \in W!Batch /\ b1 # None /\ ~b1.listed /\ b1.status = "generating" /\ b1.stamp.code = code
      /\ b2 \in W!Batch /\ b2 # None /\ b2.listed /\ b2.status = "generated" /\ b2.stamp.code = code
  <2>1. W!CurrentStamp(disk.record, Abstract(disk)) \in W!Stamp
        /\ W!CurrentStamp(disk.record, Abstract(disk)).code = code
    <3>1. disk.record.wfRev \in Nat /\ disk.record.inRev \in Nat /\ disk.record.subRev \in Nat
      BY Now DEF Sound, W!ProjectRecord
    <3>2. Abstract(disk).release = disk.released.draft
      BY <1>5 DEF Abstract
    <3> QED BY <1>5, <3>1, <3>2 DEF W!CurrentStamp, W!Stamp
  <2>2. b1 \in W!Batch /\ b2 \in W!Batch
    BY <2>1 DEF W!Batch, W!BatchStatus
  <2> QED BY <2>1, <2>2, Contained
<1>7. /\ n \in Nat /\ X \in [1 .. n -> DataSets] /\ (n = 0 <=> Tests = {})
      /\ n # 0 => X[n] = [tests |-> Tests, code |-> code, plan |-> plan, outs |-> None]
      /\ written = [i \in 1 .. n |-> [data |-> X[i]]]
  BY <1>5, WritingsAre
<1> HIDE DEF b1, b2, man, r, p, X, n, written, code, plan
<1>8. Built(e1) /\ e1 \in Disk /\ e1.batch = b1 /\ e1.data = disk.data
  <2>1. p \in Disk
    BY <1>4 DEF Built
  <2> QED BY <1>4, <1>6, <2>1, BuiltOn, DiskIs DEF Built
<1> HIDE DEF e1
<1>9. ASSUME NEW e, Fits(e)
      PROVE  Good(e, crashes) /\ Traced(disk, e) /\ e \in S
  <2>1. NoEditStops => (disk.record.ready /\ e.batch = None => Shut(e)) /\ Tally(e)
    <3>1. e.plans = disk.plans
      BY <1>9 DEF Built
    <3> QED BY <1>1, <1>6, <1>9, <3>1 DEF Tally, plan
  <2> QED BY <1>2, <1>9, <2>1, BuiltGood
<1>10. ASSUME NEW e, Built(e), e.batch = b1 PROVE Handling(e) \subseteq S
  <2> SUFFICES ASSUME NEW x \in DataSets PROVE [e EXCEPT !.data = x] \in S
    BY DEF Handling
  <2>1. Built([e EXCEPT !.data = x]) /\ [e EXCEPT !.data = x].batch = b1
    BY <1>10, BuiltOn, DiskIs DEF Built
  <2> DEFINE y == [e EXCEPT !.data = x]
  <2>2. Fits(y)
    BY <2>1
  <2> HIDE DEF S, Fits, y
  <2>3. y \in S
    BY <1>9, <2>2
  <2> QED BY <2>3 DEF y
<1>11. Built(e2) /\ e2 \in Disk /\ e2.batch = b1
  <2>1. NoData \in DataSets
    BY <1>8, HandlingType
  <2> QED BY <1>8, <2>1, BuiltOn, DiskIs DEF DataCleared0, Built
<1>12. Leads(S, e1, DataCleared(disk), e2)
  <2>1. DataCleared(disk) = DataCleared(e1)
    BY <1>8 DEF DataCleared
  <2>2. Leads(Handling(e1), e1, DataCleared(e1), e2)
    BY <1>8, DataClearedLeads
  <2> HIDE DEF S, e2
  <2> QED BY <1>8, <1>10, <2>1, <2>2, LeadsWider
<1> HIDE DEF e2
<1>13. Leads(S, e2, written, e3)
  <2>1. Leads(Handling(e2), e2, written, e3)
    BY <1>7, <1>11, DataWrites
  <2> HIDE DEF S, e3
  <2> QED BY <1>10, <1>11, <2>1, LeadsWider
<1>14. /\ Built(e3) /\ e3 \in Disk /\ e3.batch = b1
       /\ e3.data.tests = Tests /\ (Tests # {} => e3.data.code = code /\ e3.data.plan = plan)
  <2>1. CASE n = 0
    <3>1. e3 = e2 /\ Tests = {}
      BY <1>7, <2>1
    <3>2. e3 \in Disk
      BY <1>11, <3>1
    <3>3. e3.data.tests \in SUBSET Tests
      BY <3>2, DiskIs DEF DataSets
    <3> HIDE DEF e3
    <3> QED BY <1>11, <3>1, <3>3
  <2>2. CASE n # 0
    <3>1. X[n] \in DataSets /\ e3 = [e2 EXCEPT !.data = X[n]]
      BY <1>7, <2>2
    <3>2. Built(e3) /\ e3 \in Disk /\ e3.batch = b1 /\ e3.data = X[n]
      BY <1>11, <3>1, BuiltOn, DiskIs DEF Built
    <3> QED BY <1>7, <2>2, <3>2
  <2> QED BY <2>1, <2>2
<1> HIDE DEF e3
<1>15. Built(e4) /\ e4.batch = b2 /\ e4.data = e3.data
  BY <1>6, <1>14, BuiltOn, DiskIs
<1> HIDE DEF e4
<1>16. Fits(e1) /\ Fits(e4)
  BY <1>8, <1>14, <1>15
<1> HIDE DEF Fits
<1>17. Good(e4, crashes) /\ Traced(disk, e4) /\ e4 \in S /\ e1 \in S
  <2> HIDE DEF S
  <2> QED BY <1>9, <1>16
<1>18. S \in SUBSET Disk /\ p \in S /\ e3 \in S
  <2>1. S \in SUBSET Disk
    BY WayEnds
  <2> HIDE DEF S
  <2> QED BY <1>4, <1>13, <2>1, LeadsEnds
<1> HIDE DEF S
<1>19. Leads(S, p, <<[batch |-> b1]>>, e1)
  BY <1>17, <1>18, Writes DEF e1
<1>20. Leads(S, e3, <<[batch |-> b2]>>, e4)
  BY <1>17, <1>18, Writes DEF e4
<1>21. Good(f, crashes) /\ Traced(disk, f)
  <2>1. NoEditStops /\ r.compiled => e4.source \in GoodSources
    BY <1>3, <1>15, Now DEF Pack, Built
  <2>2. e4.record = disk.record /\ e4.released = disk.released
    BY <1>15 DEF Built
  <2>3. disk.released.parts = Sides
    BY <1>1 DEF Verified
  <2> QED BY <1>3, <1>17, <2>1, <2>2, <2>3, Now, RecordGood
<1>22. f \in S
  BY <1>21, WayEnds DEF S
<1>23. Leads(S, disk, Projected(disk, "release") \o <<[batch |-> b1]>> \o DataCleared(disk) \o written
                        \o <<[batch |-> b2]>>, e4)
  <2>1. Leads(S, disk, Projected(disk, "release") \o <<[batch |-> b1]>>, e1)
    BY <1>4, <1>19, LeadsOn
  <2>2. Leads(S, disk, Projected(disk, "release") \o <<[batch |-> b1]>> \o DataCleared(disk), e2)
    BY <1>12, <2>1, LeadsOn
  <2>3. Leads(S, disk, Projected(disk, "release") \o <<[batch |-> b1]>> \o DataCleared(disk) \o written, e3)
    BY <1>13, <2>2, LeadsOn
  <2> QED BY <1>20, <2>3, LeadsOn
<1>24. Leads(S, disk, Projected(disk, "release") \o <<[batch |-> b1]>> \o DataCleared(disk) \o written
                        \o <<[batch |-> b2]>> \o Saved(r), f)
  BY <1>18, <1>22, <1>23, SavedLeads
<1> HIDE DEF f
<1> QED BY <1>1, <1>21, <1>24, Now, Moves DEF S

-----------------------------------------------------------------------------
(* The methods of Workflow, in one step *)

\* What the methods of Workflow make of a directory of these entries.
As(draft, release, proj, batch, data) ==
  [draft |-> draft, release |-> release, proj |-> proj, batch |-> batch, data |-> data]

\* The drafts, cut after a stage, before a stage, and with one put in.
UpTo(draft, s) == [t \in 3..5 |-> IF t > s THEN None ELSE draft[t]]
Before(draft, s) == [t \in 3..5 |-> IF t >= s THEN None ELSE draft[t]]
Put(draft, s, new) == [draft EXCEPT ![s] = new]

\* One entry, or one after the other.
LEMMA Entered ==
  ASSUME NEW u, NEW v, NEW w, NEW x, NEW y
  PROVE  /\ \A z : [As(u, v, w, x, y) EXCEPT !.draft = z] = As(z, v, w, x, y)
         /\ \A z : [As(u, v, w, x, y) EXCEPT !.release = z] = As(u, z, w, x, y)
         /\ \A z : [As(u, v, w, x, y) EXCEPT !.proj = z] = As(u, v, z, x, y)
         /\ \A z : [As(u, v, w, x, y) EXCEPT !.batch = z] = As(u, v, w, z, y)
         /\ \A z : [As(u, v, w, x, y) EXCEPT !.data = z] = As(u, v, w, x, z)
         /\ As(u, v, w, x, y).draft = u /\ As(u, v, w, x, y).release = v
         /\ As(u, v, w, x, y).batch = x /\ As(u, v, w, x, y).data = y
BY DEF As

\* Each method of Workflow, entry by entry.
LEMMA InWorkflow ==
  ASSUME NEW u, NEW v, NEW w, NEW x, NEW y, NEW s \in 2..5, NEW draft
  PROVE  LET a == As(u, v, w, x, y) IN
         /\ W!ArtifactsInvalidated(a, s) =
              LET left == IF s < 5 THEN None ELSE v
              IN  As(UpTo(u, s), left,
                     IF left = None THEN "working" ELSE "release", None, None)
         /\ W!WorkingDraftCleared(a, s) =
              As(Before(u, s), v,
                 IF v = None THEN "working" ELSE "release", x, y)
         /\ W!DraftSaved(a, s, draft) = As(Put(u, s, draft), v, IF s = 5 THEN "working" ELSE w, x, y)
         /\ W!ReleaseFrozen(a) =
              As(u, IF v # None /\ v.c = u[5].c THEN v ELSE u[5], "release", x, y)
<1> DEFINE a == As(u, v, w, x, y)
           after == UpTo(u, s)
           left == IF s < 5 THEN None ELSE v
           before == Before(u, s)
           put == Put(u, s, draft)
           kept == IF v # None /\ v.c = u[5].c THEN v ELSE u[5]
<1>0. a.draft = u /\ a.release = v
  BY Entered
<1>1. W!ArtifactsInvalidated(a, s) = As(after, left, IF left = None THEN "working" ELSE "release", None, None)
  <2>1. [a EXCEPT !.draft = after, !.release = left, !.batch = None, !.data = None] = As(after, left, w, None, None)
    <3> HIDE DEF a, after, left
    <3>1. [a EXCEPT !.draft = after, !.release = left, !.batch = None, !.data = None]
          = [[[[a EXCEPT !.draft = after] EXCEPT !.release = left] EXCEPT !.batch = None] EXCEPT !.data = None]
      OBVIOUS
    <3>2. [a EXCEPT !.draft = after] = As(after, v, w, x, y)
      BY Entered DEF a
    <3>3. [As(after, v, w, x, y) EXCEPT !.release = left] = As(after, left, w, x, y)
      BY Entered
    <3>4. [As(after, left, w, x, y) EXCEPT !.batch = None] = As(after, left, w, None, y)
      BY Entered
    <3>5. [As(after, left, w, None, y) EXCEPT !.data = None] = As(after, left, w, None, None)
      BY Entered
    <3> QED BY <3>1, <3>2, <3>3, <3>4, <3>5
  <2>2. W!ArtifactsInvalidated(a, s) =
          W!EnsureProjection([a EXCEPT !.draft = after, !.release = left, !.batch = None, !.data = None])
    BY <1>0, SameRecord DEF W!ArtifactsInvalidated, UpTo
  <2> HIDE DEF a, after, left
  <2>3. W!EnsureProjection(As(after, left, w, None, None))
        = As(after, left, IF left = None THEN "working" ELSE "release", None, None)
    BY Entered DEF W!EnsureProjection, W!Project
  <2> QED BY <2>1, <2>2, <2>3
<1>2. W!WorkingDraftCleared(a, s) = As(before, v, IF v = None THEN "working" ELSE "release", x, y)
  <2>1. [a EXCEPT !.draft = before] = As(before, v, w, x, y)
    <3> HIDE DEF before
    <3> QED BY Entered
  <2>2. W!WorkingDraftCleared(a, s) = W!EnsureProjection([a EXCEPT !.draft = before])
    BY <1>0, SameRecord DEF W!WorkingDraftCleared, Before
  <2> HIDE DEF a, before
  <2>3. W!EnsureProjection(As(before, v, w, x, y))
        = As(before, v, IF v = None THEN "working" ELSE "release", x, y)
    BY Entered DEF W!EnsureProjection, W!Project
  <2> QED BY <2>1, <2>2, <2>3
<1>3. W!DraftSaved(a, s, draft) = As(put, v, IF s = 5 THEN "working" ELSE w, x, y)
  <2>1. [a EXCEPT !.draft[s] = draft] = [a EXCEPT !.draft = put]
    BY <1>0 DEF Put
  <2>2. [a EXCEPT !.draft = put] = As(put, v, w, x, y)
    <3> HIDE DEF put
    <3> QED BY Entered
  <2>3. W!DraftSaved(a, s, draft) = IF s = 5 THEN W!Project([a EXCEPT !.draft[s] = draft], "working")
                                    ELSE [a EXCEPT !.draft[s] = draft]
    BY DEF W!DraftSaved
  <2> HIDE DEF a, put
  <2>4. W!Project(As(put, v, w, x, y), "working") = As(put, v, "working", x, y)
    BY Entered DEF W!Project
  <2> QED BY <2>1, <2>2, <2>3, <2>4
<1>4. W!ReleaseFrozen(a) = As(u, kept, "release", x, y)
  <2>1. [a EXCEPT !.release = kept] = As(u, kept, w, x, y)
    <3> HIDE DEF kept
    <3> QED BY Entered
  <2>2. W!ReleaseFrozen(a) = W!Project([a EXCEPT !.release = kept], "release")
    BY <1>0 DEF W!ReleaseFrozen
  <2> HIDE DEF a, kept
  <2>3. W!Project(As(u, kept, w, x, y), "release") = As(u, kept, "release", x, y)
    BY Entered DEF W!Project
  <2> QED BY <2>1, <2>2, <2>3
<1> QED BY <1>1, <1>2, <1>3, <1>4

\* What Abstract takes from a directory.
Files(d) == IF d.data.tests = {} THEN None
            ELSE [code |-> d.data.code, plan |-> d.data.plan, outs |-> d.data.outs,
                  whole |-> d.data.tests = Tests]
Drafts(d) == [s \in 3..5 |-> IF s = 5 THEN Draft5(d) ELSE d.plans[s]]
Link(d) == IF d.projection = "release" THEN "release" ELSE "working"

\* A directory as Workflow has it, entry by entry.
LEMMA AbstractIs ==
  ASSUME NEW d
  PROVE  Abstract(d) = As(Drafts(d), Release(d), Link(d), d.batch, Files(d))
BY DEF Abstract, As, Files, Drafts, Link

\* invalidate_downstream_artifacts is the step Workflow has for it.
LEMMA InvalidatedAgrees ==
  ASSUME IndInv, NEW s \in 2..5, NEW first \in Sides
  PROVE  Abstract(After(disk, Invalidated(disk, s, first))) = W!ArtifactsInvalidated(Abstract(disk), s)
<1> DEFINE f == InvalidatedTo(disk, s)
<1>1. After(disk, Invalidated(disk, s, first)) = f
  BY Now, InvalidatedLeads, LeadsEnds
<1>2. /\ f.plans = PlansUpTo(disk, s) /\ f.batch = None /\ f.projection = Place(f)
      /\ s = 5 => f.current = disk.current /\ f.work = disk.work /\ f.released = disk.released
      /\ s # 5 => f.current = None /\ f.released.parts = {}
      /\ f.data = IF disk.data.tests = {} THEN disk.data ELSE NoData
  BY Now, InvalidatedFacts
<1> HIDE DEF f
<1>3. f.data.tests = {}
  BY <1>2 DEF NoData
<1>4. Release(f) = IF s < 5 THEN None ELSE Release(disk)
  BY <1>2 DEF Release
<1>5. Draft5(f) = IF 5 > s THEN None ELSE Draft5(disk)
  BY <1>2 DEF Draft5
<1>6. \A t \in 3..4 : f.plans[t] = IF t > s THEN None ELSE disk.plans[t]
  BY <1>2 DEF PlansUpTo
<1>7. Drafts(f) = UpTo(Drafts(disk), s)
  <2>1. \A t \in 3..5 : t = 5 \/ t \in 3..4
    OBVIOUS
  <2> QED BY <1>5, <1>6, <2>1 DEF Drafts, UpTo
<1>8. Link(f) = (IF Release(f) = None THEN "working" ELSE "release") /\ Files(f) = None
  BY <1>2, <1>3 DEF Place, Link, Files
<1>9. W!ArtifactsInvalidated(Abstract(disk), s) =
        As(UpTo(Drafts(disk), s), Release(f),
           IF Release(f) = None THEN "working" ELSE "release", None, None)
  BY <1>4, AbstractIs, InWorkflow
<1>10. Abstract(f) = As(Drafts(f), Release(f), Link(f), None, None)
  BY <1>2, <1>8, AbstractIs
<1> QED BY <1>1, <1>7, <1>8, <1>9, <1>10

\* So is clear_working_draft.
LEMMA ClearedAgrees ==
  ASSUME IndInv, NEW s \in 3..5
  PROVE  Abstract(After(disk, WorkingCleared(disk, s))) = W!WorkingDraftCleared(Abstract(disk), s)
<1> DEFINE f == ClearedTo(disk, s)
<1>1. After(disk, WorkingCleared(disk, s)) = f
  BY Now, ClearedLeads, LeadsEnds
<1>2. /\ f.plans = PlansBefore(disk, s) /\ f.current = None /\ f.projection = Place(disk)
      /\ f.released = disk.released /\ f.batch = disk.batch /\ f.data = disk.data
  BY Now, DiskIs DEF ClearedTo
<1> HIDE DEF f
<1>3. Release(f) = Release(disk) /\ Draft5(f) = None
  BY <1>2 DEF Release, Draft5
<1>4. \A t \in 3..4 : f.plans[t] = IF t >= s THEN None ELSE disk.plans[t]
  BY <1>2 DEF PlansBefore
<1>5. Drafts(f) = Before(Drafts(disk), s)
  <2>1. \A t \in 3..5 : t = 5 \/ t \in 3..4
    OBVIOUS
  <2> QED BY <1>3, <1>4, <2>1 DEF Drafts, Before
<1>6. Link(f) = (IF Release(disk) = None THEN "working" ELSE "release") /\ Files(f) = Files(disk)
  BY <1>2 DEF Place, Link, Files
<1>7. W!WorkingDraftCleared(Abstract(disk), s) =
        As(Before(Drafts(disk), s), Release(disk),
           IF Release(disk) = None THEN "working" ELSE "release", disk.batch, Files(disk))
  BY AbstractIs, InWorkflow
<1>8. Abstract(f) = As(Drafts(f), Release(disk), Link(f), disk.batch, Files(disk))
  BY <1>2, <1>3, <1>6, AbstractIs
<1> QED BY <1>1, <1>5, <1>6, <1>7, <1>8

\* So are save_draft and save_code_draft.
LEMMA DraftedAgrees ==
  ASSUME IndInv, NEW s \in 3..5, NEW c \in Contents
  PROVE  Abstract(After(disk, Drafted(s, c)))
         = W!DraftSaved(Abstract(disk), s, Draft(s, c, disk.record.inRev, disk.record.subRev))
<1> DEFINE draft == Draft(s, c, disk.record.inRev, disk.record.subRev)
           f == DraftedTo(s, c)
<1>1. After(disk, Drafted(s, c)) = f
  <2>2. draft \in W!Draft
    BY Now, DraftType
  <2>3. CASE s = 5
    <3>1. Leads(Saving(disk, draft), disk, CodeSaved(disk, draft), CodeSavedTo(disk, draft))
      BY <2>2, Now, SavingGood
    <3>2. Drafted(s, c) = CodeSaved(disk, draft) /\ f = CodeSavedTo(disk, draft)
      BY <2>3 DEF Drafted, DraftedTo
    <3> HIDE DEF f, draft
    <3> QED BY <3>1, <3>2, LeadsEnds
  <2>4. CASE s # 5
    <3> DEFINE plans == [disk.plans EXCEPT ![s] = draft]
    <3>1. Drafted(s, c) = <<[plans |-> plans]>> /\ f = [disk EXCEPT !.plans = plans]
      BY <2>4 DEF Drafted, DraftedTo, Written
    <3>2. f \in Disk
      BY DraftedFacts
    <3> HIDE DEF f, plans
    <3>3. Leads(Disk, disk, <<[plans |-> plans]>>, f)
      BY <3>1, <3>2, Now, Writes
    <3> QED BY <3>1, <3>3, LeadsEnds
  <2> QED BY <2>3, <2>4
<1>2. f.released = disk.released /\ f.batch = disk.batch /\ f.data = disk.data
  BY DraftedFacts
<1>3. /\ s # 5 => f.current = disk.current /\ f.work = disk.work /\ f.projection = disk.projection
      /\ s = 5 => f.projection = "working"
  BY Now, DiskIs DEF DraftedTo, CodeSavedTo
<1>4. \A t \in 3..4 : f.plans[t] = IF t = s THEN draft ELSE disk.plans[t]
  <2>1. s = 5 => f.plans = disk.plans
    BY DraftedFacts
  <2>2. s < 5 => \A t \in 3..4 : f.plans[t] = IF t = s THEN draft ELSE disk.plans[t]
    BY DraftedFacts
  <2>3. s < 5 \/ (s = 5 /\ \A t \in 3..4 : t # s)
    OBVIOUS
  <2> HIDE DEF f, draft
  <2> QED BY <2>1, <2>2, <2>3
<1>5. Draft5(f) = IF s = 5 THEN draft ELSE Draft5(disk)
  <2>1. CASE s # 5
    BY <1>3, <2>1 DEF Draft5
  <2>2. CASE s = 5
    <3>1. f = CodeSavedTo(disk, draft) /\ draft \in W!Draft
      BY <2>2, Now, DraftType DEF DraftedTo
    <3>2. f.current = New(disk) /\ f.work = WorksLeft(disk, draft)
      BY <3>1, Now, DiskIs DEF CodeSavedTo
    <3> HIDE DEF f, draft
    <3>3. New(disk) \in Dirs /\ disk.work[New(disk)] = None /\ disk.work \in Works
      BY Now, NewExists, NewFree, DiskIs
    <3>4. Works1(disk, draft, TRUE) \in Works /\ WorksLeft(disk, draft) \in Works
      BY <3>1, Now, NewExists, SavingType
    <3>5. Works1(disk, draft, TRUE)[New(disk)] = [draft |-> draft, whole |-> TRUE]
      BY <3>3 DEF Works1, Works
    <3>6. disk.current # None => disk.current # New(disk)
      BY <3>3, Now DEF CodeWhole
    <3>7. WorksLeft(disk, draft)[New(disk)] = [draft |-> draft, whole |-> TRUE]
      BY <3>3, <3>4, <3>5, <3>6 DEF WorksLeft, Works
    <3>8. [draft |-> draft, whole |-> TRUE] # None
      <4>1. [draft |-> draft, whole |-> TRUE] \in [draft: W!Draft, whole: BOOLEAN]
        BY <3>1
      <4> QED BY <4>1, StoreAssumption
    <3>9. New(disk) # None
      BY <3>3, Contained
    <3> QED BY <2>2, <3>2, <3>7, <3>8, <3>9 DEF Draft5
  <2> QED BY <2>1, <2>2
<1> HIDE DEF f, draft
<1>6. Drafts(f) = Put(Drafts(disk), s, draft)
  <2>1. \A t \in 3..5 : t = 5 \/ t \in 3..4
    OBVIOUS
  <2>2. \A t \in 3..5 : Drafts(f)[t] = IF t = s THEN draft ELSE Drafts(disk)[t]
    BY <1>4, <1>5, <2>1 DEF Drafts
  <2> QED BY <2>2 DEF Drafts, Put
<1>7. Link(f) = (IF s = 5 THEN "working" ELSE Link(disk)) /\ Files(f) = Files(disk)
      /\ Release(f) = Release(disk)
  BY <1>2, <1>3 DEF Link, Files, Release
<1>8. W!DraftSaved(Abstract(disk), s, draft) =
        As(Put(Drafts(disk), s, draft), Release(disk),
           IF s = 5 THEN "working" ELSE Link(disk), disk.batch, Files(disk))
  BY AbstractIs, InWorkflow
<1>9. Abstract(f) = As(Drafts(f), Release(disk), Link(f), disk.batch, Files(disk))
  BY <1>2, <1>7, AbstractIs
<1> QED BY <1>1, <1>6, <1>7, <1>8, <1>9 DEF draft

\* So is freeze_code_release.
LEMMA FrozenAgrees ==
  ASSUME IndInv, Draft5(disk) # None
  PROVE  Abstract(After(disk, Frozen(disk))) = W!ReleaseFrozen(Abstract(disk))
<1> DEFINE f == FrozenTo(disk)
           same == Release(disk) # None /\ Release(disk).c = Draft5(disk).c
<1>1. After(disk, Frozen(disk)) = f
  BY Now, FrozenLeads, LeadsEnds
<1>2. /\ f.plans = disk.plans /\ f.current = disk.current /\ f.work = disk.work /\ f.projection = "release"
      /\ f.batch = disk.batch /\ f.data = disk.data
      /\ f.released = IF same THEN disk.released ELSE Snapshot(disk)
  BY Now, DiskIs DEF FrozenTo, SameRelease
<1> HIDE DEF f
<1>3. Drafts(f) = Drafts(disk) /\ Drafts(disk)[5] = Draft5(disk)
  BY <1>2 DEF Draft5, Drafts
<1>4. Release(f) = IF same THEN Release(disk) ELSE Draft5(disk)
  BY <1>2 DEF Release, Snapshot, Sides
<1>5. Link(f) = "release" /\ Files(f) = Files(disk)
  BY <1>2 DEF Link, Files
<1>6. W!ReleaseFrozen(Abstract(disk)) =
        As(Drafts(disk), IF same THEN Release(disk) ELSE Draft5(disk), "release", disk.batch, Files(disk))
  <2>1. 5 \in 2..5
    OBVIOUS
  <2> QED BY <1>3, <2>1, AbstractIs, InWorkflow
<1>7. Abstract(f) = As(Drafts(disk), Release(f), "release", disk.batch, Files(disk))
  BY <1>2, <1>3, <1>5, AbstractIs
<1> QED BY <1>1, <1>4, <1>6, <1>7

-----------------------------------------------------------------------------
(* Theorems *)

\* A project that has come to stage 5 is sound.
LEMMA InitInv == Init => IndInv
<1> SUFFICES ASSUME Init PROVE IndInv
  OBVIOUS
<1>1. PICK src \in GoodSources, c3 \in Texts(3), c4 \in Texts(4) :
        /\ disk.source = src /\ disk.input = [src |-> src, rev |-> 1]
        /\ disk.record = [stage |-> 5, compiled |-> TRUE, inRev |-> 1, subRev |-> 1, wfRev |-> 1,
                          codeIn |-> None, codeSub |-> None, threads |-> {},
                          st |-> [s \in 3..5 |-> IF s < 5 THEN "passed" ELSE "draft"],
                          gen |-> FALSE, ready |-> FALSE]
        /\ disk.plans = [s \in 3..4 |->
             IF s = 3 THEN [c |-> c3, src |-> src, up |-> None, inRev |-> None, subRev |-> None]
             ELSE [c |-> c4, src |-> src, up |-> c3, inRev |-> None, subRev |-> None]]
        /\ disk.work = Nothing /\ disk.current = None /\ disk.released = NoRelease
        /\ disk.history = {} /\ disk.projection = "working" /\ disk.batch = None /\ disk.data = NoData
        /\ disk = [source |-> disk.source, input |-> disk.input, record |-> disk.record, plans |-> disk.plans,
                   work |-> disk.work, current |-> disk.current, released |-> disk.released,
                   history |-> disk.history, projection |-> disk.projection, batch |-> disk.batch,
                   data |-> disk.data]
  BY DEF Init, Nothing
<1>2. src \in Sources /\ c3 \in Contents /\ c4 \in Contents
  BY StoreAssumption, Contained
<1>3. disk.input \in W!GlobalInput
  BY <1>1, <1>2 DEF W!GlobalInput
<1>4. Sound(disk.record)
  BY <1>1 DEF Sound, W!ProjectRecord, W!Interactive, W!Status, InOrder
<1>5. disk.plans \in Plans
  BY <1>1, <1>2 DEF Plans, W!Draft
<1>6. disk.work \in Works /\ disk.released \in Releases /\ disk.data \in DataSets
  BY <1>1 DEF Works, Nothing, Releases, DataSets, NoData
<1>7. disk \in Disk
  BY <1>1, <1>2, <1>3, <1>4, <1>5, <1>6, DiskIs DEF Sound
<1>8. crashes = 0 /\ 0 \in 0 .. MaxCrashes
  BY DirsFinite DEF Init
<1>9. CodeWhole(disk) /\ Room(disk, 0)
  BY <1>1, RoomEmpty DEF CodeWhole
<1>10. Ahead(disk) /\ Conf(disk) /\ Pack(disk)
  BY <1>1, <1>4 DEF Ahead, Conf, Pack, Shut, NoRelease
<1> QED BY <1>7, <1>8, <1>9, <1>10 DEF IndInv, Good, Safe

\* And so is what any step, or stop, makes of it.
LEMMA NextKeeps ==
  ASSUME IndInv, [Next]_vars
  PROVE  Kept
<1>1. ASSUME NEW src \in Sources, UpdateSolution(src) PROVE Kept
  BY <1>1, UpdateSolutionKeeps
<1>2. ASSUME NEW ok \in BOOLEAN, CompileSolution(ok) PROVE Kept
  BY <1>2, CompileKeeps
<1>3. ASSUME NEW s \in 3..5, NEW c \in Texts(s), SaveUserDraft(s, c) PROVE Kept
  BY <1>3, Contained, UserDraftKeeps
<1>4. ASSUME NEW s \in 3..5, NEW c \in Texts(s), AgentPasses(s, c) PROVE Kept
  BY <1>4, Contained, AgentPassesKeeps
<1>5. ASSUME NEW s \in 3..5, RunStage(s) PROVE Kept
  BY <1>5, RunStageKeeps
<1>6. ASSUME NEW s \in 3..5, AgentFails(s) PROVE Kept
  BY <1>6, AgentFailsKeeps
<1>7. ASSUME NEW s \in 3..5, AutoResume(s) PROVE Kept
  BY <1>7, ResumeKeeps
<1>8. ASSUME NEW s \in 3..5, Confirm(s) PROVE Kept
  BY <1>8, ConfirmKeeps
<1>9. ASSUME NEW c \in Texts(5), AgentSavesCandidate(c) PROVE Kept
  BY <1>9, Contained, CandidateKeeps
<1>10. ASSUME AgentClearsDraft PROVE Kept
  BY <1>10, ClearsKeeps
<1>11. ASSUME Generate PROVE Kept
  BY <1>11, GenerateKeeps
<1>12. ASSUME Validate PROVE Kept
  BY <1>12, ValidateKeeps
<1>13. ASSUME BuildFails PROVE Kept
  BY <1>13, BuildFailsKeeps
<1>14. ASSUME Export PROVE Kept
  BY <1>14, ExportKeeps
<1>15. ASSUME Stop PROVE Kept
  BY <1>15, StopKeeps
<1>16. ASSUME UNCHANGED vars PROVE Kept
  BY <1>16, Now, WayEnds DEF Kept, vars
<1> QED BY <1>1, <1>2, <1>3, <1>4, <1>5, <1>6, <1>7, <1>8, <1>9, <1>10, <1>11, <1>12, <1>13, <1>14,
           <1>15, <1>16 DEF Next

\* The inductive invariant holds of every behaviour, wherever the process stops.
THEOREM DirectoryStaysGood == Spec => []IndInv
<1>1. Init => IndInv
  BY InitInv
<1>2. IndInv /\ [Next]_vars => IndInv'
  BY NextKeeps DEF Kept, IndInv
<1> QED BY <1>1, <1>2, PTL DEF Spec

\* Every entry of the directory has its type, whatever a stop has left of it.
THEOREM TypeCorrect == Spec => []TypeOK
<1>1. IndInv => TypeOK
  BY Now DEF TypeOK
<1> QED BY <1>1, DirectoryStaysGood, PTL

\* The link current-code leads to a template that is there and whole
\* (save_code_draft writes the template before it switches the link).
THEOREM LinkLeadsToWhole == Spec => []CurrentWhole
<1>1. IndInv => CurrentWhole
  BY Now DEF CurrentWhole, CodeWhole
<1> QED BY <1>1, DirectoryStaysGood, PTL

\* A release that was in force is, after a step that leaves the plans alone, in
\* force or in the history (freeze_code_release archives before it renames),
\* wherever the process stops.  Where a stop between the two saves of confirm_stage
\* has left the thread of stage 4, the plan can be saved again as it is, which
\* removes the release with it (save_user_draft).
THEOREM ReleasesTraced == Spec => ReleaseTraced
<1>1. IndInv /\ [Next]_vars =>
        [disk.plans[4] # None /\ disk'.plans = disk.plans /\ 4 \notin disk.record.threads /\ Release(disk) # None
           => Release(disk') = Release(disk) \/ Release(disk) \in disk'.history]_vars
  BY NextKeeps DEF Kept, Traced
<1> QED BY <1>1, DirectoryStaysGood, PTL DEF Spec, ReleaseTraced

\* Unless the process stops while a draft is saved, a confirmed code is kept
\* whole and for the revision it was confirmed for.
THEOREM ConfirmedCodeKept ==
  ASSUME "draft" \notin Crashing
  PROVE  Spec => []ConfirmedKept
<1>1. IndInv => ConfirmedKept
  <2> SUFFICES ASSUME IndInv, disk.record.st[5] = "passed", disk.plans[4] # None
      PROVE  Verified(disk) /\ disk.released.draft.subRev = disk.record.subRev
    BY DEF ConfirmedKept
  <2>1. disk.released.parts = Sides
    BY Now DEF NoDraftStops, Conf
  <2>2. disk.released.draft.subRev = disk.record.subRev
    BY <2>1, Now DEF Ahead, Sides
  <2>3. disk.released.draft # None
    <3>1. disk.released \in [draft: W!Draft, parts: SUBSET Sides]
      BY <2>1, Now, DiskIs DEF Releases, NoRelease, Sides
    <3> QED BY <3>1, Contained
  <2>4. Verified(disk)
    BY <2>1, <2>3 DEF Verified, Release, Sides
  <2> QED BY <2>2, <2>4
<1> QED BY <1>1, DirectoryStaysGood, PTL

\* Unless the process stops in an edit of a user, what an export packs is one
\* build: every test case, of the released generator, the plan and the solution.
\* A stop in a compile that turns down the source may remove the plan, and no more:
\* the link generated leads to a program for as long as the files are of the plan
\* that was there.
THEOREM ExportedPackSound ==
  ASSUME "draft" \notin Crashing, "solution" \notin Crashing
  PROVE  Spec => []PackSound
<1>1. IndInv => PackSound
  <2> SUFFICES ASSUME IndInv, MayExport(disk)
      PROVE  /\ disk.data.tests = Tests
             /\ disk.data.outs = disk.input.src
             /\ disk.data.code = Release(disk).c
             /\ disk.plans[4] # None => disk.data.plan = disk.plans[4].c
    BY DEF PackSound
  <2>1. Pack(disk) /\ disk.record.ready /\ disk.data.tests # {}
    BY Now DEF NoEditStops, MayExport
  <2>2. disk.batch # None
    <3>1. disk.batch = None => Linked(disk) /\ Shut(disk)
      BY <2>1 DEF MayExport, Pack
    <3>2. Shut(disk) => ~Linked(disk)
      BY DEF Shut, Linked, Draft5
    <3> QED BY <3>1, <3>2
  <2>3. disk.batch.status = "completed" /\ W!ManifestMatches(disk.record, Abstract(disk))
    BY <2>2 DEF MayExport
  <2>4. disk.batch.stamp.code = Release(disk).c
    BY <2>3 DEF W!ManifestMatches, W!CurrentStamp, Abstract
  <2>5. disk.batch.listed /\ disk.data.outs = disk.input.src
    BY <2>1, <2>2, <2>3 DEF Pack
  <2>6. /\ disk.data.tests = Tests /\ disk.data.code = disk.batch.stamp.code
        /\ disk.plans[4] # None => disk.data.plan = disk.plans[4].c
    BY <2>1, <2>2, <2>5 DEF Pack
  <2> QED BY <2>4, <2>5, <2>6
<1> QED BY <1>1, DirectoryStaysGood, PTL

\* The file operations of the methods add up to the steps Workflow takes for
\* them; for a directory that a stop has torn, too.
THEOREM MethodsAddUp == Spec => []AgreesWithWorkflow
<1>1. IndInv => AgreesWithWorkflow
  BY Contained, InvalidatedAgrees, ClearedAgrees, DraftedAgrees, FrozenAgrees DEF AgreesWithWorkflow
<1> QED BY <1>1, DirectoryStaysGood, PTL

=============================================================================
