--------------------------- MODULE RequestsProofs ----------------------------
(***************************************************************************)
(* What Requests checks for samples, for every path, directory, message,   *)
(* length, host record, body and answer.  The loops of the code are folds  *)
(* over sequences: what they compute is proved by counting their steps     *)
(* (Count_up), on the function that the fold chooses (Fold_exists).        *)
(***************************************************************************)
EXTENDS Requests, FiniteSetTheorems, SequenceTheorems, TLAPS

-----------------------------------------------------------------------------
(* The lengths of a message. *)

\* The encodings of a message, bounded by the length that Parse checks: three
\* bytes of a form for each, five of HTML, six of JSON.
LEMMA Lengths_of_encodings ==
  ASSUME NEW m \in [Classes -> Nat]
  PROVE  /\ ReceivedBytes(m) \in Nat /\ FormBytes(m) \in Nat
         /\ JSONBytes(m) \in Nat /\ HTMLBytes(m) \in Nat
         /\ FormBytes(m) <= 3 * ReceivedBytes(m)
         /\ HTMLBytes(m) <= 5 * ReceivedBytes(m)
         /\ JSONBytes(m) <= 6 * ReceivedBytes(m)
<1>1. \A c \in Classes : m[c] \in Nat
  OBVIOUS
<1> QED
  BY <1>1 DEF Classes, MessageBytes, ReceivedBytes, FormBytes, HTMLBytes, JSONBytes

\* Every message that Parse takes passes the limit of the form.
LEMMA Form_fits ==
  ASSUME NEW m \in [Classes -> Nat]
  PROVE  FormFits(m)
BY Lengths_of_encodings
   DEF FormFits, Parses, FormAccepted, FormAround, MaxTarget, MaxBytes, MaxFormBytes

\* Its file is within the limit of Read.
LEMMA Reads_back ==
  ASSUME NEW m \in [Classes -> Nat]
  PROVE  ReadsBackManaged(m)
BY Lengths_of_encodings DEF ReadsBackManaged, Parses, MaxBytes, MaxLegacyBytes

\* Small messages fit in a control request, whatever their characters.
LEMMA Small_fits ==
  ASSUME NEW m \in [Classes -> Nat]
  PROVE  SmallRequestFits(m)
BY Lengths_of_encodings
   DEF SmallRequestFits, Parses, ClientSends, RequestAround, MaxTarget, MaxAuditText, MaxBytes,
       MaxRequestBytes

\* The server's reader takes what the client sends.
LEMMA Limits_agree ==
  ASSUME NEW n \in Nat
  PROVE  LimitsAgree(n)
BY DEF LimitsAgree, ClientSends, ServerReads, MaxRequestBytes

\* A product is at most that of larger factors.
LEMMA Product_bound ==
  ASSUME NEW N \in Nat, NEW n \in 0 .. N, NEW x \in Nat, NEW y \in Nat, x <= y
  PROVE  n * x \in Nat /\ n * x <= N * y
<1>1. n \in Nat /\ N - n \in Nat /\ y - x \in Nat
  OBVIOUS
<1>2. N * y = n * x + (N - n) * x + N * (y - x)
  BY <1>1
<1>3. n * x \in Nat /\ (N - n) * x \in Nat /\ N * (y - x) \in Nat
  BY <1>1
<1> QED
  BY <1>2, <1>3

\* Answers to Read fit.
LEMMA Read_fits ==
  ASSUME NEW s \in Nat
  PROVE  ReadFits(s)
BY DEF ReadFits, AnswerAccepted, AnswerAround, EntryAround, MaxTarget, MaxLegacyBytes,
       MaxResponseBytes

\* Listings of up to 40 alerts and 18 issues fit.
LEMMA Listing_fits ==
  ASSUME NEW m \in [Classes -> Nat], NEW s \in Nat, NEW b \in Nat
  PROVE  ListingFits(m, s, b)
<1> SUFFICES ASSUME Parses(m), b <= MaxFileName, NEW n \in 0 .. 40, NEW k \in 0 .. 18
             PROVE  AnswerAccepted(ListingBytes(m, s, b, n, k))
  BY Zenon DEF ListingFits
<1> DEFINE entry == EntryAround + Listed(JSONBytes(m), s)
           issue == IssueBytes(b)
<1>1. entry \in Nat /\ entry <= 24719
  BY Lengths_of_encodings DEF Parses, Listed, EntryAround, MaxTarget, MaxBytes
<1>2. issue \in Nat /\ issue <= 3260
  BY DEF IssueBytes, IssueAround, MaxFileName
<1>3. ListingBytes(m, s, b, n, k) = AnswerAround + n * entry + k * issue
  BY DEF ListingBytes
<1> HIDE DEF entry, issue
<1>4. n * entry \in Nat /\ n * entry <= 40 * 24719
  BY <1>1, Product_bound
<1>5. k * issue \in Nat /\ k * issue <= 18 * 3260
  BY <1>2, Product_bound
<1> DEFINE x == n * entry
           y == k * issue
<1>6. x \in Nat /\ x <= 988760 /\ y \in Nat /\ y <= 58680
  BY <1>4, <1>5
<1>7. ListingBytes(m, s, b, n, k) = AnswerAround + x + y
  BY <1>3
<1> HIDE DEF x, y
<1> QED
  BY <1>6, <1>7 DEF AnswerAccepted, AnswerAround, MaxResponseBytes

\* Answers fit, for all lengths of a legacy file and of the names of issues.
LEMMA Answers_fit ==
  ASSUME NEW m \in [Classes -> Nat], NEW s \in Nat
  PROVE  AnswersFit(m, s)
BY Read_fits, Listing_fits DEF AnswersFit

-----------------------------------------------------------------------------
(* Induction over numbers, and the loops that FoldLeft writes. *)

\* A set of numbers has a least one.
LEMMA Least ==
  ASSUME NEW T, T \subseteq Nat, T # {}
  PROVE  \E n \in T : \A m \in T : n <= m
<1> DEFINE R == OpToRel(<, Nat)
<1>1. IsWellFoundedOn(R, Nat)
  BY NatLessThanWellFounded
<1>2. \E x \in T : \A y \in T : ~ (<<y, x>> \in R)
  <2> HIDE DEF R
  <2> QED BY <1>1, WFMin
<1>3. \A x, y \in Nat : y < x => <<y, x>> \in R
  BY DEF OpToRel
<1> HIDE DEF R
<1>4. PICK x \in T : \A y \in T : ~ (<<y, x>> \in R)
  BY <1>2
<1>5. ASSUME NEW y \in T PROVE x <= y
  <2>1. x \in Nat /\ y \in Nat
    OBVIOUS
  <2>2. ~ (y < x)
    BY <2>1, <1>3, <1>4
  <2> QED
    BY <2>1, <2>2
<1> QED
  BY <1>5

\* Induction, for sets of numbers.
LEMMA Induct ==
  ASSUME NEW S, S \subseteq Nat, 0 \in S, \A n \in S : n + 1 \in S
  PROVE  S = Nat
<1> SUFFICES ASSUME S # Nat PROVE FALSE
  OBVIOUS
<1>1. Nat \ S # {} /\ Nat \ S \subseteq Nat
  OBVIOUS
<1> DEFINE T == Nat \ S
<1>2. PICK n \in T : \A m \in T : n <= m
  <2> HIDE DEF T
  <2> QED BY <1>1, Least DEF T
<1>3. n \in Nat /\ n \notin S /\ n # 0
  BY <1>2
<1>4. n - 1 \in Nat
  BY <1>3
<1>5. n - 1 \in S
  BY <1>2, <1>4
<1> QED
  BY <1>3, <1>4, <1>5

\* A set of numbers that is not empty has Min as its least.
LEMMA Min_least ==
  ASSUME NEW I, I \subseteq Nat, I # {}
  PROVE  Min(I) \in I /\ \A i \in I : Min(I) <= i
BY Least DEF Min

\* A finite set of numbers that is not empty has Max as its greatest.
LEMMA Max_greatest ==
  ASSUME NEW k \in Nat, NEW s, s \subseteq 1 .. k, s # {}
  PROVE  Max(s) \in s /\ \A i \in s : Max(s) >= i
<1> DEFINE T == {k - i : i \in s}
<1>1. T \subseteq Nat /\ T # {}
  <2>1. \A i \in s : k - i \in Nat
    OBVIOUS
  <2>2. T \subseteq Nat
    BY <2>1
  <2>3. PICK i : i \in s
    OBVIOUS
  <2>4. k - i \in T
    BY <2>3
  <2> QED
    BY <2>2, <2>4
<1>2. \E n \in T : \A m \in T : n <= m
  <2> HIDE DEF T
  <2> QED
    BY <1>1, Least
<1>3. PICK x \in s : \A i \in s : k - x <= k - i
  BY <1>2
<1>4. \A i \in s : x >= i
  <2> SUFFICES ASSUME NEW i \in s PROVE x >= i
    OBVIOUS
  <2>1. x \in Nat /\ i \in Nat /\ k - x <= k - i
    BY <1>3
  <2> QED
    BY <2>1
<1> QED
  BY <1>4 DEF Max

\* The greatest of a set that has n as its greatest.
LEMMA Max_is ==
  ASSUME NEW n \in Nat, NEW s, s \subseteq 1 .. n, n \in s
  PROVE  Max(s) = n
<1>1. Max(s) \in s /\ \A i \in s : Max(s) >= i
  BY Max_greatest
<1>2. Max(s) >= n /\ Max(s) \in 1 .. n
  BY <1>1
<1> DEFINE m == Max(s)
<1>3. m >= n /\ m \in 1 .. n
  BY <1>2
<1> HIDE DEF m
<1>4. m = n
  BY <1>3
<1> QED
  BY <1>4 DEF m

\* The function over sets of positions that a fold over 1 .. k computes.
IsFold(g, V, base, k, step) ==
  /\ g \in [SUBSET (1 .. k) -> V]
  /\ g[{}] = base
  /\ \A s \in SUBSET (1 .. k) : s # {} => g[s] = step[<<g[s \ {Max(s)}], Max(s)>>]

\* What a fold computes exists: for each set of indices the step with its
\* greatest, after the others.
LEMMA Fold_exists ==
  ASSUME NEW V, NEW base \in V, NEW k \in Nat, NEW step \in [V \X (1 .. k) -> V]
  PROVE  \E g : IsFold(g, V, base, k, step)
<1> DEFINE Upto(m, g) == IsFold(g, V, base, m, step)
           N == {m \in Nat : m <= k => \E g : Upto(m, g)}
<1>1. 0 \in N
  <2> DEFINE g == [s \in SUBSET (1 .. 0) |-> base]
  <2>1. 1 .. 0 = {}
    OBVIOUS
  <2>2. Upto(0, g)
    BY <2>1 DEF IsFold
  <2> QED
    BY <2>2
<1>2. ASSUME NEW m \in N PROVE m + 1 \in N
  <2>0. m + 1 \in Nat
    OBVIOUS
  <2> SUFFICES ASSUME m + 1 <= k PROVE \E g : Upto(m + 1, g)
    BY <2>0
  <2>1. m \in Nat /\ m <= k /\ m + 1 \in 1 .. k
    OBVIOUS
  <2>2. PICK g : Upto(m, g)
    BY <2>1
  <2> DEFINE h == [s \in SUBSET (1 .. (m + 1)) |->
                     IF m + 1 \in s THEN step[<<g[s \ {m + 1}], m + 1>>] ELSE g[s]]
  <2>3. \A s \in SUBSET (1 .. (m + 1)) : s \ {m + 1} \in SUBSET (1 .. m)
    BY <2>1
  <2>4. \A s \in SUBSET (1 .. (m + 1)) : m + 1 \notin s => s \in SUBSET (1 .. m)
    BY <2>1
  <2>5. h \in [SUBSET (1 .. (m + 1)) -> V]
    <3> SUFFICES ASSUME NEW s \in SUBSET (1 .. (m + 1))
                 PROVE  (IF m + 1 \in s THEN step[<<g[s \ {m + 1}], m + 1>>] ELSE g[s]) \in V
      OBVIOUS
    <3>1. CASE m + 1 \in s
      <4>1. g[s \ {m + 1}] \in V
        BY <2>2, <2>3 DEF IsFold
      <4>2. <<g[s \ {m + 1}], m + 1>> \in V \X (1 .. k)
        BY <2>1, <4>1
      <4> QED
        BY <3>1, <4>2
    <3>2. CASE m + 1 \notin s
      BY <2>2, <2>4, <3>2 DEF IsFold
    <3> QED
      BY <3>1, <3>2
  <2>6. h[{}] = base
    BY <2>2 DEF IsFold
  <2>7. ASSUME NEW s \in SUBSET (1 .. (m + 1)), s # {}
        PROVE  h[s] = step[<<h[s \ {Max(s)}], Max(s)>>]
    <3>1. CASE m + 1 \in s
      <4>1. Max(s) = m + 1
        <5>1. m + 1 \in Nat /\ s \subseteq 1 .. (m + 1)
          BY <2>1
        <5> QED
          BY <3>1, <5>1, Max_is
      <4>2. s \ {m + 1} \in SUBSET (1 .. (m + 1)) /\ m + 1 \notin s \ {m + 1}
        OBVIOUS
      <4>3. h[s \ {m + 1}] = g[s \ {m + 1}]
        BY <4>2
      <4> QED
        BY <3>1, <4>1, <4>3
    <3>2. CASE m + 1 \notin s
      <4>1. s \in SUBSET (1 .. m)
        BY <2>4, <3>2
      <4>2. s \ {Max(s)} \in SUBSET (1 .. (m + 1)) /\ m + 1 \notin s \ {Max(s)}
        BY <3>2
      <4>3. h[s] = g[s] /\ h[s \ {Max(s)}] = g[s \ {Max(s)}]
        BY <3>2, <4>2
      <4> QED
        BY <2>2, <2>7, <4>1, <4>3 DEF IsFold
    <3> QED
      BY <3>1, <3>2
  <2> HIDE DEF h
  <2>8. Upto(m + 1, h)
    BY <2>5, <2>6, <2>7 DEF IsFold
  <2> QED
    BY <2>8
<1>3. N = Nat
  <2>1. N \subseteq Nat
    OBVIOUS
  <2> HIDE DEF N
  <2> QED
    BY <1>1, <1>2, <2>1, Induct
<1>4. \E g : Upto(k, g)
  <2>1. k \in N
    <3> HIDE DEF N
    <3> QED
      BY <1>3
  <2>2. k <= k
    OBVIOUS
  <2> QED
    BY <2>1, <2>2
<1> QED
  BY <1>4

\* The sets of indices that a fold over a sequence meets.
LEMMA Intervals ==
  ASSUME NEW k \in Nat
  PROVE  /\ 1 .. 0 = {} /\ {} \in SUBSET (1 .. k)
         /\ \A n \in 0 .. k : 1 .. n \in SUBSET (1 .. k)
         /\ \A n \in 1 .. k : 1 .. n # {} /\ Max(1 .. n) = n /\ (1 .. n) \ {n} = 1 .. (n - 1)
<1>1. ASSUME NEW n \in 1 .. k PROVE Max(1 .. n) = n
  <2>1. n \in Nat /\ n \in 1 .. n
    OBVIOUS
  <2> QED
    BY <2>1, Max_is
<1>2. \A n \in 1 .. k : 1 .. n # {} /\ (1 .. n) \ {n} = 1 .. (n - 1)
  OBVIOUS
<1> QED
  BY <1>1, <1>2

\* The states of a loop of k steps.
IsLoop(h, V, base, k, step) ==
  h \in [0 .. k -> V] /\ h[0] = base /\ \A n \in 1 .. k : h[n] = step[<<h[n - 1], n>>]

\* The same for a loop over the indices.
LEMMA Loop_exists ==
  ASSUME NEW V, NEW base \in V, NEW k \in Nat, NEW step \in [V \X (1 .. k) -> V]
  PROVE  \E h : IsLoop(h, V, base, k, step)
<1>1. PICK g : IsFold(g, V, base, k, step)
  BY Fold_exists
<1> DEFINE h == [n \in 0 .. k |-> g[1 .. n]]
<1>2. h \in [0 .. k -> V] /\ h[0] = base
  BY <1>1, Intervals DEF IsFold
<1>3. ASSUME NEW n \in 1 .. k PROVE h[n] = step[<<h[n - 1], n>>]
  <2>1. h[n] = g[1 .. n] /\ h[n - 1] = g[1 .. (n - 1)] /\ n \in 0 .. k
    OBVIOUS
  <2>2. 1 .. n \in SUBSET (1 .. k) /\ 1 .. n # {} /\ Max(1 .. n) = n /\ (1 .. n) \ {n} = 1 .. (n - 1)
    BY <2>1, Intervals
  <2> QED
    BY <1>1, <2>1, <2>2 DEF IsFold
<1> HIDE DEF h
<1> QED
  BY <1>2, <1>3 DEF IsLoop

\* Counting up: what holds of 0 and is kept by each step up to k holds of k.
LEMMA Count_up ==
  ASSUME NEW k \in Nat, NEW T, 0 \in T, \A n \in 1 .. k : n - 1 \in T => n \in T
  PROVE  \A n \in 0 .. k : n \in T
<1> DEFINE N == {n \in Nat : n <= k => n \in T}
<1>1. N \subseteq Nat /\ 0 \in N
  OBVIOUS
<1>2. ASSUME NEW n \in N PROVE n + 1 \in N
  <2>1. n \in Nat /\ (n <= k => n \in T) /\ n + 1 \in Nat
    OBVIOUS
  <2>2. ASSUME n + 1 <= k PROVE n + 1 \in T
    <3>1. n + 1 \in 1 .. k /\ n <= k /\ (n + 1) - 1 = n
      BY <2>1, <2>2
    <3> QED
      BY <2>1, <3>1
  <2> QED
    BY <2>1, <2>2
<1>3. N = Nat
  <2> HIDE DEF N
  <2> QED
    BY <1>1, <1>2, Induct
<1> QED
  BY <1>3

-----------------------------------------------------------------------------
(* FlattenSeq. *)

\* FlattenSeq, one sequence at a time.
IsFlatten(h, X, ss) ==
  /\ h \in [0 .. Len(ss) -> Seq(X)] /\ h[0] = <<>>
  /\ \A n \in 1 .. Len(ss) : h[n] = h[n - 1] \o ss[n]
  /\ FlattenSeq(ss) = h[Len(ss)]

\* FlattenSeq is a loop of concatenations.
LEMMA Flatten_loop ==
  ASSUME NEW X, NEW ss \in Seq(Seq(X))
  PROVE  \E h : IsFlatten(h, X, ss)
<1> DEFINE k == Len(ss)
           step == [a \in Seq(X) \X (1 .. k) |-> a[1] \o ss[a[2]]]
           Eq(f) == f = [i \in 1 .. k |-> IF i = 1 THEN ss[i] ELSE f[i - 1] \o ss[i]]
           it == CHOOSE f : Eq(f)
<1>0. k \in Nat /\ (k = 0 => ss = <<>>) /\ \A i \in 1 .. k : ss[i] \in Seq(X)
  <2>1. k \in Nat
    BY LenProperties
  <2>2. \A i \in 1 .. k : ss[i] \in Seq(X)
    BY ElementOfSeq
  <2>3. k = 0 => ss = <<>>
    BY EmptySeq
  <2> QED
    BY <2>1, <2>2, <2>3
<1>1. step \in [Seq(X) \X (1 .. k) -> Seq(X)]
  <2> SUFFICES ASSUME NEW a \in Seq(X) \X (1 .. k) PROVE a[1] \o ss[a[2]] \in Seq(X)
    OBVIOUS
  <2>1. a[1] \in Seq(X) /\ ss[a[2]] \in Seq(X)
    BY <1>0
  <2> QED
    BY <2>1, ConcatProperties
<1>2. <<>> \in Seq(X)
  BY EmptySeq
<1>3. PICK h : IsLoop(h, Seq(X), <<>>, k, step)
  <2> HIDE DEF step
  <2> QED
    BY <1>0, <1>1, <1>2, Loop_exists
<1>4. /\ h \in [0 .. k -> Seq(X)] /\ h[0] = <<>>
      /\ \A n \in 1 .. k : h[n] = h[n - 1] \o ss[n]
  <2>1. /\ h \in [0 .. k -> Seq(X)] /\ h[0] = <<>>
        /\ \A n \in 1 .. k : h[n] = step[<<h[n - 1], n>>]
    BY <1>3 DEF IsLoop
  <2>2. ASSUME NEW n \in 1 .. k PROVE h[n] = h[n - 1] \o ss[n]
    <3>1. n - 1 \in 0 .. k
      BY <1>0
    <3>2. h[n - 1] \in Seq(X)
      BY <2>1, <3>1
    <3>3. <<h[n - 1], n>> \in Seq(X) \X (1 .. k)
      BY <3>2
    <3>4. step[<<h[n - 1], n>>] = h[n - 1] \o ss[n]
      BY <3>3
    <3> QED
      BY <2>1, <3>4
  <2> QED
    BY <2>1, <2>2
<1>5. k # 0 => h[1] = <<>> \o ss[1] /\ ss[1] \in Seq(X)
  <2>1. k # 0 => 1 \in 1 .. k
    BY <1>0
  <2>2. 1 - 1 = 0
    OBVIOUS
  <2> HIDE DEF k
  <2> QED
    BY <1>0, <1>4, <2>1, <2>2
<1>6. CASE k = 0
  <2>1. FlattenSeq(ss) = h[k]
    BY <1>0, <1>4, <1>6 DEF FlattenSeq
  <2> QED
    BY <1>4, <2>1 DEF IsFlatten
<1>7. CASE k # 0
  <2>1. FlattenSeq(ss) = it[k]
    BY <1>7, Zenon DEF FlattenSeq
  <2> DEFINE w == [i \in 1 .. k |-> h[i]]
  <2>2. Eq(w)
    <3>1. ASSUME NEW i \in 1 .. k
          PROVE  w[i] = IF i = 1 THEN ss[i] ELSE w[i - 1] \o ss[i]
      <4>1. CASE i = 1
        <5>1. w[1] = <<>> \o ss[1] /\ ss[1] \in Seq(X)
          BY <1>7, <1>5, <4>1
        <5> QED
          BY <4>1, <5>1, ConcatEmptySeq
      <4>2. CASE i # 1
        <5>1. i - 1 \in 1 .. k
          BY <1>0, <4>2
        <5> QED
          BY <1>4, <4>2, <5>1
      <4> QED
        BY <4>1, <4>2
    <3>2. w = [i \in 1 .. k |-> w[i]]
      OBVIOUS
    <3> HIDE DEF w
    <3> QED
      BY <3>1, <3>2
  <2>3. Eq(it)
    <3> HIDE DEF Eq, w
    <3> QED
      BY <2>2
  <2> HIDE DEF it
  <2>4. \A i \in 1 .. k : it[i] = IF i = 1 THEN ss[i] ELSE it[i - 1] \o ss[i]
    <3>1. it = [i \in 1 .. k |-> IF i = 1 THEN ss[i] ELSE it[i - 1] \o ss[i]]
      BY <2>3
    <3> DEFINE r == [i \in 1 .. k |-> IF i = 1 THEN ss[i] ELSE it[i - 1] \o ss[i]]
    <3>2. \A i \in 1 .. k : r[i] = IF i = 1 THEN ss[i] ELSE it[i - 1] \o ss[i]
      OBVIOUS
    <3>3. it = r
      BY <3>1
    <3> HIDE DEF r
    <3> QED
      BY <3>2, <3>3
  <2> DEFINE T == {n \in 0 .. k : n = 0 \/ it[n] = h[n]}
  <2>5. 0 \in T
    BY <1>0
  <2>6. ASSUME NEW n \in 1 .. k, n - 1 \in T PROVE n \in T
    <3>1. CASE n = 1
      <4>1. it[1] = ss[1] /\ h[1] = <<>> \o ss[1] /\ ss[1] \in Seq(X)
        BY <1>7, <1>5, <2>4, <3>1
      <4>2. it[1] = h[1]
        BY <4>1, ConcatEmptySeq
      <4> QED
        BY <3>1, <4>2
    <3>2. CASE n # 1
      <4>1. it[n - 1] = h[n - 1]
        BY <2>6, <3>2
      <4>2. it[n] = it[n - 1] \o ss[n] /\ h[n] = h[n - 1] \o ss[n]
        BY <1>4, <2>4, <3>2
      <4>3. it[n] = h[n] /\ n \in 0 .. k
        BY <1>0, <4>1, <4>2
      <4> QED
        BY <4>3
    <3> QED
      BY <3>1, <3>2
  <2>7. k \in T
    <3>1. k \in 0 .. k
      BY <1>0
    <3> HIDE DEF T, k
    <3> QED
      BY <1>0, <2>5, <2>6, <3>1, Count_up
  <2>8. FlattenSeq(ss) = h[k]
    BY <1>7, <2>1, <2>7
  <2> QED
    BY <1>4, <2>8 DEF IsFlatten
<1> QED
  BY <1>6, <1>7

\* Its result has the elements of the parts.
LEMMA Flatten_type ==
  ASSUME NEW X, NEW ss \in Seq(Seq(X))
  PROVE  FlattenSeq(ss) \in Seq(X)
<1>1. PICK h : IsFlatten(h, X, ss)
  BY Flatten_loop
<1>2. Len(ss) \in 0 .. Len(ss)
  BY LenProperties
<1> QED
  BY <1>1, <1>2 DEF IsFlatten

-----------------------------------------------------------------------------
(* Which pattern a path matches. *)

\* The loop of match, one pattern at a time.
IsMatchLoop(h, parts) ==
  /\ h[0] = <<>> /\ h[7] = Match(parts)
  /\ \A n \in 1 .. 7 : h[n] = BetterMatch(h[n - 1], Patterns[n], parts)

\* Match is that loop.
LEMMA Match_loop ==
  ASSUME NEW parts
  PROVE  \E h : IsMatchLoop(h, parts)
<1> DEFINE k == 7
           E(best, i) == BetterMatch(best, Patterns[i], parts)
           V == {<<>>} \cup {<<Patterns[i]>> : i \in 1 .. k}
           step == [a \in V \X (1 .. k) |-> E(a[1], a[2])]
           Eq(f) == f = [s \in SUBSET DOMAIN Patterns |->
                           IF s = {} THEN <<>> ELSE E(f[s \ {Max(s)}], Max(s))]
           it == CHOOSE f : Eq(f)
<1>2. k \in Nat /\ DOMAIN Patterns = 1 .. k
  BY DEF Patterns
<1>3. step \in [V \X (1 .. k) -> V] /\ <<>> \in V
  <2>1. ASSUME NEW v \in V, NEW i \in 1 .. k PROVE E(v, i) \in V
    BY DEF BetterMatch
  <2> HIDE DEF E, V
  <2>2. step \in [V \X (1 .. k) -> V]
    BY <2>1
  <2> QED
    BY <2>2 DEF V
<1>1. Match(parts) = it[DOMAIN Patterns]
  BY Zenon DEF Match, FoldLeft, MapThenFoldSet
<1>4. PICK g : IsFold(g, V, <<>>, k, step)
  <2> HIDE DEF step, V
  <2> QED
    BY <1>2, <1>3, Fold_exists
<1>5. g \in [SUBSET (1 .. k) -> V] /\ g[{}] = <<>>
  BY <1>4 DEF IsFold
<1>6. ASSUME NEW s \in SUBSET (1 .. k), s # {}
      PROVE  g[s] = E(g[s \ {Max(s)}], Max(s))
  <2> HIDE DEF V, E, k
  <2>1. Max(s) \in 1 .. k
    BY <1>2, <1>6, Max_greatest
  <2>2. g[s \ {Max(s)}] \in V
    BY <1>5
  <2>3. g[s] = step[<<g[s \ {Max(s)}], Max(s)>>]
    <3> HIDE DEF step
    <3> QED
      BY <1>4, <1>6 DEF IsFold
  <2>4. <<g[s \ {Max(s)}], Max(s)>> \in V \X (1 .. k)
    BY <2>1, <2>2
  <2>5. step[<<g[s \ {Max(s)}], Max(s)>>] = E(g[s \ {Max(s)}], Max(s))
    BY <2>4
  <2> QED
    BY <2>3, <2>5
<1> HIDE DEF V, step, E, k
<1>7. Eq(g)
  <2>1. g = [s \in SUBSET (1 .. k) |-> g[s]]
    BY <1>5
  <2>2. \A s \in SUBSET (1 .. k) : g[s] = IF s = {} THEN <<>> ELSE E(g[s \ {Max(s)}], Max(s))
    BY <1>5, <1>6
  <2> QED
    BY <1>2, <2>1, <2>2, Zenon
<1>8. Eq(it)
  <2> HIDE DEF Eq
  <2> QED
    BY <1>7
<1> HIDE DEF it
<1>9. \A s \in SUBSET (1 .. k) : it[s] = IF s = {} THEN <<>> ELSE E(it[s \ {Max(s)}], Max(s))
  <2> DEFINE r == [s \in SUBSET (1 .. k) |-> IF s = {} THEN <<>> ELSE E(it[s \ {Max(s)}], Max(s))]
  <2>1. \A s \in SUBSET (1 .. k) : r[s] = IF s = {} THEN <<>> ELSE E(it[s \ {Max(s)}], Max(s))
    OBVIOUS
  <2>2. it = r
    BY <1>2, <1>8
  <2> HIDE DEF r
  <2> QED
    BY <2>1, <2>2
<1> DEFINE h == [n \in 0 .. k |-> it[1 .. n]]
<1>10. h[0] = <<>> /\ h[k] = it[DOMAIN Patterns]
  <2>1. 1 .. 0 = {} /\ {} \in SUBSET (1 .. k) /\ 0 \in 0 .. k /\ k \in 0 .. k
    BY <1>2
  <2> QED
    BY <1>2, <1>9, <2>1
<1>11. ASSUME NEW n \in 1 .. k PROVE h[n] = E(h[n - 1], n)
  <2>1. n \in 0 .. k /\ n - 1 \in 0 .. k
    BY <1>2
  <2>2. 1 .. n \in SUBSET (1 .. k) /\ 1 .. n # {} /\ Max(1 .. n) = n /\ (1 .. n) \ {n} = 1 .. (n - 1)
    BY <1>2, <2>1, Intervals
  <2>3. it[1 .. n] = E(it[1 .. (n - 1)], n)
    BY <1>9, <2>2
  <2> QED
    BY <2>1, <2>3
<1>12. IsMatchLoop(h, parts)
  <2> HIDE DEF h
  <2> QED
    BY <1>1, <1>10, <1>11 DEF IsMatchLoop, E, k
<1> QED
  BY <1>12

\* The parts that path.Clean has kept after each part of the path.
IsCleanLoop(h, path) ==
  /\ h[0] = <<>> /\ h[Len(path)] = FoldLeft(CleanPart, <<>>, path)
  /\ h \in [0 .. Len(path) -> Seq(Texts)]
  /\ \A n \in 1 .. Len(path) : h[n] = CleanPart(h[n - 1], path[n])

\* path.Clean is that loop.
LEMMA Clean_loop ==
  ASSUME NEW path \in Seq(Texts)
  PROVE  \E h : IsCleanLoop(h, path)
<1> DEFINE k == Len(path)
           E(kept, i) == CleanPart(kept, path[i])
           V == Seq(Texts)
           step == [a \in V \X (1 .. k) |-> E(a[1], a[2])]
           Eq(f) == f = [s \in SUBSET DOMAIN path |->
                           IF s = {} THEN <<>> ELSE E(f[s \ {Max(s)}], Max(s))]
           it == CHOOSE f : Eq(f)
<1>2. k \in Nat /\ DOMAIN path = 1 .. k
  BY LenProperties
<1>3. step \in [V \X (1 .. k) -> V] /\ <<>> \in V
  <2>1. ASSUME NEW v \in V, NEW i \in 1 .. k PROVE E(v, i) \in V
    <3>1. path[i] \in Texts
      BY ElementOfSeq
    <3>2. Append(v, path[i]) \in V
      BY <3>1, AppendProperties
    <3>3. v # <<>> => Front(v) \in V
      <4>1. ASSUME v # <<>> PROVE Front(v) \in V
        <5>1. Len(v) - 1 \in Int /\ 1 \in Int /\ \A j \in 1 .. Len(v) - 1 : v[j] \in Texts
          BY LenProperties, ElementOfSeq
        <5> QED
          BY <5>1, SubSeqProperties DEF Front
      <4> QED
        BY <4>1
    <3> HIDE DEF V
    <3> QED
      BY <3>2, <3>3 DEF CleanPart
  <2>2. <<>> \in V
    OBVIOUS
  <2> HIDE DEF E, V
  <2>3. step \in [V \X (1 .. k) -> V]
    BY <2>1
  <2> QED
    BY <2>2, <2>3
<1>1. FoldLeft(CleanPart, <<>>, path) = it[DOMAIN path]
  BY Zenon DEF FoldLeft, MapThenFoldSet
<1>4. PICK g : IsFold(g, V, <<>>, k, step)
  <2> HIDE DEF step, V
  <2> QED
    BY <1>2, <1>3, Fold_exists
<1>5. g \in [SUBSET (1 .. k) -> V] /\ g[{}] = <<>>
  BY <1>4 DEF IsFold
<1>6. ASSUME NEW s \in SUBSET (1 .. k), s # {}
      PROVE  g[s] = E(g[s \ {Max(s)}], Max(s))
  <2> HIDE DEF V, E, k
  <2>1. Max(s) \in 1 .. k
    BY <1>2, <1>6, Max_greatest
  <2>2. g[s \ {Max(s)}] \in V
    BY <1>5
  <2>3. g[s] = step[<<g[s \ {Max(s)}], Max(s)>>]
    <3> HIDE DEF step
    <3> QED
      BY <1>4, <1>6 DEF IsFold
  <2>4. <<g[s \ {Max(s)}], Max(s)>> \in V \X (1 .. k)
    BY <2>1, <2>2
  <2>5. step[<<g[s \ {Max(s)}], Max(s)>>] = E(g[s \ {Max(s)}], Max(s))
    BY <2>4
  <2> QED
    BY <2>3, <2>5
<1> HIDE DEF V, step, E, k
<1>7. Eq(g)
  <2>1. g = [s \in SUBSET (1 .. k) |-> g[s]]
    BY <1>5
  <2>2. \A s \in SUBSET (1 .. k) : g[s] = IF s = {} THEN <<>> ELSE E(g[s \ {Max(s)}], Max(s))
    BY <1>5, <1>6
  <2> QED
    BY <1>2, <2>1, <2>2, Zenon
<1>8. Eq(it)
  <2> HIDE DEF Eq
  <2> QED
    BY <1>7
<1> HIDE DEF it
<1>9. \A s \in SUBSET (1 .. k) : it[s] = IF s = {} THEN <<>> ELSE E(it[s \ {Max(s)}], Max(s))
  <2> DEFINE r == [s \in SUBSET (1 .. k) |-> IF s = {} THEN <<>> ELSE E(it[s \ {Max(s)}], Max(s))]
  <2>1. \A s \in SUBSET (1 .. k) : r[s] = IF s = {} THEN <<>> ELSE E(it[s \ {Max(s)}], Max(s))
    OBVIOUS
  <2>2. it = r
    BY <1>2, <1>8
  <2> HIDE DEF r
  <2> QED
    BY <2>1, <2>2
<1> DEFINE h == [n \in 0 .. k |-> it[1 .. n]]
<1>10. h[0] = <<>> /\ h[k] = it[DOMAIN path]
  <2>1. 1 .. 0 = {} /\ {} \in SUBSET (1 .. k) /\ 0 \in 0 .. k /\ k \in 0 .. k
    BY <1>2
  <2> QED
    BY <1>2, <1>9, <2>1
<1>11. ASSUME NEW n \in 1 .. k PROVE h[n] = E(h[n - 1], n)
  <2>1. n \in 0 .. k /\ n - 1 \in 0 .. k
    BY <1>2
  <2>2. 1 .. n \in SUBSET (1 .. k) /\ 1 .. n # {} /\ Max(1 .. n) = n /\ (1 .. n) \ {n} = 1 .. (n - 1)
    BY <1>2, <2>1, Intervals
  <2>3. it[1 .. n] = E(it[1 .. (n - 1)], n)
    BY <1>9, <2>2
  <2> QED
    BY <2>1, <2>3
<1>12. h \in [0 .. k -> Seq(Texts)]
  <2>1. \A n \in 0 .. k : h[n] \in V
    <3> DEFINE T == {n \in 0 .. k : h[n] \in V}
    <3>1. 0 \in T
      BY <1>2, <1>3, <1>10
    <3>2. ASSUME NEW n \in 1 .. k, n - 1 \in T PROVE n \in T
      <4>1. h[n - 1] \in V /\ n \in 0 .. k
        BY <1>2, <3>2
      <4>2. <<h[n - 1], n>> \in V \X (1 .. k)
        BY <4>1
      <4>3. step[<<h[n - 1], n>>] \in V
        BY <1>3, <4>2
      <4>4. step[<<h[n - 1], n>>] = E(h[n - 1], n)
        BY <4>2 DEF step
      <4> QED
        BY <1>11, <4>1, <4>3, <4>4
    <3> HIDE DEF T
    <3>3. \A n \in 0 .. k : n \in T
      BY <1>2, <3>1, <3>2, Count_up
    <3> QED
      BY <3>3 DEF T
  <2> QED
    BY <2>1 DEF V
<1>13. IsCleanLoop(h, path)
  <2> HIDE DEF h
  <2> QED
    BY <1>1, <1>10, <1>11, <1>12 DEF IsCleanLoop, E, k
<1> QED
  BY <1>13
\* Small sets and their sizes.
LEMMA Small_sets ==
  /\ Cardinality({}) = 0 /\ Cardinality({1}) = 1
  /\ Cardinality({1, 2}) = 2 /\ Cardinality({1, 3}) = 2
<1>1. IsFiniteSet({1}) /\ Cardinality({1}) = 1
  BY FS_Singleton
<1>2. Cardinality({1} \cup {2}) = 2 /\ Cardinality({1} \cup {3}) = 2
  BY <1>1, FS_AddElement
<1>3. {1} \cup {2} = {1, 2} /\ {1} \cup {3} = {1, 3}
  OBVIOUS
<1> QED
  BY <1>1, <1>2, <1>3, FS_EmptySet

\* The sequences of one and of two elements.
LEMMA Short_sequences ==
  ASSUME NEW S, NEW s \in Seq(S), NEW a, NEW b
  PROVE  /\ s = <<a>> <=> Len(s) = 1 /\ s[1] = a
         /\ s = <<a, b>> <=> Len(s) = 2 /\ s[1] = a /\ s[2] = b
<1>1. Len(s) \in Nat /\ s \in [1 .. Len(s) -> S]
  BY LenProperties
<1>2. ASSUME Len(s) = 1, s[1] = a PROVE s = <<a>>
  <2>1. s \in Seq(S) /\ <<s[1]>> \in Seq(S) /\ Len(<<s[1]>>) = Len(s) /\ \A i \in 1 .. Len(s) : s[i] = <<s[1]>>[i]
    BY <1>1, <1>2
  <2>2. s = <<s[1]>>
    BY <2>1, SeqEqual
  <2> QED
    BY <1>2, <2>2
<1>3. ASSUME Len(s) = 2, s[1] = a, s[2] = b PROVE s = <<a, b>>
  <2>1. s \in Seq(S) /\ <<s[1], s[2]>> \in Seq(S) /\ Len(<<s[1], s[2]>>) = Len(s)
    BY <1>1, <1>3
  <2>2. \A i \in 1 .. Len(s) : s[i] = <<s[1], s[2]>>[i]
    BY <1>1, <1>3
  <2>3. s = <<s[1], s[2]>>
    BY <2>1, <2>2, SeqEqual
  <2> QED
    BY <1>3, <2>3
<1> QED
  BY <1>2, <1>3

\* The segments of the patterns.
LEMMA Segments ==
  /\ /\ Patterns[1].page = "nodes" /\ Patterns[1].subtree = FALSE
     /\ Len(Patterns[1].segs) = 2 /\ DOMAIN Patterns[1].segs = {1, 2}
     /\ Patterns[1].segs[1] = "api"
     /\ Patterns[1].segs[2] = "local-nodes"
  /\ /\ Patterns[2].page = "settings" /\ Patterns[2].subtree = FALSE
     /\ Len(Patterns[2].segs) = 1 /\ DOMAIN Patterns[2].segs = {1}
     /\ Patterns[2].segs[1] = "settings"
  /\ /\ Patterns[3].page = "list" /\ Patterns[3].subtree = TRUE
     /\ Len(Patterns[3].segs) = 0 /\ DOMAIN Patterns[3].segs = {}
     /\ Patterns[3].segs = <<>>
  /\ /\ Patterns[4].page = "delete" /\ Patterns[4].subtree = FALSE
     /\ Len(Patterns[4].segs) = 3 /\ DOMAIN Patterns[4].segs = {1, 2, 3}
     /\ Patterns[4].segs[1] = "alerts"
     /\ Patterns[4].segs[2] = Wild
     /\ Patterns[4].segs[3] = "delete"
  /\ /\ Patterns[5].page = "convert" /\ Patterns[5].subtree = FALSE
     /\ Len(Patterns[5].segs) = 3 /\ DOMAIN Patterns[5].segs = {1, 2, 3}
     /\ Patterns[5].segs[1] = "alerts"
     /\ Patterns[5].segs[2] = Wild
     /\ Patterns[5].segs[3] = "convert"
  /\ /\ Patterns[6].page = "new" /\ Patterns[6].subtree = FALSE
     /\ Len(Patterns[6].segs) = 2 /\ DOMAIN Patterns[6].segs = {1, 2}
     /\ Patterns[6].segs[1] = "alerts"
     /\ Patterns[6].segs[2] = "new"
  /\ /\ Patterns[7].page = "alert" /\ Patterns[7].subtree = TRUE
     /\ Len(Patterns[7].segs) = 1 /\ DOMAIN Patterns[7].segs = {1}
     /\ Patterns[7].segs[1] = "alerts"
  /\ \A x \in {"api", "local-nodes", "settings", "alerts", "delete", "convert", "new"} : x # Wild
<1>1. /\ Patterns[1].page = "nodes" /\ Patterns[1].subtree = FALSE
     /\ Len(Patterns[1].segs) = 2 /\ DOMAIN Patterns[1].segs = {1, 2}
     /\ Patterns[1].segs[1] = "api"
     /\ Patterns[1].segs[2] = "local-nodes"
  <2>1. Patterns[1] = [page |-> "nodes", segs |-> <<"api", "local-nodes">>, subtree |-> FALSE]
    BY DEF Patterns
  <2>2. Len(<<"api", "local-nodes">>) = 2 /\ DOMAIN <<"api", "local-nodes">> = {1, 2}
    OBVIOUS
  <2> QED
    BY <2>1, <2>2
<1>2. /\ Patterns[2].page = "settings" /\ Patterns[2].subtree = FALSE
     /\ Len(Patterns[2].segs) = 1 /\ DOMAIN Patterns[2].segs = {1}
     /\ Patterns[2].segs[1] = "settings"
  <2>1. Patterns[2] = [page |-> "settings", segs |-> <<"settings">>, subtree |-> FALSE]
    BY DEF Patterns
  <2>2. Len(<<"settings">>) = 1 /\ DOMAIN <<"settings">> = {1}
    OBVIOUS
  <2> QED
    BY <2>1, <2>2
<1>3. /\ Patterns[3].page = "list" /\ Patterns[3].subtree = TRUE
     /\ Len(Patterns[3].segs) = 0 /\ DOMAIN Patterns[3].segs = {}
     /\ Patterns[3].segs = <<>>
  <2>1. Patterns[3] = [page |-> "list", segs |-> <<>>, subtree |-> TRUE]
    BY DEF Patterns
  <2>2. Len(<<>>) = 0 /\ DOMAIN <<>> = {}
    OBVIOUS
  <2> QED
    BY <2>1, <2>2
<1>4. /\ Patterns[4].page = "delete" /\ Patterns[4].subtree = FALSE
     /\ Len(Patterns[4].segs) = 3 /\ DOMAIN Patterns[4].segs = {1, 2, 3}
     /\ Patterns[4].segs[1] = "alerts"
     /\ Patterns[4].segs[2] = Wild
     /\ Patterns[4].segs[3] = "delete"
  <2>1. Patterns[4] = [page |-> "delete", segs |-> <<"alerts", Wild, "delete">>, subtree |-> FALSE]
    BY DEF Patterns
  <2>2. Len(<<"alerts", Wild, "delete">>) = 3 /\ DOMAIN <<"alerts", Wild, "delete">> = {1, 2, 3}
    OBVIOUS
  <2> QED
    BY <2>1, <2>2
<1>5. /\ Patterns[5].page = "convert" /\ Patterns[5].subtree = FALSE
     /\ Len(Patterns[5].segs) = 3 /\ DOMAIN Patterns[5].segs = {1, 2, 3}
     /\ Patterns[5].segs[1] = "alerts"
     /\ Patterns[5].segs[2] = Wild
     /\ Patterns[5].segs[3] = "convert"
  <2>1. Patterns[5] = [page |-> "convert", segs |-> <<"alerts", Wild, "convert">>, subtree |-> FALSE]
    BY DEF Patterns
  <2>2. Len(<<"alerts", Wild, "convert">>) = 3 /\ DOMAIN <<"alerts", Wild, "convert">> = {1, 2, 3}
    OBVIOUS
  <2> QED
    BY <2>1, <2>2
<1>6. /\ Patterns[6].page = "new" /\ Patterns[6].subtree = FALSE
     /\ Len(Patterns[6].segs) = 2 /\ DOMAIN Patterns[6].segs = {1, 2}
     /\ Patterns[6].segs[1] = "alerts"
     /\ Patterns[6].segs[2] = "new"
  <2>1. Patterns[6] = [page |-> "new", segs |-> <<"alerts", "new">>, subtree |-> FALSE]
    BY DEF Patterns
  <2>2. Len(<<"alerts", "new">>) = 2 /\ DOMAIN <<"alerts", "new">> = {1, 2}
    OBVIOUS
  <2> QED
    BY <2>1, <2>2
<1>7. /\ Patterns[7].page = "alert" /\ Patterns[7].subtree = TRUE
     /\ Len(Patterns[7].segs) = 1 /\ DOMAIN Patterns[7].segs = {1}
     /\ Patterns[7].segs[1] = "alerts"
  <2>1. Patterns[7] = [page |-> "alert", segs |-> <<"alerts">>, subtree |-> TRUE]
    BY DEF Patterns
  <2>2. Len(<<"alerts">>) = 1 /\ DOMAIN <<"alerts">> = {1}
    OBVIOUS
  <2> QED
    BY <2>1, <2>2
<1>8. \A x \in {"api", "local-nodes", "settings", "alerts", "delete", "convert", "new"} : x # Wild
  BY DEF Wild
<1> QED
  BY <1>1, <1>2, <1>3, <1>4, <1>5, <1>6, <1>7, <1>8

\* The scores of the patterns: the subtrees are behind all others.
LEMMA Scores ==
  /\ Score(Patterns[1]) = 1022
  /\ Score(Patterns[2]) = 1011
  /\ Score(Patterns[3]) = 0
  /\ Score(Patterns[4]) = 1023
  /\ Score(Patterns[5]) = 1023
  /\ Score(Patterns[6]) = 1022
  /\ Score(Patterns[7]) = 11
<1>1. Score(Patterns[1]) = 1022
  <2> DEFINE p == Patterns[1]
             literal == {n \in DOMAIN p.segs : p.segs[n] # Wild}
  <2>1. literal = {1, 2}
    BY Segments
  <2>2. Len(p.segs) = 2 /\ p.subtree = FALSE
    BY Segments
  <2>3. Cardinality(literal) = 2
    BY <2>1, Small_sets
  <2> HIDE DEF p
  <2>4. Score(p) = Len(p.segs) + 10 * Cardinality(literal) + IF p.subtree THEN 0 ELSE 1000
    BY Zenon DEF Score
  <2> HIDE DEF literal
  <2>5. Score(p) = 1022
    BY <2>2, <2>3, <2>4
  <2> QED
    BY <2>5 DEF p
<1>2. Score(Patterns[2]) = 1011
  <2> DEFINE p == Patterns[2]
             literal == {n \in DOMAIN p.segs : p.segs[n] # Wild}
  <2>1. literal = {1}
    BY Segments
  <2>2. Len(p.segs) = 1 /\ p.subtree = FALSE
    BY Segments
  <2>3. Cardinality(literal) = 1
    BY <2>1, Small_sets
  <2> HIDE DEF p
  <2>4. Score(p) = Len(p.segs) + 10 * Cardinality(literal) + IF p.subtree THEN 0 ELSE 1000
    BY Zenon DEF Score
  <2> HIDE DEF literal
  <2>5. Score(p) = 1011
    BY <2>2, <2>3, <2>4
  <2> QED
    BY <2>5 DEF p
<1>3. Score(Patterns[3]) = 0
  <2> DEFINE p == Patterns[3]
             literal == {n \in DOMAIN p.segs : p.segs[n] # Wild}
  <2>1. literal = {}
    BY Segments
  <2>2. Len(p.segs) = 0 /\ p.subtree = TRUE
    BY Segments
  <2>3. Cardinality(literal) = 0
    BY <2>1, Small_sets
  <2> HIDE DEF p
  <2>4. Score(p) = Len(p.segs) + 10 * Cardinality(literal) + IF p.subtree THEN 0 ELSE 1000
    BY Zenon DEF Score
  <2> HIDE DEF literal
  <2>5. Score(p) = 0
    BY <2>2, <2>3, <2>4
  <2> QED
    BY <2>5 DEF p
<1>4. Score(Patterns[4]) = 1023
  <2> DEFINE p == Patterns[4]
             literal == {n \in DOMAIN p.segs : p.segs[n] # Wild}
  <2>1. literal = {1, 3}
    BY Segments
  <2>2. Len(p.segs) = 3 /\ p.subtree = FALSE
    BY Segments
  <2>3. Cardinality(literal) = 2
    BY <2>1, Small_sets
  <2> HIDE DEF p
  <2>4. Score(p) = Len(p.segs) + 10 * Cardinality(literal) + IF p.subtree THEN 0 ELSE 1000
    BY Zenon DEF Score
  <2> HIDE DEF literal
  <2>5. Score(p) = 1023
    BY <2>2, <2>3, <2>4
  <2> QED
    BY <2>5 DEF p
<1>5. Score(Patterns[5]) = 1023
  <2> DEFINE p == Patterns[5]
             literal == {n \in DOMAIN p.segs : p.segs[n] # Wild}
  <2>1. literal = {1, 3}
    BY Segments
  <2>2. Len(p.segs) = 3 /\ p.subtree = FALSE
    BY Segments
  <2>3. Cardinality(literal) = 2
    BY <2>1, Small_sets
  <2> HIDE DEF p
  <2>4. Score(p) = Len(p.segs) + 10 * Cardinality(literal) + IF p.subtree THEN 0 ELSE 1000
    BY Zenon DEF Score
  <2> HIDE DEF literal
  <2>5. Score(p) = 1023
    BY <2>2, <2>3, <2>4
  <2> QED
    BY <2>5 DEF p
<1>6. Score(Patterns[6]) = 1022
  <2> DEFINE p == Patterns[6]
             literal == {n \in DOMAIN p.segs : p.segs[n] # Wild}
  <2>1. literal = {1, 2}
    BY Segments
  <2>2. Len(p.segs) = 2 /\ p.subtree = FALSE
    BY Segments
  <2>3. Cardinality(literal) = 2
    BY <2>1, Small_sets
  <2> HIDE DEF p
  <2>4. Score(p) = Len(p.segs) + 10 * Cardinality(literal) + IF p.subtree THEN 0 ELSE 1000
    BY Zenon DEF Score
  <2> HIDE DEF literal
  <2>5. Score(p) = 1022
    BY <2>2, <2>3, <2>4
  <2> QED
    BY <2>5 DEF p
<1>7. Score(Patterns[7]) = 11
  <2> DEFINE p == Patterns[7]
             literal == {n \in DOMAIN p.segs : p.segs[n] # Wild}
  <2>1. literal = {1}
    BY Segments
  <2>2. Len(p.segs) = 1 /\ p.subtree = TRUE
    BY Segments
  <2>3. Cardinality(literal) = 1
    BY <2>1, Small_sets
  <2> HIDE DEF p
  <2>4. Score(p) = Len(p.segs) + 10 * Cardinality(literal) + IF p.subtree THEN 0 ELSE 1000
    BY Zenon DEF Score
  <2> HIDE DEF literal
  <2>5. Score(p) = 11
    BY <2>2, <2>3, <2>4
  <2> QED
    BY <2>5 DEF p
<1> QED
  BY <1>1, <1>2, <1>3, <1>4, <1>5, <1>6, <1>7

\* The place of the pattern that a path should reach.
PlaceOf(parts) ==
  IF Len(parts) = 2 /\ parts[1] = <<"api">> /\ parts[2] = <<"local-nodes">> THEN 1
  ELSE IF Len(parts) = 1 /\ parts[1] = <<"settings">> THEN 2
  ELSE IF Len(parts) = 3 /\ parts[1] = <<"alerts">> /\ parts[2] # <<Empty>> /\ parts[3] = <<"delete">> THEN 4
  ELSE IF Len(parts) = 3 /\ parts[1] = <<"alerts">> /\ parts[2] # <<Empty>> /\ parts[3] = <<"convert">> THEN 5
  ELSE IF Len(parts) = 2 /\ parts[1] = <<"alerts">> /\ parts[2] = <<"new">> THEN 6
  ELSE IF Len(parts) >= 2 /\ parts[1] = <<"alerts">> THEN 7
  ELSE 3

\* Which patterns match.
LEMMA Matching ==
  ASSUME NEW parts \in EscapedPaths
  PROVE  /\ Matches(Patterns[1], parts) <=> Len(parts) = 2 /\ parts[1] = <<"api">> /\ parts[2] = <<"local-nodes">>
         /\ Matches(Patterns[2], parts) <=> Len(parts) = 1 /\ parts[1] = <<"settings">>
         /\ Matches(Patterns[3], parts)
         /\ Matches(Patterns[4], parts) <=>
              Len(parts) = 3 /\ parts[1] = <<"alerts">> /\ parts[2] # <<Empty>> /\ parts[3] = <<"delete">>
         /\ Matches(Patterns[5], parts) <=>
              Len(parts) = 3 /\ parts[1] = <<"alerts">> /\ parts[2] # <<Empty>> /\ parts[3] = <<"convert">>
         /\ Matches(Patterns[6], parts) <=> Len(parts) = 2 /\ parts[1] = <<"alerts">> /\ parts[2] = <<"new">>
         /\ Matches(Patterns[7], parts) <=> Len(parts) >= 2 /\ parts[1] = <<"alerts">>
<1>0. Len(parts) \in Nat /\ parts \in Seq(Seq(Texts) \ {<<>>})
  BY LenProperties DEF EscapedPaths
<1> DEFINE Fits(p) == \A i \in DOMAIN p.segs :
             IF p.segs[i] = Wild THEN parts[i] # <<Empty>> ELSE parts[i] = <<p.segs[i]>>
           Long(p) == IF p.subtree THEN p.segs = <<>> \/ Len(parts) >= Len(p.segs) + 1
                      ELSE Len(parts) = Len(p.segs)
<1>00. \A p : Matches(p, parts) <=> Long(p) /\ Fits(p)
  BY Zenon DEF Matches
<1>1. Matches(Patterns[1], parts) <=> Len(parts) = 2 /\ parts[1] = <<"api">> /\ parts[2] = <<"local-nodes">>
  <2>1. Fits(Patterns[1]) <=> parts[1] = <<"api">> /\ parts[2] = <<"local-nodes">>
    <3> DEFINE p == Patterns[1]
    <3>1. DOMAIN p.segs = {1, 2} /\ p.segs[1] = "api" /\ "api" # Wild /\ p.segs[2] = "local-nodes" /\ "local-nodes" # Wild
      BY Segments
    <3> HIDE DEF p
    <3>2. Fits(p) <=> parts[1] = <<"api">> /\ parts[2] = <<"local-nodes">>
      BY <3>1
    <3> QED
      BY <3>2 DEF p
  <2>3. Long(Patterns[1]) <=> Len(parts) = 2
    BY <1>0, Segments
  <2> HIDE DEF Fits, Long
  <2> QED
    BY <1>00, <2>1, <2>3
<1>2. Matches(Patterns[2], parts) <=> Len(parts) = 1 /\ parts[1] = <<"settings">>
  <2>1. Fits(Patterns[2]) <=> parts[1] = <<"settings">>
    <3> DEFINE p == Patterns[2]
    <3>1. DOMAIN p.segs = {1} /\ p.segs[1] = "settings" /\ "settings" # Wild
      BY Segments
    <3> HIDE DEF p
    <3>2. Fits(p) <=> parts[1] = <<"settings">>
      BY <3>1
    <3> QED
      BY <3>2 DEF p
  <2>3. Long(Patterns[2]) <=> Len(parts) = 1
    BY <1>0, Segments
  <2> HIDE DEF Fits, Long
  <2> QED
    BY <1>00, <2>1, <2>3
<1>3. Matches(Patterns[3], parts)
  <2>1. Fits(Patterns[3]) <=> TRUE
    BY Segments
  <2>3. Long(Patterns[3]) <=> TRUE
    BY <1>0, Segments
  <2> HIDE DEF Fits, Long
  <2> QED
    BY <1>00, <2>1, <2>3
<1>4. Matches(Patterns[4], parts) <=> Len(parts) = 3 /\ parts[1] = <<"alerts">> /\ parts[2] # <<Empty>> /\ parts[3] = <<"delete">>
  <2>1. Fits(Patterns[4]) <=> parts[1] = <<"alerts">> /\ parts[2] # <<Empty>> /\ parts[3] = <<"delete">>
    <3> DEFINE p == Patterns[4]
    <3>1. DOMAIN p.segs = {1, 2, 3} /\ p.segs[1] = "alerts" /\ "alerts" # Wild /\ p.segs[2] = Wild /\ p.segs[3] = "delete" /\ "delete" # Wild
      BY Segments
    <3> HIDE DEF p
    <3>2. Fits(p) <=> parts[1] = <<"alerts">> /\ parts[2] # <<Empty>> /\ parts[3] = <<"delete">>
      BY <3>1
    <3> QED
      BY <3>2 DEF p
  <2>3. Long(Patterns[4]) <=> Len(parts) = 3
    BY <1>0, Segments
  <2> HIDE DEF Fits, Long
  <2> QED
    BY <1>00, <2>1, <2>3
<1>5. Matches(Patterns[5], parts) <=> Len(parts) = 3 /\ parts[1] = <<"alerts">> /\ parts[2] # <<Empty>> /\ parts[3] = <<"convert">>
  <2>1. Fits(Patterns[5]) <=> parts[1] = <<"alerts">> /\ parts[2] # <<Empty>> /\ parts[3] = <<"convert">>
    <3> DEFINE p == Patterns[5]
    <3>1. DOMAIN p.segs = {1, 2, 3} /\ p.segs[1] = "alerts" /\ "alerts" # Wild /\ p.segs[2] = Wild /\ p.segs[3] = "convert" /\ "convert" # Wild
      BY Segments
    <3> HIDE DEF p
    <3>2. Fits(p) <=> parts[1] = <<"alerts">> /\ parts[2] # <<Empty>> /\ parts[3] = <<"convert">>
      BY <3>1
    <3> QED
      BY <3>2 DEF p
  <2>3. Long(Patterns[5]) <=> Len(parts) = 3
    BY <1>0, Segments
  <2> HIDE DEF Fits, Long
  <2> QED
    BY <1>00, <2>1, <2>3
<1>6. Matches(Patterns[6], parts) <=> Len(parts) = 2 /\ parts[1] = <<"alerts">> /\ parts[2] = <<"new">>
  <2>1. Fits(Patterns[6]) <=> parts[1] = <<"alerts">> /\ parts[2] = <<"new">>
    <3> DEFINE p == Patterns[6]
    <3>1. DOMAIN p.segs = {1, 2} /\ p.segs[1] = "alerts" /\ "alerts" # Wild /\ p.segs[2] = "new" /\ "new" # Wild
      BY Segments
    <3> HIDE DEF p
    <3>2. Fits(p) <=> parts[1] = <<"alerts">> /\ parts[2] = <<"new">>
      BY <3>1
    <3> QED
      BY <3>2 DEF p
  <2>3. Long(Patterns[6]) <=> Len(parts) = 2
    BY <1>0, Segments
  <2> HIDE DEF Fits, Long
  <2> QED
    BY <1>00, <2>1, <2>3
<1>7. Matches(Patterns[7], parts) <=> Len(parts) >= 2 /\ parts[1] = <<"alerts">>
  <2>1. Fits(Patterns[7]) <=> parts[1] = <<"alerts">>
    <3> DEFINE p == Patterns[7]
    <3>1. DOMAIN p.segs = {1} /\ p.segs[1] = "alerts" /\ "alerts" # Wild
      BY Segments
    <3> HIDE DEF p
    <3>2. Fits(p) <=> parts[1] = <<"alerts">>
      BY <3>1
    <3> QED
      BY <3>2 DEF p
  <2>2. Patterns[7].segs # <<>>
    <3>1. DOMAIN Patterns[7].segs # {} /\ DOMAIN <<>> = {}
      BY Segments
    <3> QED
      BY <3>1
  <2>3. Long(Patterns[7]) <=> Len(parts) >= 2
    BY <1>0, <2>2, Segments
  <2> HIDE DEF Fits, Long
  <2> QED
    BY <1>00, <2>1, <2>3
<1> QED
  BY <1>1, <1>2, <1>3, <1>4, <1>5, <1>6, <1>7
\* One step of the loop.
LEMMA Better_match ==
  ASSUME NEW p, NEW q, NEW parts
  PROVE  /\ ~Matches(p, parts) => BetterMatch(<<>>, p, parts) = <<>> /\ BetterMatch(<<q>>, p, parts) = <<q>>
         /\ Matches(p, parts) => BetterMatch(<<>>, p, parts) = <<p>>
         /\ Matches(p, parts) /\ Score(p) > Score(q) => BetterMatch(<<q>>, p, parts) = <<p>>
         /\ ~(Score(p) > Score(q)) => BetterMatch(<<q>>, p, parts) = <<q>>
<1>1. <<q>> # <<>> /\ <<q>>[1] = q
  OBVIOUS
<1> DEFINE best == <<q>>
<1> HIDE DEF best
<1>2. best # <<>> /\ best[1] = q
  BY <1>1 DEF best
<1>3. /\ ~Matches(p, parts) => BetterMatch(best, p, parts) = best
      /\ Matches(p, parts) /\ Score(p) > Score(q) => BetterMatch(best, p, parts) = <<p>>
      /\ ~(Score(p) > Score(q)) => BetterMatch(best, p, parts) = best
  BY <1>2 DEF BetterMatch
<1>4. /\ ~Matches(p, parts) => BetterMatch(<<>>, p, parts) = <<>>
      /\ Matches(p, parts) => BetterMatch(<<>>, p, parts) = <<p>>
  BY DEF BetterMatch
<1> QED
  BY <1>3, <1>4 DEF best

\* A pattern that does not match changes nothing.
LEMMA No_match ==
  ASSUME NEW p, NEW q, NEW parts, ~Matches(p, parts)
  PROVE  BetterMatch(<<>>, p, parts) = <<>> /\ BetterMatch(<<q>>, p, parts) = <<q>>
BY DEF BetterMatch

\* A path matches the pattern that it should reach.
LEMMA Match_is ==
  ASSUME NEW parts \in EscapedPaths
  PROVE  Match(parts) = <<Patterns[PlaceOf(parts)]>>
<1> DEFINE m(n) == Matches(Patterns[n], parts)
           B(best, n) == BetterMatch(best, Patterns[n], parts)
           P(n) == <<Patterns[n]>>
<1>1. PICK h : IsMatchLoop(h, parts)
  BY Match_loop
<1>2. /\ h[0] = <<>> /\ h[7] = Match(parts)
      /\ h[1] = B(h[0], 1) /\ h[2] = B(h[1], 2) /\ h[3] = B(h[2], 3) /\ h[4] = B(h[3], 4)
      /\ h[5] = B(h[4], 5) /\ h[6] = B(h[5], 6) /\ h[7] = B(h[6], 7)
  <2>1. \A n \in 1 .. 7 : h[n] = B(h[n - 1], n)
    BY <1>1 DEF IsMatchLoop
  <2>2. 1 - 1 = 0 /\ 2 - 1 = 1 /\ 3 - 1 = 2 /\ 4 - 1 = 3 /\ 5 - 1 = 4 /\ 6 - 1 = 5 /\ 7 - 1 = 6
    OBVIOUS
  <2> HIDE DEF B
  <2> QED
    BY <1>1, <2>1, <2>2 DEF IsMatchLoop
<1>3. /\ m(1) <=> Len(parts) = 2 /\ parts[1] = <<"api">> /\ parts[2] = <<"local-nodes">>
      /\ m(2) <=> Len(parts) = 1 /\ parts[1] = <<"settings">>
      /\ m(3)
      /\ m(4) <=> Len(parts) = 3 /\ parts[1] = <<"alerts">> /\ parts[2] # <<Empty>> /\ parts[3] = <<"delete">>
      /\ m(5) <=> Len(parts) = 3 /\ parts[1] = <<"alerts">> /\ parts[2] # <<Empty>> /\ parts[3] = <<"convert">>
      /\ m(6) <=> Len(parts) = 2 /\ parts[1] = <<"alerts">> /\ parts[2] = <<"new">>
      /\ m(7) <=> Len(parts) >= 2 /\ parts[1] = <<"alerts">>
  BY Matching
<1>4. /\ PlaceOf(parts) = IF m(1) THEN 1 ELSE IF m(2) THEN 2 ELSE IF m(4) THEN 4 ELSE IF m(5) THEN 5
                          ELSE IF m(6) THEN 6 ELSE IF m(7) THEN 7 ELSE 3
  <2> HIDE DEF m
  <2> QED
    BY <1>3 DEF PlaceOf
<1>5. /\ m(1) => ~m(2) /\ ~m(4) /\ ~m(5) /\ ~m(6) /\ ~m(7)
      /\ m(2) => ~m(4) /\ ~m(5) /\ ~m(6) /\ ~m(7)
      /\ m(4) => ~m(5) /\ ~m(6)
      /\ m(5) => ~m(6)
  <2>1. <<"delete">> # <<"convert">> /\ <<"api">> # <<"alerts">>
    OBVIOUS
  <2> DEFINE k == Len(parts)
             api == <<"api">>
             alerts == <<"alerts">>
             delete == <<"delete">>
             convert == <<"convert">>
  <2>2. /\ m(1) => k = 2 /\ parts[1] = api
        /\ m(2) => k = 1
        /\ m(4) => k = 3 /\ parts[1] = alerts /\ parts[3] = delete
        /\ m(5) => k = 3 /\ parts[1] = alerts /\ parts[3] = convert
        /\ m(6) => k = 2 /\ parts[1] = alerts
        /\ m(7) => k >= 2 /\ parts[1] = alerts
        /\ delete # convert /\ api # alerts
    <3> HIDE DEF m
    <3> QED
      BY <1>3, <2>1
  <2> HIDE DEF m, k, api, alerts, delete, convert
  <2> QED
    BY <2>2
<1>6. \A n \in 1 .. 7 : ~m(n) => B(<<>>, n) = <<>> /\ \A i \in 1 .. 7 : B(P(i), n) = P(i)
  <2> SUFFICES ASSUME NEW n \in 1 .. 7, ~m(n), NEW i \in 1 .. 7
               PROVE  B(<<>>, n) = <<>> /\ B(P(i), n) = P(i)
    OBVIOUS
  <2> QED
    BY No_match
<1>7. \A n \in 1 .. 7 : m(n) => B(<<>>, n) = P(n)
  BY Better_match
<1>8. /\ B(P(1), 3) = P(1) /\ B(P(2), 3) = P(2)
      /\ B(P(4), 7) = P(4) /\ B(P(5), 7) = P(5) /\ B(P(6), 7) = P(6)
  <2>1. /\ ~(Score(Patterns[3]) > Score(Patterns[1])) /\ ~(Score(Patterns[3]) > Score(Patterns[2]))
        /\ ~(Score(Patterns[7]) > Score(Patterns[4])) /\ ~(Score(Patterns[7]) > Score(Patterns[5]))
        /\ ~(Score(Patterns[7]) > Score(Patterns[6]))
    BY Scores
  <2>2. \A i, n \in 1 .. 7 : ~(Score(Patterns[n]) > Score(Patterns[i])) => B(P(i), n) = P(i)
    BY Better_match
  <2> HIDE DEF B, P
  <2> QED
    BY <2>1, <2>2
<1>9. /\ m(4) => B(P(3), 4) = P(4)
      /\ m(5) => B(P(3), 5) = P(5)
      /\ m(6) => B(P(3), 6) = P(6)
      /\ m(7) => B(P(3), 7) = P(7)
  <2>1. /\ Score(Patterns[4]) > Score(Patterns[3]) /\ Score(Patterns[5]) > Score(Patterns[3])
        /\ Score(Patterns[6]) > Score(Patterns[3]) /\ Score(Patterns[7]) > Score(Patterns[3])
    BY Scores
  <2>2. \A i, n \in 1 .. 7 : m(n) /\ Score(Patterns[n]) > Score(Patterns[i]) => B(P(i), n) = P(n)
    BY Better_match
  <2> HIDE DEF m, B, P
  <2> QED
    BY <2>1, <2>2
<1> SUFFICES h[7] = P(PlaceOf(parts))
  BY <1>2
<1> HIDE DEF m, B, P
<1>10. CASE m(1)
  <2>1. h[1] = P(1) /\ h[2] = P(1)
    BY <1>2, <1>5, <1>6, <1>7, <1>10
  <2>2. h[3] = P(1) /\ h[4] = P(1) /\ h[5] = P(1) /\ h[6] = P(1) /\ h[7] = P(1)
    BY <1>2, <1>5, <1>6, <1>8, <1>10, <2>1
  <2> QED
    BY <1>4, <1>10, <2>2
<1>11. CASE m(2) /\ ~m(1)
  <2>1. h[1] = <<>> /\ h[2] = P(2)
    BY <1>2, <1>6, <1>7, <1>11
  <2>2. h[3] = P(2) /\ h[4] = P(2) /\ h[5] = P(2) /\ h[6] = P(2) /\ h[7] = P(2)
    BY <1>2, <1>5, <1>6, <1>8, <1>11, <2>1
  <2> QED
    BY <1>4, <1>11, <2>2
<1>12. CASE ~m(1) /\ ~m(2)
  <2>1. h[1] = <<>> /\ h[2] = <<>> /\ h[3] = P(3)
    <3>1. m(3)
      BY <1>3
    <3> QED
      BY <1>2, <1>6, <1>7, <1>12, <3>1
  <2>2. CASE m(4)
    <3>1. h[4] = P(4) /\ h[5] = P(4) /\ h[6] = P(4) /\ h[7] = P(4)
      BY <1>2, <1>5, <1>6, <1>8, <1>9, <2>1, <2>2
    <3> QED
      BY <1>4, <1>12, <2>2, <3>1
  <2>3. CASE ~m(4) /\ m(5)
    <3>1. h[4] = P(3) /\ h[5] = P(5) /\ h[6] = P(5) /\ h[7] = P(5)
      BY <1>2, <1>5, <1>6, <1>8, <1>9, <2>1, <2>3
    <3> QED
      BY <1>4, <1>12, <2>3, <3>1
  <2>4. CASE ~m(4) /\ ~m(5) /\ m(6)
    <3>1. h[4] = P(3) /\ h[5] = P(3) /\ h[6] = P(6) /\ h[7] = P(6)
      BY <1>2, <1>6, <1>8, <1>9, <2>1, <2>4
    <3> QED
      BY <1>4, <1>12, <2>4, <3>1
  <2>5. CASE ~m(4) /\ ~m(5) /\ ~m(6)
    <3>1. h[4] = P(3) /\ h[5] = P(3) /\ h[6] = P(3)
      BY <1>2, <1>6, <2>1, <2>5
    <3>2. h[7] = IF m(7) THEN P(7) ELSE P(3)
      BY <1>2, <1>6, <1>9, <3>1
    <3> QED
      BY <1>4, <1>12, <2>5, <3>2
  <2> QED
    BY <2>2, <2>3, <2>4, <2>5
<1> QED
  BY <1>10, <1>11, <1>12

-----------------------------------------------------------------------------
(* Decoded paths. *)

\* The parts up to n are no encoded slashes.
SinglesTo(e, n) == \A i \in 1 .. n : Len(e[i]) = 1

\* Decoding makes a path longer, but for one without encoded slashes.
LEMMA Decoded_longer ==
  ASSUME NEW e \in EscapedPaths
  PROVE  /\ Decoded(e) \in Seq(Texts) /\ Len(e) \in Nat \ {0} /\ Len(Decoded(e)) \in Nat
         /\ Len(Decoded(e)) >= Len(e)
         /\ Len(Decoded(e)) = Len(e) <=> SinglesTo(e, Len(e))
         /\ SinglesTo(e, Len(e)) => \A i \in 1 .. Len(e) : Decoded(e)[i] = e[i][1]
<1> DEFINE k == Len(e)
<1>1. e \in Seq(Seq(Texts)) /\ k \in Nat \ {0}
  <2>1. e \in Seq(Seq(Texts) \ {<<>>}) /\ e # <<>>
    BY DEF EscapedPaths
  <2>2. Seq(Texts) \ {<<>>} \subseteq Seq(Texts)
    OBVIOUS
  <2> QED
    BY <2>1, <2>2, SeqMonotonic, EmptySeq
<1>2. ASSUME NEW i \in 1 .. k PROVE e[i] \in Seq(Texts) /\ Len(e[i]) \in Nat \ {0}
  <2>1. e[i] \in Seq(Texts) \ {<<>>}
    BY ElementOfSeq DEF EscapedPaths
  <2> QED
    BY <2>1, EmptySeq
<1>3. PICK h : IsFlatten(h, Texts, e)
  BY <1>1, Flatten_loop
<1>4. /\ h \in [0 .. k -> Seq(Texts)] /\ h[0] = <<>> /\ Decoded(e) = h[k]
      /\ \A n \in 1 .. k : h[n] = h[n - 1] \o e[n]
  BY <1>3 DEF IsFlatten, Decoded
<1> HIDE DEF k
<1>5. \A n \in 0 .. k : h[n] \in Seq(Texts) /\ Len(h[n]) \in Nat
  BY <1>1, <1>4, LenProperties
<1> DEFINE Q(n) == /\ Len(h[n]) >= n
                   /\ Len(h[n]) = n <=> SinglesTo(e, n)
                   /\ SinglesTo(e, n) => \A i \in 1 .. n : h[n][i] = e[i][1]
           T == {n \in 0 .. k : Q(n)}
<1>6. 0 \in T
  <2>1. Len(h[0]) = 0 /\ 0 \in 0 .. k
    BY <1>1, <1>4
  <2> QED
    BY <2>1 DEF SinglesTo
<1>7. ASSUME NEW n \in 1 .. k, n - 1 \in T PROVE n \in T
  <2>1. n - 1 \in 0 .. k /\ n \in 0 .. k /\ n \in Nat /\ Q(n - 1)
    BY <1>1, <1>7
  <2> DEFINE a == h[n - 1]
             b == e[n]
             x == Len(a)
             y == Len(b)
  <2>2. a \in Seq(Texts) /\ b \in Seq(Texts) /\ x \in Nat /\ y \in Nat /\ y # 0 /\ h[n] = a \o b
    BY <1>2, <1>4, <1>5, <2>1
  <2>3. x >= n - 1 /\ (x = n - 1 <=> SinglesTo(e, n - 1))
    BY <2>1
  <2>4. SinglesTo(e, n) <=> SinglesTo(e, n - 1) /\ y = 1
    <3>1. \A i \in 1 .. n : i \in 1 .. n - 1 \/ i = n
      BY <2>1
    <3>2. n \in 1 .. n /\ \A i \in 1 .. n - 1 : i \in 1 .. n
      BY <2>1
    <3> QED
      BY <3>1, <3>2 DEF SinglesTo
  <2>5. SinglesTo(e, n - 1) => \A i \in 1 .. n - 1 : a[i] = e[i][1]
    BY <2>1
  <2> HIDE DEF a, b
  <2>6. Len(h[n]) = x + y /\ \A i \in 1 .. x + y : h[n][i] = IF i <= x THEN a[i] ELSE b[i - x]
    BY <2>2, ConcatProperties
  <2> HIDE DEF x, y
  <2>7. x + y >= n /\ (x + y = n <=> x = n - 1 /\ y = 1)
    BY <2>1, <2>2, <2>3
  <2>8. Len(h[n]) >= n /\ (Len(h[n]) = n <=> SinglesTo(e, n))
    BY <2>3, <2>4, <2>6, <2>7
  <2>9. ASSUME SinglesTo(e, n), NEW i \in 1 .. n PROVE h[n][i] = e[i][1]
    <3>1. x = n - 1 /\ y = 1 /\ SinglesTo(e, n - 1)
      BY <2>3, <2>4, <2>9
    <3>2. i \in 1 .. x + y
      BY <2>1, <3>1
    <3>3. CASE i = n
      <4>1. ~(i <= x) /\ i - x = 1
        BY <2>1, <3>1, <3>3
      <4>2. h[n][i] = b[1]
        BY <2>6, <3>2, <4>1
      <4> QED
        BY <3>3, <4>2 DEF b
    <3>4. CASE i # n
      <4>1. i <= x /\ i \in 1 .. n - 1
        BY <2>1, <3>1, <3>4
      <4> QED
        BY <2>5, <2>6, <3>1, <3>2, <4>1
    <3> QED
      BY <3>3, <3>4
  <2> QED
    BY <2>1, <2>8, <2>9
<1>8. k \in T
  <2>1. k \in 0 .. k /\ k \in Nat
    BY <1>1
  <2> HIDE DEF T
  <2> QED
    BY <1>6, <1>7, <2>1, Count_up
<1>9. Q(k) /\ h[k] \in Seq(Texts) /\ Len(h[k]) \in Nat
  BY <1>5, <1>8
<1> QED
  BY <1>1, <1>4, <1>9 DEF k
\* Paths that are not empty.
PlainPaths == Seq(Texts) \ {<<>>}

\* A path from a Location header decodes to itself.
LEMMA Plain_path ==
  ASSUME NEW q \in PlainPaths
  PROVE  /\ Plain(q) \in EscapedPaths /\ Len(Plain(q)) = Len(q) /\ Len(q) \in Nat \ {0}
         /\ \A i \in 1 .. Len(q) : Plain(q)[i] = <<q[i]>>
         /\ Decoded(Plain(q)) = q
<1> DEFINE k == Len(q)
           e == Plain(q)
<1>1. q \in Seq(Texts) /\ k \in Nat \ {0} /\ DOMAIN q = 1 .. k /\ \A i \in 1 .. k : q[i] \in Texts
  BY EmptySeq, LenProperties, ElementOfSeq DEF PlainPaths
<1>2. e = [i \in 1 .. k |-> <<q[i]>>]
  BY <1>1 DEF Plain
<1>3. \A i \in 1 .. k : <<q[i]>> \in Seq(Texts) \ {<<>>} /\ Len(<<q[i]>>) = 1 /\ <<q[i]>>[1] = q[i]
  BY <1>1
<1> HIDE DEF e, k
<1>4. e \in Seq(Seq(Texts) \ {<<>>}) /\ Len(e) = k
  <2> DEFINE X == Seq(Texts) \ {<<>>}
             D == 1 .. k
  <2>1. e \in [1 .. k -> X]
    <3>1. e = [i \in D |-> <<q[i]>>] /\ \A i \in D : <<q[i]>> \in X
      BY <1>2, <1>3
    <3> HIDE DEF D, X
    <3>2. e \in [D -> X]
      BY <3>1
    <3> QED
      BY <3>2 DEF D
  <2> HIDE DEF X
  <2>2. e \in Seq(X) /\ Len(e) = k
    BY <1>1, <2>1
  <2> QED
    BY <2>2 DEF X
<1>5. e \in EscapedPaths
  <2>1. e # <<>>
    BY <1>1, <1>4
  <2> QED
    BY <1>4, <2>1 DEF EscapedPaths
<1>6. \A i \in 1 .. k : e[i] = <<q[i]>> /\ Len(e[i]) = 1 /\ e[i][1] = q[i]
  BY <1>2, <1>3
<1>7. SinglesTo(e, k)
  BY <1>6 DEF SinglesTo
<1> DEFINE d == Decoded(e)
<1>8. d \in Seq(Texts) /\ Len(d) = Len(q) /\ \A i \in 1 .. k : d[i] = e[i][1]
  BY <1>4, <1>5, <1>7, Decoded_longer DEF k
<1>9. \A i \in 1 .. Len(d) : d[i] = q[i]
  BY <1>6, <1>8 DEF k
<1> HIDE DEF d
<1>10. d = q
  BY <1>1, <1>8, <1>9, SeqEqual
<1> QED
  BY <1>1, <1>4, <1>5, <1>6, <1>10 DEF d, e, k

\* A path without encoded slashes is the one whose decoded form has as many parts.
LEMMA Plain_decoded ==
  ASSUME NEW e \in EscapedPaths
  PROVE  /\ Decoded(e) \in PlainPaths
         /\ e = Plain(Decoded(e)) <=> Len(Decoded(e)) = Len(e)
<1> DEFINE d == Decoded(e)
           p == Plain(d)
<1>1. /\ d \in Seq(Texts) /\ Len(e) \in Nat \ {0} /\ Len(d) \in Nat /\ Len(d) >= Len(e)
      /\ Len(d) = Len(e) <=> SinglesTo(e, Len(e))
      /\ SinglesTo(e, Len(e)) => \A i \in 1 .. Len(e) : d[i] = e[i][1]
  BY Decoded_longer
<1> HIDE DEF d
<1>2. d \in PlainPaths
  <2>1. d # <<>>
    BY <1>1
  <2> QED
    BY <1>1, <2>1 DEF PlainPaths
<1>3. p \in EscapedPaths /\ Len(p) = Len(d) /\ \A i \in 1 .. Len(d) : p[i] = <<d[i]>>
  BY <1>2, Plain_path
<1> HIDE DEF p
<1>4. ASSUME Len(d) = Len(e) PROVE e = p
  <2> DEFINE X == Seq(Texts) \ {<<>>}
  <2>1. e \in Seq(X) /\ p \in Seq(X) /\ Len(e) = Len(p)
    BY <1>3, <1>4 DEF EscapedPaths
  <2>2. \A i \in 1 .. Len(e) : e[i] = p[i]
    <3> SUFFICES ASSUME NEW i \in 1 .. Len(e) PROVE e[i] = p[i]
      OBVIOUS
    <3>1. p[i] = <<d[i]>> /\ d[i] = e[i][1] /\ Len(e[i]) = 1
      BY <1>1, <1>3, <1>4 DEF SinglesTo
    <3>2. e[i] \in Seq(Texts)
      BY <2>1, ElementOfSeq
    <3> DEFINE a == e[i]
               b == e[i][1]
    <3>3. a \in Seq(Texts) /\ Len(a) = 1 /\ a[1] = b
      BY <3>1, <3>2
    <3> HIDE DEF a, b
    <3>4. a = <<b>>
      BY <3>3, Short_sequences
    <3> QED
      BY <3>1, <3>4 DEF a, b
  <2> HIDE DEF X
  <2> QED
    BY <2>1, <2>2, SeqEqual
<1>5. ASSUME e = p PROVE Len(d) = Len(e)
  BY <1>3, <1>5
<1> QED
  BY <1>2, <1>4, <1>5 DEF d, p

-----------------------------------------------------------------------------
(* Clean paths, and the way through the bridge. *)

\* The parts that path.Clean leaves as they are.
Proper == Texts \ {Empty, ".", ".."}

\* The parts of a path that path.Clean keeps.
Kept(path) == FoldLeft(CleanPart, <<>>, path)

\* path.Clean keeps no empty part, no dot and no pair of dots.
LEMMA Kept_proper ==
  ASSUME NEW path \in Seq(Texts)
  PROVE  Kept(path) \in Seq(Proper)
<1> DEFINE k == Len(path)
<1>1. k \in Nat
  BY LenProperties
<1>2. PICK h : IsCleanLoop(h, path)
  BY Clean_loop
<1>3. h[0] = <<>> /\ h[k] = Kept(path) /\ \A n \in 1 .. k : h[n] = CleanPart(h[n - 1], path[n])
  BY <1>2 DEF IsCleanLoop, Kept
<1>4. \A n \in 1 .. k : path[n] \in Texts
  BY ElementOfSeq
<1> HIDE DEF k
<1> DEFINE T == {n \in 0 .. k : h[n] \in Seq(Proper)}
<1>5. 0 \in T
  <2>1. <<>> \in Seq(Proper) /\ 0 \in 0 .. k
    BY <1>1, EmptySeq
  <2> QED
    BY <1>3, <2>1
<1>6. ASSUME NEW n \in 1 .. k, n - 1 \in T PROVE n \in T
  <2> DEFINE v == h[n - 1]
             x == path[n]
  <2>1. v \in Seq(Proper) /\ x \in Texts /\ h[n] = CleanPart(v, x) /\ n \in 0 .. k
    BY <1>1, <1>3, <1>4, <1>6
  <2> HIDE DEF v, x
  <2>2. CleanPart(v, x) \in Seq(Proper)
    <3>1. CASE x \in Proper
      <4>1. Append(v, x) \in Seq(Proper)
        BY <2>1, <3>1, AppendProperties
      <4>2. CleanPart(v, x) = Append(v, x)
        BY <3>1 DEF CleanPart, Proper
      <4> QED
        BY <4>1, <4>2
    <3>2. CASE v # <<>>
      <4>1. Len(v) - 1 \in Int /\ 1 \in Int /\ \A j \in 1 .. Len(v) - 1 : v[j] \in Proper
        BY <2>1, LenProperties, ElementOfSeq
      <4>2. Front(v) \in Seq(Proper)
        BY <4>1, SubSeqProperties DEF Front
      <4>3. CASE x \notin Proper
        <5>1. CleanPart(v, x) \in {v, Front(v)}
          BY <2>1, <4>3 DEF CleanPart, Proper
        <5> QED
          BY <2>1, <4>2, <5>1
      <4> QED
        BY <3>1, <4>3
    <3>3. CASE v = <<>> /\ x \notin Proper
      <4>1. CleanPart(v, x) = v
        BY <2>1, <3>3 DEF CleanPart, Proper
      <4> QED
        BY <2>1, <4>1
    <3> QED
      BY <3>1, <3>2, <3>3
  <2> QED
    BY <2>1, <2>2
<1>7. k \in T
  <2>1. k \in 0 .. k
    BY <1>1
  <2> HIDE DEF T
  <2> QED
    BY <1>1, <1>5, <1>6, <2>1, Count_up
<1> QED
  BY <1>3, <1>7

\* Proper parts are kept as they are, and a slash at the end adds none.
LEMMA Kept_same ==
  ASSUME NEW q \in Seq(Proper), NEW path \in {q, Append(q, Empty)}
  PROVE  Kept(path) = q
<1> DEFINE k == Len(q)
           m == Len(path)
<1>1. k \in Nat /\ q \in Seq(Texts) /\ \A i \in 1 .. k : q[i] \in Proper
  <2>1. Proper \subseteq Texts
    BY DEF Proper
  <2> QED
    BY <2>1, SeqMonotonic, LenProperties, ElementOfSeq
<1>2. /\ path \in Seq(Texts) /\ \A i \in 1 .. k : path[i] = q[i]
      /\ m = k \/ (m = k + 1 /\ path[m] = Empty)
  <2>1. CASE path = q
    BY <1>1, <2>1
  <2>2. CASE path = Append(q, Empty)
    <3>1. Empty \in Texts
      BY TextAssumption
    <3> QED
      BY <1>1, <2>2, <3>1, AppendProperties
  <2> QED
    BY <2>1, <2>2
<1>3. PICK h : IsCleanLoop(h, path)
  BY <1>2, Clean_loop
<1>4. /\ h[0] = <<>> /\ h[m] = Kept(path) /\ h \in [0 .. m -> Seq(Texts)]
      /\ \A n \in 1 .. m : h[n] = CleanPart(h[n - 1], path[n])
  BY <1>3 DEF IsCleanLoop, Kept
<1> HIDE DEF k, m
<1> DEFINE T == {n \in 0 .. k : Len(h[n]) = n /\ \A i \in 1 .. n : h[n][i] = q[i]}
<1>5. 0 \in T
  BY <1>1, <1>4
<1>6. ASSUME NEW n \in 1 .. k, n - 1 \in T PROVE n \in T
  <2> DEFINE v == h[n - 1]
             x == path[n]
  <2>1. n \in 1 .. m /\ n - 1 \in 0 .. m /\ n \in 0 .. k /\ n \in Nat
    BY <1>1, <1>2
  <2>2. v \in Seq(Texts) /\ x = q[n] /\ x \in Proper /\ h[n] = CleanPart(v, x)
    BY <1>1, <1>2, <1>4, <2>1
  <2>3. Len(v) = n - 1 /\ \A i \in 1 .. n - 1 : v[i] = q[i]
    BY <1>6
  <2> HIDE DEF v, x
  <2>4. h[n] = Append(v, x) /\ x \in Texts
    BY <2>2 DEF CleanPart, Proper
  <2>5. Len(h[n]) = Len(v) + 1 /\ (\A i \in 1 .. Len(v) : h[n][i] = v[i]) /\ h[n][Len(v) + 1] = x
    BY <2>2, <2>4, AppendProperties
  <2>6. Len(h[n]) = n
    BY <2>1, <2>3, <2>5
  <2>7. \A i \in 1 .. n : h[n][i] = q[i]
    <3> SUFFICES ASSUME NEW i \in 1 .. n PROVE h[n][i] = q[i]
      OBVIOUS
    <3>1. CASE i = n
      <4>1. Len(v) + 1 = n
        BY <2>1, <2>3
      <4> QED
        BY <2>2, <2>5, <3>1, <4>1
    <3>2. CASE i # n
      <4>1. i \in 1 .. n - 1
        BY <2>1, <3>2
      <4> QED
        BY <2>3, <2>5, <4>1
    <3> QED
      BY <3>1, <3>2
  <2> QED
    BY <2>1, <2>6, <2>7
<1>7. k \in T
  <2>1. k \in 0 .. k
    BY <1>1
  <2> HIDE DEF T
  <2> QED
    BY <1>1, <1>5, <1>6, <2>1, Count_up
<1>8. h[k] = q
  <2>1. h[k] \in Seq(Texts)
    BY <1>1, <1>2, <1>4
  <2>2. Len(h[k]) = k /\ \A i \in 1 .. k : h[k][i] = q[i]
    BY <1>7
  <2> DEFINE v == h[k]
  <2>3. v \in Seq(Texts) /\ Len(v) = Len(q) /\ \A i \in 1 .. Len(v) : v[i] = q[i]
    BY <2>1, <2>2 DEF k
  <2> HIDE DEF v
  <2>4. v = q
    BY <1>1, <2>3, SeqEqual
  <2> QED
    BY <2>4 DEF v
<1>9. CASE m = k
  BY <1>4, <1>8, <1>9
<1>10. CASE m = k + 1 /\ path[m] = Empty
  <2>1. m \in 1 .. m /\ m - 1 = k
    BY <1>1, <1>10
  <2>2. h[m] = CleanPart(q, Empty)
    BY <1>4, <1>8, <1>10, <2>1
  <2>3. CleanPart(q, Empty) = q
    BY DEF CleanPart
  <2> QED
    BY <1>4, <2>2, <2>3
<1> QED
  BY <1>2, <1>9, <1>10

\* A cleaned path is clean.
LEMMA Clean_clean ==
  ASSUME NEW path \in PlainPaths
  PROVE  CleanPath(path) \in PlainPaths /\ CleanPath(CleanPath(path)) = CleanPath(path)
<1> DEFINE q == Kept(path)
           c == CleanPath(path)
<1>1. q \in Seq(Proper) /\ q \in Seq(Texts)
  <2>1. path \in Seq(Texts) /\ Proper \subseteq Texts
    BY DEF PlainPaths, Proper
  <2>2. q \in Seq(Proper)
    BY <2>1, Kept_proper
  <2> HIDE DEF q
  <2> QED
    BY <2>1, <2>2, SeqMonotonic
<1>2. \A p : CleanPath(p) = IF Kept(p) = <<>> \/ Last(p) = Empty THEN Append(Kept(p), Empty) ELSE Kept(p)
  BY Zenon DEF CleanPath, Kept
<1>3. c \in {q, Append(q, Empty)} /\ (c = Append(q, Empty) \/ (c = q /\ q # <<>>))
  BY <1>2
<1> HIDE DEF q, c
<1>4. Kept(c) = q
  BY <1>1, <1>3, Kept_same
<1>5. CASE c = Append(q, Empty)
  <2>1. Empty \in Texts
    BY TextAssumption
  <2>2. c \in Seq(Texts) /\ c # <<>> /\ Len(c) = Len(q) + 1 /\ c[Len(q) + 1] = Empty
    BY <1>1, <1>5, <2>1, AppendProperties
  <2>3. Last(c) = Empty
    BY <2>2 DEF Last
  <2>4. CleanPath(c) = c
    BY <1>2, <1>4, <1>5, <2>3
  <2> QED
    BY <2>2, <2>4 DEF c, PlainPaths
<1>6. CASE c = q /\ q # <<>>
  <2>1. Len(q) \in 1 .. Len(q)
    BY <1>1, <1>6, EmptySeq
  <2>2. Last(q) \in Proper
    BY <1>1, <2>1, ElementOfSeq DEF Last
  <2>3. Last(c) # Empty
    BY <1>6, <2>2 DEF Proper
  <2>4. CleanPath(c) = c
    BY <1>2, <1>4, <1>6, <2>3
  <2> QED
    BY <1>1, <1>6, <2>4 DEF c, PlainPaths
<1> QED
  BY <1>3, <1>5, <1>6

\* A path comes back through the bridge as it went.
LEMMA Comes_back ==
  ASSUME NEW q \in PlainPaths
  PROVE  RequestPath(RewriteLocation(q)) = q
<1> DEFINE base == ExternalBasePath
           uri == RewriteLocation(q)
           k == Len(q)
           W == Texts \cup {"cgi-bin", "apps", "AAMM-NG", "admin"}
<1>1. base \in Seq(W) /\ Len(base) = 4
  BY DEF ExternalBasePath
<1>2. q \in Seq(W) /\ k \in Nat \ {0}
  <2>1. q \in Seq(Texts) /\ Texts \subseteq W
    BY DEF PlainPaths
  <2>2. k \in Nat \ {0}
    BY <2>1, EmptySeq DEF PlainPaths
  <2> HIDE DEF W
  <2> QED
    BY <2>1, <2>2, SeqMonotonic
<1>3. uri = base \o q
  BY DEF RewriteLocation
<1>0. Empty \in W
  BY TextAssumption
<1> HIDE DEF base, k, W
<1>4. /\ uri \in Seq(W) /\ Len(uri) = 4 + k
      /\ \A i \in 1 .. 4 + k : uri[i] = IF i <= 4 THEN base[i] ELSE q[i - 4]
  <2> DEFINE m == Len(base)
  <2>1. /\ uri \in Seq(W) /\ Len(uri) = m + k
        /\ \A i \in 1 .. m + k : uri[i] = IF i <= m THEN base[i] ELSE q[i - m]
    <3>1. /\ base \o q \in Seq(W) /\ Len(base \o q) = m + Len(q)
          /\ \A i \in 1 .. m + Len(q) : (base \o q)[i] = IF i <= m THEN base[i] ELSE q[i - m]
      BY <1>1, <1>2, ConcatProperties
    <3> HIDE DEF m, uri
    <3> QED
      BY <1>3, <3>1 DEF k
  <2> QED
    BY <1>1, <2>1
<1> HIDE DEF uri
<1>5. uri # base
  <2>1. Len(uri) # 4
    BY <1>2, <1>4
  <2> QED
    BY <1>1, <2>1
<1>6. CASE uri = Append(base, Empty)
  <2>2. Len(Append(base, Empty)) = 5 /\ Append(base, Empty)[5] = Empty
    <3>1. Len(Append(base, Empty)) = Len(base) + 1 /\ Append(base, Empty)[Len(base) + 1] = Empty
      <4>1. \A S : \A seq \in Seq(S) : \A e \in S :
              Len(Append(seq, e)) = Len(seq) + 1 /\ Append(seq, e)[Len(seq) + 1] = e
        BY AppendProperties
      <4> QED
        BY Zenon, <1>0, <1>1, <4>1
    <3>2. Len(base) + 1 = 5
      BY <1>1
    <3> QED
      BY <3>1, <3>2
  <2>3. k = 1
    BY <1>2, <1>4, <1>6, <2>2
  <2>4. q[1] = Empty
    BY <1>4, <1>6, <2>2, <2>3
  <2>5. q = <<Empty>>
    <3> DEFINE none == Empty
    <3>1. Len(q) = 1 /\ q[1] = none
      BY <2>3, <2>4 DEF k
    <3> HIDE DEF none
    <3>2. q = <<none>>
      BY <1>2, <3>1, Short_sequences
    <3> QED
      BY <3>2 DEF none
  <2>6. RequestPath(uri) = <<Empty>>
    BY <1>6 DEF RequestPath, base
  <2> QED
    BY <2>5, <2>6 DEF uri
<1>7. CASE uri # Append(base, Empty)
  <2>1. SubSeq(uri, 1, 4) = SubSeq(base, 1, 4)
    <3>1. 1 \in 1 .. Len(base) /\ 4 \in 1 .. Len(base)
      BY <1>1
    <3> QED
      BY <1>1, <1>2, <1>3, <3>1, SubSeqOfConcat1
  <2>2. IsStrictPrefix(base, uri)
    <3>1. Len(base) <= Len(uri)
      BY <1>1, <1>2, <1>4
    <3> QED
      BY <1>1, <1>5, <2>1, <3>1 DEF IsStrictPrefix, IsPrefix
  <2>3. SubSeq(uri, 5, Len(uri)) = q
    <3> DEFINE w == SubSeq(uri, 5, Len(uri))
    <3>1. 5 \in Int /\ Len(uri) \in Int /\ \A i \in 5 .. Len(uri) : uri[i] \in W
      <4>1. \A i \in 5 .. Len(uri) : i \in 1 .. Len(uri)
        BY <1>2, <1>4
      <4> QED
        BY <1>2, <1>4, <4>1, ElementOfSeq
    <3>2. /\ w \in Seq(W)
          /\ Len(w) = IF 5 <= Len(uri) THEN Len(uri) - 5 + 1 ELSE 0
          /\ \A i \in 1 .. Len(uri) - 5 + 1 : w[i] = uri[5 + i - 1]
      BY <3>1, SubSeqProperties
    <3> HIDE DEF w
    <3>3. Len(w) = k /\ \A i \in 1 .. k : w[i] = uri[4 + i]
      <4>1. Len(uri) - 5 + 1 = k /\ 5 <= Len(uri)
        BY <1>2, <1>4
      <4>2. \A i \in 1 .. k : 5 + i - 1 = 4 + i
        BY <1>2
      <4> QED
        BY <3>2, <4>1, <4>2
    <3>4. \A i \in 1 .. k : w[i] = q[i]
      <4> SUFFICES ASSUME NEW i \in 1 .. k PROVE w[i] = q[i]
        OBVIOUS
      <4>1. 4 + i \in 1 .. 4 + k /\ ~(4 + i <= 4) /\ (4 + i) - 4 = i
        BY <1>2
      <4>2. uri[4 + i] = q[(4 + i) - 4]
        BY <1>4, <4>1
      <4> QED
        BY <3>3, <4>1, <4>2
    <3>5. w \in Seq(W) /\ Len(w) = Len(q) /\ \A i \in 1 .. Len(w) : w[i] = q[i]
      BY <3>2, <3>3, <3>4 DEF k
    <3>6. w = q
      BY <1>2, <3>5, SeqEqual
    <3> QED
      BY <3>6 DEF w
  <2>4. RequestPath(uri) = SubSeq(uri, Len(base) + 1, Len(uri))
    BY <1>5, <1>7, <2>2 DEF RequestPath, base
  <2>5. Len(base) + 1 = 5
    BY <1>1
  <2> QED
    BY <2>3, <2>4, <2>5 DEF uri
<1> QED
  BY <1>6, <1>7

-----------------------------------------------------------------------------
(* The pages that paths reach. *)

\* The words of the patterns are told apart.
LEMMA Words_differ ==
  /\ Empty \notin {"alerts", "new", "settings", "api", "local-nodes", "delete", "convert"}
  /\ Empty \notin Names
<1>1. Empty \notin {"alerts", "new", "settings", "api", "local-nodes", "delete", "convert"}
  BY Zenon DEF Empty
<1> QED
  BY <1>1, TextAssumption

\* What a path means, by its parts.
LEMMA Meaning_is ==
  ASSUME NEW q \in PlainPaths
  PROVE  Meaning(q) =
           IF Len(q) = 1 /\ q[1] = Empty THEN Answer("list", Empty)
           ELSE IF Len(q) = 1 /\ q[1] = "settings" THEN Answer("settings", Empty)
           ELSE IF Len(q) = 2 /\ q[1] = "api" /\ q[2] = "local-nodes" THEN Answer("nodes", Empty)
           ELSE IF Len(q) = 2 /\ q[1] = "alerts" /\ q[2] = "new" THEN Answer("new", Empty)
           ELSE IF Len(q) = 2 /\ q[1] = "alerts" /\ q[2] \in Names THEN Answer("alert", TargetOf[q[2]])
           ELSE IF Len(q) = 3 /\ q[1] = "alerts" /\ q[2] \in Names /\ q[3] \in {"delete", "convert"}
                THEN Answer(q[3], TargetOf[q[2]])
           ELSE NotFound
<1>1. q \in Seq(Texts)
  BY DEF PlainPaths
<1>2. \A a, b : q = <<a, b>> <=> Len(q) = 2 /\ q[1] = a /\ q[2] = b
  BY <1>1, Short_sequences
<1>7. \A a : q = <<a>> <=> Len(q) = 1 /\ q[1] = a
  BY <1>1, Short_sequences
<1>3. q = <<Empty>> <=> Len(q) = 1 /\ q[1] = Empty
  BY <1>7
<1>4. q = <<"settings">> <=> Len(q) = 1 /\ q[1] = "settings"
  BY <1>7
<1>5. q = <<"api", "local-nodes">> <=> Len(q) = 2 /\ q[1] = "api" /\ q[2] = "local-nodes"
  BY <1>2
<1>6. q = <<"alerts", "new">> <=> Len(q) = 2 /\ q[1] = "alerts" /\ q[2] = "new"
  BY <1>2
<1> QED
  BY <1>3, <1>4, <1>5, <1>6, Zenon DEF Meaning

\* The pages of the patterns.
LEMMA Pages ==
  /\ Patterns[1].page = "nodes" /\ Patterns[2].page = "settings" /\ Patterns[3].page = "list"
  /\ Patterns[4].page = "delete" /\ Patterns[5].page = "convert" /\ Patterns[6].page = "new"
  /\ Patterns[7].page = "alert"
BY Segments

\* What is served, by the place of the pattern.
LEMMA Serve_is ==
  ASSUME NEW e \in EscapedPaths
  PROVE  LET place == PlaceOf(e) IN
         /\ place = 1 => Serve(e) = Answer("nodes", Empty)
         /\ place = 2 => Serve(e) = Answer("settings", Empty)
         /\ place = 3 => Serve(e) = IF Decoded(e) = <<Empty>> THEN Answer("list", Empty) ELSE NotFound
         /\ place = 4 => Serve(e) = ForTarget("delete", e)
         /\ place = 5 => Serve(e) = ForTarget("convert", e)
         /\ place = 6 => Serve(e) = Answer("new", Empty)
         /\ place = 7 => Serve(e) = IF Len(Decoded(e)) = 2 THEN ForTarget("alert", e) ELSE NotFound
<1> DEFINE p == Patterns[PlaceOf(e)]
           best == Match(e)
<1>1. best = <<p>>
  BY Match_is
<1>2. best # <<>> /\ best[1] = p
  BY <1>1
<1> HIDE DEF p, best
<1>3. Serve(e) = Handle(p.page, e)
  BY <1>2 DEF Serve, best
<1>4. /\ PlaceOf(e) = 1 => p.page = "nodes"
      /\ PlaceOf(e) = 2 => p.page = "settings"
      /\ PlaceOf(e) = 3 => p.page = "list"
      /\ PlaceOf(e) = 4 => p.page = "delete"
      /\ PlaceOf(e) = 5 => p.page = "convert"
      /\ PlaceOf(e) = 6 => p.page = "new"
      /\ PlaceOf(e) = 7 => p.page = "alert"
  BY Pages DEF p
<1>5. /\ Handle("nodes", e) = Answer("nodes", Empty)
      /\ Handle("settings", e) = Answer("settings", Empty)
      /\ Handle("list", e) = IF Decoded(e) = <<Empty>> THEN Answer("list", Empty) ELSE NotFound
      /\ Handle("delete", e) = ForTarget("delete", e)
      /\ Handle("convert", e) = ForTarget("convert", e)
      /\ Handle("new", e) = Answer("new", Empty)
      /\ Handle("alert", e) = IF Len(Decoded(e)) = 2 THEN ForTarget("alert", e) ELSE NotFound
  BY DEF Handle
<1> QED
  BY <1>3, <1>4, <1>5

\* A path without encoded slashes reaches what it means.
LEMMA Plain_reaches ==
  ASSUME NEW q \in PlainPaths
  PROVE  Serve(Plain(q)) = Meaning(q)
<1> DEFINE e == Plain(q)
           k == Len(q)
           place == PlaceOf(e)
<1>1. /\ e \in EscapedPaths /\ Len(e) = k /\ k \in Nat \ {0} /\ Decoded(e) = q
      /\ \A i \in 1 .. k : e[i] = <<q[i]>>
  BY Plain_path
<1>2. q \in Seq(Texts)
  BY DEF PlainPaths
<1>3. q = <<Empty>> <=> k = 1 /\ q[1] = Empty
  BY <1>2, Short_sequences
<1> HIDE DEF e, k
<1>4. \A i \in 1 .. k : Len(e[i]) = 1 /\ e[i][1] = q[i] /\ \A a : e[i] = <<a>> <=> q[i] = a
  BY <1>1
<1>5. ASSUME NEW page, k >= 2
      PROVE  ForTarget(page, e) = IF q[2] \in Names THEN Answer(page, TargetOf[q[2]]) ELSE NotFound
  <2>1. 2 \in 1 .. k
    BY <1>1, <1>5
  <2> QED
    BY <1>4, <2>1 DEF ForTarget
<1>6. place = IF k = 2 /\ q[1] = "api" /\ q[2] = "local-nodes" THEN 1
              ELSE IF k = 1 /\ q[1] = "settings" THEN 2
              ELSE IF k = 3 /\ q[1] = "alerts" /\ q[2] # Empty /\ q[3] = "delete" THEN 4
              ELSE IF k = 3 /\ q[1] = "alerts" /\ q[2] # Empty /\ q[3] = "convert" THEN 5
              ELSE IF k = 2 /\ q[1] = "alerts" /\ q[2] = "new" THEN 6
              ELSE IF k >= 2 /\ q[1] = "alerts" THEN 7
              ELSE 3
  <2>1. k >= 1 => \A a : e[1] = <<a>> <=> q[1] = a
    BY <1>1, <1>4
  <2>2. k >= 2 => \A a : e[2] = <<a>> <=> q[2] = a
    BY <1>1, <1>4
  <2>3. k >= 3 => \A a : e[3] = <<a>> <=> q[3] = a
    BY <1>1, <1>4
  <2>4. /\ e[1] = <<"api">> <=> q[1] = "api"
        /\ e[1] = <<"settings">> <=> q[1] = "settings"
        /\ e[1] = <<"alerts">> <=> q[1] = "alerts"
    BY <1>1, <2>1
  <2>5. k >= 2 => /\ e[2] = <<"local-nodes">> <=> q[2] = "local-nodes"
                  /\ e[2] = <<"new">> <=> q[2] = "new"
                  /\ e[2] = <<Empty>> <=> q[2] = Empty
    BY <2>2
  <2>6. k >= 3 => /\ e[3] = <<"delete">> <=> q[3] = "delete"
                  /\ e[3] = <<"convert">> <=> q[3] = "convert"
    BY <2>3
  <2> QED
    BY <1>1, <2>4, <2>5, <2>6 DEF PlaceOf
<1>7. Meaning(q) =
           IF k = 1 /\ q[1] = Empty THEN Answer("list", Empty)
           ELSE IF k = 1 /\ q[1] = "settings" THEN Answer("settings", Empty)
           ELSE IF k = 2 /\ q[1] = "api" /\ q[2] = "local-nodes" THEN Answer("nodes", Empty)
           ELSE IF k = 2 /\ q[1] = "alerts" /\ q[2] = "new" THEN Answer("new", Empty)
           ELSE IF k = 2 /\ q[1] = "alerts" /\ q[2] \in Names THEN Answer("alert", TargetOf[q[2]])
           ELSE IF k = 3 /\ q[1] = "alerts" /\ q[2] \in Names /\ q[3] \in {"delete", "convert"}
                THEN Answer(q[3], TargetOf[q[2]])
           ELSE NotFound
  BY Meaning_is DEF k
<1> DEFINE Served(n) == place = n => Serve(e) = Meaning(q)
<1>8. Served(1) /\ Served(2) /\ Served(6)
  BY <1>1, <1>6, <1>7, Serve_is, Words_differ
<1>9. Served(4) /\ Served(5)
  BY <1>1, <1>5, <1>6, <1>7, Serve_is, Words_differ
<1>10. ASSUME place = 7 PROVE Serve(e) = Meaning(q)
  <2>1. k >= 2 /\ q[1] = "alerts" /\ ~(k = 2 /\ q[2] = "new")
    BY <1>6, <1>10
  <2>2. Serve(e) = IF k = 2 THEN ForTarget("alert", e) ELSE NotFound
    BY <1>1, <1>10, Serve_is DEF k
  <2>3. CASE k = 2
    <3>1. Serve(e) = IF q[2] \in Names THEN Answer("alert", TargetOf[q[2]]) ELSE NotFound
      BY <1>5, <2>1, <2>2, <2>3
    <3>2. Meaning(q) = IF q[2] \in Names THEN Answer("alert", TargetOf[q[2]]) ELSE NotFound
      BY <1>7, <2>1, <2>3
    <3> QED
      BY <3>1, <3>2
  <2>4. CASE k # 2
    <3>1. ~(k = 3 /\ q[2] # Empty /\ q[3] \in {"delete", "convert"})
      BY <1>6, <1>10, <2>1
    <3>2. Meaning(q) = NotFound
      BY <1>7, <2>1, <2>4, <3>1, Words_differ
    <3> QED
      BY <2>2, <2>4, <3>2
  <2> QED
    BY <2>3, <2>4
<1>11. Served(3)
  BY <1>1, <1>3, <1>6, <1>7, Serve_is, Words_differ
<1>12. place \in {1, 2, 3, 4, 5, 6, 7}
  BY <1>6
<1> QED
  BY <1>8, <1>9, <1>10, <1>11, <1>12 DEF e

\* A path with an encoded slash reaches no page.
LEMMA Encoded_reaches_none ==
  ASSUME NEW e \in EscapedPaths, e # Plain(Decoded(e))
  PROVE  Serve(e) = NotFound
<1> DEFINE k == Len(e)
           d == Decoded(e)
           place == PlaceOf(e)
<1>1. k \in Nat \ {0} /\ Len(d) \in Nat /\ Len(d) > k /\ ~SinglesTo(e, k)
  BY Decoded_longer, Plain_decoded
<1>2. \A a : Len(<<a>>) = 1
  OBVIOUS
<1> DEFINE x == Len(d)
<1>13. k \in Nat \ {0} /\ x \in Nat /\ x > k
  BY <1>1
<1> HIDE DEF k, d, x
<1>3. place = IF k = 2 /\ e[1] = <<"api">> /\ e[2] = <<"local-nodes">> THEN 1
              ELSE IF k = 1 /\ e[1] = <<"settings">> THEN 2
              ELSE IF k = 3 /\ e[1] = <<"alerts">> /\ e[2] # <<Empty>> /\ e[3] = <<"delete">> THEN 4
              ELSE IF k = 3 /\ e[1] = <<"alerts">> /\ e[2] # <<Empty>> /\ e[3] = <<"convert">> THEN 5
              ELSE IF k = 2 /\ e[1] = <<"alerts">> /\ e[2] = <<"new">> THEN 6
              ELSE IF k >= 2 /\ e[1] = <<"alerts">> THEN 7
              ELSE 3
  BY Zenon DEF PlaceOf, k
<1>4. /\ k = 1 => Len(e[1]) # 1
      /\ k = 2 => Len(e[1]) # 1 \/ Len(e[2]) # 1
      /\ k = 3 => Len(e[1]) # 1 \/ Len(e[2]) # 1 \/ Len(e[3]) # 1
  BY <1>1 DEF SinglesTo
<1>5. place \notin {1, 2, 6}
  <2>1. /\ Len(<<"api">>) = 1 /\ Len(<<"local-nodes">>) = 1 /\ Len(<<"settings">>) = 1
        /\ Len(<<"alerts">>) = 1 /\ Len(<<"new">>) = 1
    OBVIOUS
  <2> QED
    BY <1>3, <1>4, <2>1
<1>6. ASSUME place \in {4, 5}, NEW page PROVE ForTarget(page, e) = NotFound
  <2>1. k = 3 /\ Len(e[1]) = 1 /\ Len(e[3]) = 1
    BY <1>2, <1>3, <1>6
  <2>2. Len(e[2]) # 1
    BY <1>4, <2>1
  <2> QED
    BY <2>2 DEF ForTarget
<1>7. ASSUME place = 7 PROVE Len(d) # 2
  <2>1. k >= 2
    BY <1>3, <1>7
  <2>2. x # 2
    BY <1>13, <2>1
  <2> QED
    BY <2>2 DEF x
<1>8. d # <<Empty>>
  <2>1. Len(<<Empty>>) = 1
    OBVIOUS
  <2>2. x # 1
    BY <1>13
  <2> QED
    BY <2>1, <2>2 DEF x
<1>9. place \in {3, 4, 5, 7}
  BY <1>3, <1>5
<1>10. CASE place \in {4, 5}
  BY <1>6, <1>10, Serve_is
<1>11. CASE place = 3
  BY <1>8, <1>11, Serve_is DEF d
<1>12. CASE place = 7
  BY <1>7, <1>12, Serve_is DEF d
<1> QED
  BY <1>9, <1>10, <1>11, <1>12

\* A path that is not redirected reaches the page that it names.
LEMMA Reaches_its_page ==
  ASSUME NEW e \in EscapedPaths
  PROVE  ReachesItsPage(e)
<1> DEFINE d == Decoded(e)
<1>1. d \in PlainPaths
  BY Plain_decoded
<1>2. CASE e = Plain(d)
  <2>1. Serve(Plain(d)) = Meaning(d)
    BY <1>1, Plain_reaches
  <2> QED
    BY <1>2, <2>1 DEF ReachesItsPage
<1>3. CASE e # Plain(d)
  <2>1. Serve(e) = NotFound
    BY <1>3, Encoded_reaches_none
  <2> QED
    BY <1>3, <2>1 DEF ReachesItsPage
<1> QED
  BY <1>2, <1>3

-----------------------------------------------------------------------------
(* Redirects. *)

\* Where a redirect goes.
Onward(e) ==
  IF CleanPath(Decoded(e)) # Decoded(e) THEN CleanPath(Decoded(e)) ELSE Append(Decoded(e), Empty)

\* The path is the one with a directory of its own.
IsAlerts(path) == Len(path) = 1 /\ path[1] = "alerts"

\* A clean path that is redirected is that of the alerts.
LEMMA Redirect_clean ==
  ASSUME NEW e \in EscapedPaths, IsRedirect(e), CleanPath(Decoded(e)) = Decoded(e)
  PROVE  IsAlerts(Decoded(e)) /\ Redirected(e) = Plain(Append(Decoded(e), Empty))
<1> DEFINE d == Decoded(e)
<1>1. Directory(d) # {} /\ Redirected(e) = Plain(Append(d, Empty))
  BY DEF Redirected, IsRedirect
<1>2. d \in PlainPaths
  BY Plain_decoded
<1> HIDE DEF d
<1>3. PICK i \in 1 .. 7 : Patterns[i].subtree /\ Patterns[i].segs = d
  <2>1. DOMAIN Patterns = 1 .. 7
    BY DEF Patterns
  <2> QED
    BY <1>1, <2>1 DEF Directory, Range
<1>4. i \in {3, 7}
  <2>1. i \in {1, 2, 3, 4, 5, 6, 7}
    OBVIOUS
  <2> QED
    BY <1>3, <2>1, Segments
<1>5. i # 3
  BY <1>2, <1>3, Segments DEF PlainPaths
<1>6. Len(d) = 1 /\ d[1] = "alerts"
  BY <1>3, <1>4, <1>5, Segments
<1> QED
  BY <1>1, <1>6 DEF IsAlerts, d

\* A browser that follows a redirect asks for a clean path.
LEMMA Followed_is ==
  ASSUME NEW e \in EscapedPaths, IsRedirect(e)
  PROVE  /\ Followed(e) = Plain(Onward(e)) /\ Onward(e) \in PlainPaths
         /\ CleanPath(Decoded(e)) = Decoded(e) => Len(Onward(e)) = 2 /\ Onward(e)[1] = "alerts" /\ Onward(e)[2] = Empty
<1> DEFINE d == Decoded(e)
           c == CleanPath(d)
           q == Onward(e)
<1>1. d \in PlainPaths
  BY Plain_decoded
<1>2. c \in PlainPaths
  BY <1>1, Clean_clean
<1>3. Redirected(e) = Plain(q)
  <2>1. CASE c # d
    BY <2>1 DEF Redirected, Onward
  <2>2. CASE c = d
    <3>1. Redirected(e) = Plain(Append(d, Empty))
      BY <2>2, Redirect_clean
    <3> QED
      BY <2>2, <3>1 DEF Onward
  <2> QED
    BY <2>1, <2>2
<1>4. ASSUME c = d PROVE q \in PlainPaths /\ Len(q) = 2 /\ q[1] = "alerts" /\ q[2] = Empty
  <2>1. IsAlerts(d)
    BY <1>4, Redirect_clean
  <2>2. q = Append(d, Empty)
    BY <1>4 DEF Onward
  <2>3. d \in Seq(Texts) /\ Empty \in Texts
    BY <1>1, TextAssumption DEF PlainPaths
  <2> HIDE DEF d, q
  <2>4. /\ q \in Seq(Texts) /\ q # <<>> /\ Len(q) = Len(d) + 1
        /\ (\A i \in 1 .. Len(d) : q[i] = d[i]) /\ q[Len(d) + 1] = Empty
    BY <2>2, <2>3, AppendProperties
  <2> QED
    BY <2>1, <2>4 DEF IsAlerts, PlainPaths
<1>5. q \in PlainPaths
  <2>1. CASE c # d
    BY <1>2, <2>1 DEF Onward
  <2> QED
    BY <1>4, <2>1
<1> HIDE DEF q, c, d
<1>6. Followed(e) = Plain(RequestPath(RewriteLocation(Decoded(Plain(q)))))
  BY <1>3 DEF Followed
<1>7. Decoded(Plain(q)) = q /\ RequestPath(RewriteLocation(q)) = q
  BY <1>5, Plain_path, Comes_back
<1> QED
  BY <1>4, <1>5, <1>6, <1>7 DEF q, c, d

\* The directory itself has no page, with or without the slash.
LEMMA Alerts_mean_nothing ==
  ASSUME NEW q \in PlainPaths, IsAlerts(q) \/ (Len(q) = 2 /\ q[1] = "alerts" /\ q[2] = Empty)
  PROVE  Meaning(q) = NotFound
BY Meaning_is, Words_differ DEF IsAlerts

\* The directory with its slash is a clean path.
LEMMA Alerts_slash_clean ==
  ASSUME NEW q \in PlainPaths, Len(q) = 2, q[1] = "alerts", q[2] = Empty
  PROVE  CleanPath(q) = q
<1> DEFINE a == "alerts"
           p == <<a>>
<1>1. a \in Proper
  <2>1. q \in Seq(Texts) /\ 1 \in 1 .. Len(q)
    BY DEF PlainPaths
  <2>2. a \in Texts
    BY <2>1, ElementOfSeq
  <2>3. a # Empty /\ a # "." /\ a # ".."
    BY Words_differ
  <2> QED
    BY <2>2, <2>3 DEF Proper
<1> HIDE DEF a
<1>2. p \in Seq(Proper)
  BY <1>1
<1>3. q = Append(p, Empty)
  <2>1. q = <<a, Empty>>
    <3>1. q \in Seq(Texts) /\ Len(q) = 2 /\ q[1] = a /\ q[2] = Empty
      BY DEF PlainPaths, a
    <3> QED
      BY <3>1, Short_sequences
  <2> QED
    BY <2>1
<1> HIDE DEF p
<1>4. Kept(q) = p
  BY <1>2, <1>3, Kept_same
<1>5. Last(q) = Empty
  BY DEF Last
<1> QED
  BY <1>3, <1>4, <1>5 DEF CleanPath, Kept

\* What the next request finds: a clean path, redirected only for its slash.
LEMMA Second_request ==
  ASSUME NEW q \in PlainPaths, CleanPath(q) = q
  PROVE  LET e == Plain(q) IN
         /\ e \in EscapedPaths /\ Decoded(e) = q
         /\ ~IsRedirect(e) => Followed(e) = e /\ Serve(e) = Meaning(q)
         /\ IsRedirect(e) => IsAlerts(q)
<1> DEFINE e == Plain(q)
<1>1. e \in EscapedPaths /\ Decoded(e) = q
  BY Plain_path
<1>2. Serve(e) = Meaning(q)
  BY Plain_reaches
<1> HIDE DEF e
<1>3. ~IsRedirect(e) => Followed(e) = e
  BY DEF Followed
<1>4. IsRedirect(e) => IsAlerts(q)
  BY <1>1, Redirect_clean
<1> QED
  BY <1>1, <1>2, <1>3, <1>4 DEF e

\* Redirects end after two, at the page that the cleaned path names.
LEMMA Redirects_end ==
  ASSUME NEW e \in EscapedPaths
  PROVE  RedirectsEnd(e)
<1> DEFINE d == Decoded(e)
           c == CleanPath(d)
           q == Onward(e)
           f == Plain(q)
           last1 == Followed(Followed(e))
<1> SUFFICES ASSUME IsRedirect(e)
             PROVE  ~IsRedirect(last1) /\ Serve(last1) = Meaning(c)
  BY DEF RedirectsEnd
<1>1. d \in PlainPaths
  BY Plain_decoded
<1>2. c \in PlainPaths /\ CleanPath(c) = c
  BY <1>1, Clean_clean
<1>3. Followed(e) = f /\ q \in PlainPaths
  BY Followed_is
<1>4. c = d => IsAlerts(d) /\ Len(q) = 2 /\ q[1] = "alerts" /\ q[2] = Empty
  BY Followed_is, Redirect_clean
<1>5. c # d => q = c
  BY DEF Onward
<1>6. CleanPath(q) = q
  <2>1. CASE c = d
    <3>1. Len(q) = 2 /\ q[1] = "alerts" /\ q[2] = Empty /\ q \in PlainPaths
      BY <1>3, <1>4, <2>1
    <3> HIDE DEF q
    <3> QED
      BY <3>1, Alerts_slash_clean
  <2>2. CASE c # d
    BY <1>2, <1>5, <2>2
  <2> QED
    BY <2>1, <2>2
<1>7. Meaning(q) = Meaning(c)
  <2>1. CASE c = d
    BY <1>1, <1>3, <1>4, <2>1, Alerts_mean_nothing
  <2> QED
    BY <1>5, <2>1
<1>8. last1 = Followed(f)
  BY <1>3
<1> HIDE DEF q, c, d, last1
<1>9. CASE ~IsRedirect(f)
  BY <1>3, <1>6, <1>7, <1>8, <1>9, Second_request
<1>10. CASE IsRedirect(f)
  <2>1. f \in EscapedPaths /\ Decoded(f) = q /\ IsAlerts(q)
    BY <1>3, <1>6, <1>10, Second_request
  <2> DEFINE r == Onward(f)
  <2> HIDE DEF f
  <2>2. /\ Followed(f) = Plain(r) /\ r \in PlainPaths
        /\ Len(r) = 2 /\ r[1] = "alerts" /\ r[2] = Empty
    BY <1>6, <1>10, <2>1, Followed_is
  <2> HIDE DEF r
  <2>3. CleanPath(r) = r
    BY <2>2, Alerts_slash_clean
  <2>4. ~IsAlerts(r)
    BY <2>2 DEF IsAlerts
  <2>5. ~IsRedirect(Plain(r)) /\ Serve(Plain(r)) = Meaning(r)
    BY <2>2, <2>3, <2>4, Second_request
  <2>6. Meaning(r) = NotFound /\ Meaning(q) = NotFound
    BY <1>3, <2>1, <2>2, Alerts_mean_nothing
  <2> QED
    BY <1>7, <1>8, <2>2, <2>5, <2>6
<1> QED
  BY <1>9, <1>10

-----------------------------------------------------------------------------
(* The inputs. *)

\* An input is one of those that Init chooses; following redirects changes the
\* path only, and to one that has parts.
InputInv ==
  \/ input \in Sized
  \/ input \in Traced
  \/ input \in Browsed
  \/ input = [of |-> "body"]
  \/ input = [of |-> "answer"]
  \/ \E p \in EscapedPaths : input = [of |-> "path", path |-> p]

\* Init chooses the inputs.
LEMMA Input_init == Init => InputInv
<1> SUFFICES ASSUME Init PROVE InputInv
  OBVIOUS
<1>1. CASE input \in Routings
  BY <1>1, PathAssumption DEF InputInv, Routings
<1>2. CASE input \in Sized \/ input \in Traced \/ input \in Browsed \/ input = [of |-> "body"] \/ input = [of |-> "answer"]
  BY <1>2 DEF InputInv
<1> QED
  BY <1>1, <1>2 DEF Init

\* Only a redirect changes the input.
LEMMA Input_step == InputInv /\ [Next]_vars => InputInv'
<1> SUFFICES ASSUME InputInv, [Next]_vars PROVE InputInv'
  OBVIOUS
<1>1. CASE Follow
  <2>1. input.of = "path" /\ input' = [input EXCEPT !.path = Followed(input.path)]
    BY <1>1 DEF Follow
  <2>2. PICK p \in EscapedPaths : input = [of |-> "path", path |-> p]
    BY <2>1 DEF InputInv, Sized, Traced, Browsed
  <2>3. IsRedirect(p) /\ input' = [of |-> "path", path |-> Followed(p)]
    BY <1>1, <2>1, <2>2 DEF Follow
  <2>4. Followed(p) \in EscapedPaths
    BY <2>3, Followed_is, Plain_path
  <2> QED
    BY <2>3, <2>4 DEF InputInv
<1>2. CASE UNCHANGED input
  BY <1>2 DEF InputInv
<1> QED
  BY <1>1, <1>2 DEF Next, ReadOn, vars

\* The inputs stay as they are, but for redirects.
LEMMA Input_always == Spec => []InputInv
BY Input_init, Input_step, PTL DEF Spec

\* The message of an input has a number of characters of each class.
LEMMA Input_message ==
  ASSUME InputInv, input.of = "message"
  PROVE  input.message \in [Classes -> Nat] /\ input.length \in Nat
<1>1. input \in Sized
  BY DEF InputInv, Traced, Browsed
<1> QED
  BY <1>1, InputAssumption DEF Sized

\* A path, and every path that a redirect leads to, reaches the page and the alert
\* that it names, and redirects end after two, for every path and set of targets
\* (ServeMux, cleanPath, rewriteLocation and requestPath).
THEOREM PathsAlwaysArrive == Spec => []PathsArrive
<1>1. InputInv => PathsArrive
  <2> SUFFICES ASSUME InputInv, input.of = "path"
               PROVE  ReachesItsPage(input.path) /\ RedirectsEnd(input.path)
    BY DEF PathsArrive, PathsReachTheirPages, RedirectsArrive
  <2>1. input.path \in EscapedPaths
    BY DEF InputInv, Sized, Traced, Browsed
  <2> QED
    BY <2>1, Reaches_its_page, Redirects_end
<1> QED
  BY <1>1, Input_always, PTL

\* The limits that a message passes on its way agree, for every message and length
\* (alertmessage.Parse, maxMutationBodyBytes, MaxLegacyBytes, MaxRequestBytes,
\* MaxResponseBytes).
THEOREM LimitsAlwaysFit == Spec => []LimitsFit
<1>1. InputInv => FormsFit
  BY Input_message, Form_fits DEF FormsFit
<1>2. InputInv => AlertsStayManaged
  BY Input_message, Reads_back DEF AlertsStayManaged
<1>3. InputInv => ControlLimitsAgree
  BY Input_message, Limits_agree DEF ControlLimitsAgree
<1>4. InputInv => ControlAnswersFit
  BY Input_message, Answers_fit DEF ControlAnswersFit
<1>5. InputInv => SmallMessagesFit
  BY Input_message, Small_fits DEF SmallMessagesFit
<1>6. InputInv => LimitsFit
  BY <1>1, <1>2, <1>3, <1>4, <1>5 DEF LimitsFit
<1> QED
  BY <1>6, Input_always, PTL

-----------------------------------------------------------------------------
(* The body of a form.  BodyInv is inductive: the two readers count the same *)
(* bytes, each from its own end.                                             *)

\* Reading a body starts with nothing read.
LEMMA Body_init == Init => BodyInv
<1> SUFFICES ASSUME Init PROVE BodyInv
  OBVIOUS
<1>1. CASE NoBody
  BY <1>1 DEF NoBody, BodyInv, BodyTypeOK, RefusedForCause
<1>2. CASE BodyInit
  BY <1>2, BodyBounds DEF BodyInit, BodyInv, BodyTypeOK, RefusedForCause
<1> QED
  BY <1>1, <1>2 DEF Init

\* The arithmetic of one Read that stays within the limit (d declared, a
\* arriving, m the limit, f left, b the budget, g got, n read).
LEMMA Count_within ==
  ASSUME NEW d \in Nat, NEW a \in Nat, NEW m \in Nat, NEW f \in Nat, NEW b \in Nat, NEW g \in Nat,
         NEW n \in Nat, f <= d, d - f <= a, g = d - f, b = m - g, g <= m,
         n <= f, n <= b, n <= a - (d - f)
  PROVE  /\ f - n \in Nat /\ b - n \in Nat /\ g + n \in Nat
         /\ f - n <= d /\ d - (f - n) <= a /\ g + n = d - (f - n) /\ b - n = m - (g + n) /\ g + n <= m
OBVIOUS

\* One Read keeps the counts.
LEMMA Body_read ==
  ASSUME BodyInv, NEW buffer \in 1 .. MaxBuffer, NEW n \in 0 .. MaxBody, Read(buffer, n)
  PROVE  BodyInv'
<1>1. /\ declared \in Nat /\ arrives \in Nat /\ limit \in Nat
      /\ left \in Nat /\ budget \in Nat /\ got \in Nat
      /\ left <= declared /\ declared - left <= arrives
  BY DEF BodyInv, BodyTypeOK
<1>2. status = "reading" /\ got = declared - left /\ budget = limit - got /\ got <= limit
  BY DEF BodyInv, Read
<1>3. n \in Nat /\ buffer \in Nat
  BY BodyBounds
<1>4. n <= left /\ n <= budget + 1 /\ n <= arrives - (declared - left)
  <2>1. n <= Shorter(Asks(buffer), left) /\ n <= Supply
    BY DEF Read
  <2>2. Asks(buffer) \in Nat /\ Asks(buffer) <= budget + 1
    BY <1>1, <1>3 DEF Asks, Shorter
  <2>3. Shorter(Asks(buffer), left) \in Nat
        /\ Shorter(Asks(buffer), left) <= Asks(buffer) /\ Shorter(Asks(buffer), left) <= left
    BY <1>1, <2>2 DEF Shorter
  <2>4. n <= Supply /\ Supply = arrives - (declared - left)
    BY <2>1 DEF Supply
  <2> QED
    BY <1>1, <1>3, <2>1, <2>2, <2>3, <2>4
<1>5. left' = left - n /\ declared' = declared /\ arrives' = arrives /\ limit' = limit
  BY DEF Read
<1>6. CASE Within(n)
  <2>1. n <= budget /\ got' = got + n /\ budget' = budget - n /\ status' = Ends(n)
    BY <1>6 DEF Read, Within, Spend
  <2>2. status' = "done" => left = n
    BY <2>1 DEF Ends
  <2>3. status' = "cut" => left # n /\ Supply = n /\ n = 0
    BY <2>1 DEF Ends
  <2>4. status' \in {"reading", "done", "cut"}
    BY <2>1 DEF Ends
  <2>5. status' = "cut" => arrives < declared
    BY <1>1, <1>3, <1>4, <2>3 DEF Supply
  <2>6. /\ left' \in Nat /\ budget' \in Nat /\ got' \in Nat
        /\ left' <= declared /\ declared - left' <= arrives
        /\ got' = declared - left' /\ budget' = limit - got' /\ got' <= limit
    BY <1>1, <1>2, <1>3, <1>4, <1>5, <2>1, Count_within
  <2>7. status' = "done" => left' = 0
    BY <1>1, <1>5, <2>2
  <2> QED
    BY <1>1, <1>5, <2>4, <2>5, <2>6, <2>7 DEF BodyInv, BodyTypeOK, RefusedForCause
<1>7. CASE ~Within(n)
  <2>1. ~(n <= budget) /\ got' = got + budget /\ budget' = 0 /\ status' = "too large"
    BY <1>7 DEF Read, Within
  <2>2. ~(n <= budget)
    BY <2>1
  <2>3. /\ left - n \in Nat /\ left - n <= declared /\ declared - (left - n) <= arrives
        /\ got + budget = limit /\ limit < declared
    <3>1. budget < n
      BY <1>1, <1>3, <2>2
    <3>2. left - n \in Nat /\ left - n <= declared
      BY <1>1, <1>3, <1>4
    <3>3. declared - (left - n) <= arrives
      BY <1>1, <1>3, <1>4
    <3>4. got + budget = limit
      BY <1>1, <1>2
    <3>5. got + left = declared
      BY <1>1, <1>2
    <3>6. limit < declared
      BY <1>1, <1>3, <1>4, <3>1, <3>4, <3>5
    <3> QED
      BY <3>2, <3>3, <3>4, <3>6
  <2> QED
    BY <1>1, <1>5, <2>1, <2>3 DEF BodyInv, BodyTypeOK, RefusedForCause
<1> QED
  BY <1>6, <1>7

\* Every step keeps the counts of the body.
LEMMA Body_step == BodyInv /\ [Next]_vars => BodyInv'
<1> SUFFICES ASSUME BodyInv, [Next]_vars PROVE BodyInv'
  OBVIOUS
<1>1. CASE ReadBody
  BY <1>1, Body_read DEF ReadBody
<1>2. CASE UNCHANGED bodyVars
  BY <1>2 DEF bodyVars, BodyInv, BodyTypeOK, RefusedForCause
<1> QED
  BY <1>1, <1>2 DEF Next, Follow, ReadOn, vars

\* The counts of bodyReader and maxBytesReader agree, for every length, limit,
\* cut and buffer.
THEOREM BodyCountsAgree == Spec => []BodyInv
BY Body_init, Body_step, PTL DEF Spec

\* A form is parsed only from a whole body within its limit, and a body is refused
\* only for what is wrong with it (bodyReader.Read, maxBytesReader.Read).
THEOREM BodiesAlwaysWhole == Spec => []BodiesAreWhole
<1>1. BodyInv => WholeOrError
  BY DEF BodyInv, BodyTypeOK, WholeOrError
<1>2. BodyInv => BodiesAreWhole
  BY <1>1 DEF BodyInv, BodiesAreWhole
<1> QED
  BY <1>2, BodyCountsAgree, PTL

-----------------------------------------------------------------------------
(* The answer about the session: the reader is at a place of the stream. *)

\* What remains of a sequence.
LEMMA Rest ==
  ASSUME NEW S, NEW s \in Seq(S), NEW p \in 0 .. Len(s)
  PROVE  LET w == SubSeq(s, p + 1, Len(s)) IN
         /\ w \in Seq(S)
         /\ Len(w) = Len(s) - p
         /\ \A i \in 1 .. Len(s) - p : w[i] = s[p + i]
         /\ w # <<>> => Head(w) = s[p + 1] /\ p + 1 \in 1 .. Len(s)
<1> DEFINE w == SubSeq(s, p + 1, Len(s))
<1>0. Len(s) \in Nat /\ p \in Nat /\ p <= Len(s)
  BY LenProperties
<1>1. \A i \in p + 1 .. Len(s) : s[i] \in S
  BY <1>0, ElementOfSeq
<1>2. /\ w \in Seq(S) /\ Len(w) = IF p + 1 <= Len(s) THEN Len(s) - (p + 1) + 1 ELSE 0
      /\ \A i \in 1 .. Len(s) - (p + 1) + 1 : w[i] = s[(p + 1) + i - 1]
  <2>1. p + 1 \in Int /\ Len(s) \in Int
    BY <1>0
  <2> QED
    BY <1>1, <2>1, SubSeqProperties
<1>3. \A i \in 1 .. Len(s) - p : w[i] = s[p + i]
  BY <1>0, <1>2
<1>4. Len(w) = Len(s) - p
  BY <1>0, <1>2
<1>5. ASSUME w # <<>> PROVE Head(w) = s[p + 1] /\ p + 1 \in 1 .. Len(s)
  <2>1. Len(w) \in Nat \ {0}
    BY <1>2, <1>5, EmptySeq
  <2>2. p + 1 \in 1 .. Len(s) /\ Len(s) \in p + 1 .. Len(s)
    BY <1>0, <1>4, <2>1
  <2> QED
    BY <2>2, HeadTailOfSubSeq
<1> QED
  BY <1>2, <1>3, <1>4, <1>5

\* The rest of the rest.
LEMMA Rest_of_rest ==
  ASSUME NEW S, NEW s \in Seq(S), NEW p \in 0 .. Len(s), NEW n \in 0 .. Len(s) - p
  PROVE  LET w == SubSeq(s, p + 1, Len(s)) IN
         SubSeq(w, n + 1, Len(w)) = SubSeq(s, (p + n) + 1, Len(s))
<1> DEFINE w == SubSeq(s, p + 1, Len(s))
           u == SubSeq(w, n + 1, Len(w))
           v == SubSeq(s, (p + n) + 1, Len(s))
<1>0. Len(s) \in Nat /\ p \in Nat /\ p <= Len(s) /\ n \in Nat /\ n <= Len(s) - p
  BY LenProperties
<1>1. w \in Seq(S) /\ Len(w) = Len(s) - p /\ \A i \in 1 .. Len(s) - p : w[i] = s[p + i]
  BY Rest
<1>2. n \in 0 .. Len(w) /\ p + n \in 0 .. Len(s)
  BY <1>0, <1>1
<1>3. u \in Seq(S) /\ Len(u) = Len(w) - n /\ \A i \in 1 .. Len(w) - n : u[i] = w[n + i]
  <2> HIDE DEF w
  <2> QED
    BY <1>1, <1>2, Rest
<1>4. v \in Seq(S) /\ Len(v) = Len(s) - (p + n) /\ \A i \in 1 .. Len(s) - (p + n) : v[i] = s[(p + n) + i]
  <2> DEFINE q == p + n
  <2>1. q \in 0 .. Len(s)
    BY <1>2
  <2> HIDE DEF q
  <2>2. LET x == SubSeq(s, q + 1, Len(s)) IN x \in Seq(S) /\ Len(x) = Len(s) - q /\ \A i \in 1 .. Len(s) - q : x[i] = s[q + i]
    BY <2>1, Rest
  <2> QED
    BY <2>2 DEF q
<1> HIDE DEF w, u, v
<1>5. Len(u) = Len(v)
  BY <1>0, <1>1, <1>3, <1>4
<1>6. ASSUME NEW i \in 1 .. Len(u) PROVE u[i] = v[i]
  <2>1. i \in 1 .. Len(w) - n /\ n + i \in 1 .. Len(s) - p /\ i \in 1 .. Len(s) - (p + n)
    BY <1>0, <1>1, <1>3
  <2>2. u[i] = w[n + i] /\ w[n + i] = s[p + (n + i)] /\ v[i] = s[(p + n) + i]
    BY <2>1, <1>1, <1>3, <1>4
  <2>3. p + (n + i) = (p + n) + i
    BY <1>0, <2>1
  <2> QED
    BY <2>2, <2>3
<1>7. u = v
  BY <1>3, <1>4, <1>5, <1>6, SeqEqual
<1> QED
  BY <1>7 DEF u, v, w

\* Bytes of data among the first p items.
DataIn(items, p) == {i \in 1 .. p : items[i].is = "data"}

\* The positions of data are finitely many.
LEMMA Data_finite ==
  ASSUME NEW items, NEW p \in Nat
  PROVE  IsFiniteSet(DataIn(items, p)) /\ Cardinality(DataIn(items, p)) \in Nat
<1>1. IsFiniteSet(1 .. p)
  BY FS_Interval
<1>2. DataIn(items, p) \in SUBSET (1 .. p)
  BY DEF DataIn
<1> QED
  BY <1>1, <1>2, FS_Subset, FS_CardinalityType

\* n bytes more.
LEMMA Data_more ==
  ASSUME NEW items, NEW p \in Nat, NEW n \in Nat,
         \A i \in p + 1 .. p + n : items[i].is = "data"
  PROVE  Cardinality(DataIn(items, p + n)) = Cardinality(DataIn(items, p)) + n
<1> DEFINE A == DataIn(items, p)
           B == p + 1 .. p + n
<1>1. IsFiniteSet(A) /\ Cardinality(A) \in Nat
  BY Data_finite
<1>2. IsFiniteSet(B) /\ Cardinality(B) = n
  BY FS_Interval
<1>3. A \cap B = {}
  BY DEF DataIn
<1>4. DataIn(items, p + n) = A \cup B
  BY DEF DataIn
<1>5. Cardinality({}) = 0
  BY FS_EmptySet
<1> HIDE DEF A, B
<1>6. Cardinality(A \cup B) = Cardinality(A) + Cardinality(B) - Cardinality(A \cap B)
  BY <1>1, <1>2, FS_Union
<1>7. Cardinality(A \cap B) = 0
  BY <1>3, <1>5
<1>8. Cardinality(A \cup B) = Cardinality(A) + n
  BY <1>1, <1>2, <1>6, <1>7
<1> QED
  BY <1>4, <1>8 DEF A

\* And more items that are none.
LEMMA Data_no_more ==
  ASSUME NEW items, NEW p \in Nat, NEW q \in Nat, p <= q,
         \A i \in p + 1 .. q : items[i].is # "data"
  PROVE  DataIn(items, q) = DataIn(items, p)
BY DEF DataIn

\* Fewer positions have no more data.
LEMMA Data_less ==
  ASSUME NEW items, NEW p \in Nat, NEW q \in Nat, p <= q
  PROVE  Cardinality(DataIn(items, p)) <= Cardinality(DataIn(items, q))
<1>1. DataIn(items, p) \in SUBSET DataIn(items, q)
  BY DEF DataIn
<1> QED
  BY <1>1, Data_finite, FS_Subset

\* The items read.
Pos == Len(answer.items) - Len(wire)

\* The bytes in chunk are those that follow the last size line.
InChunk ==
  \E i \in 1 .. Pos : /\ answer.items[i].is = "size" /\ answer.items[i].n > 0
                      /\ Pos + chunk = i + answer.items[i].n

\* A size line comes next.
Between == wire # <<>> => Head(wire).is = "size"

\* The reader is at a place of the answer, and has what came before it.
ReadingInv ==
  /\ answer \in Answers
  /\ Pos \in 0 .. Len(answer.items)
  /\ wire = SubSeq(answer.items, Pos + 1, Len(answer.items))
  /\ have = Cardinality(DataIn(answer.items, Pos))
  /\ have + room = Room
  /\ room \in Nat /\ chunk \in Nat /\ last \in BOOLEAN
  /\ ~answer.chunked => chunk = 0 /\ ~last
  /\ answer.chunked /\ outcome = "reading" =>
       /\ chunk > 0 => InChunk
       /\ chunk = 0 /\ ~last => Between
  /\ ~last => \A i \in 1 .. Pos : ~IsLastChunk(answer.items[i])
  /\ last => have = answer.whole /\ chunk = 0
  /\ outcome \in {"reading", "done", "cut", "too large"}
  /\ outcome = "cut" => ~answer.complete
  /\ outcome = "too large" => room = 0
  /\ outcome = "done" => room > 0 /\ (answer.chunked => last)

\* No answer is read, or one is and the reader is at its place.
AnswerInv == NoAnswer \/ ReadingInv

\* The types of an answer.
LEMMA Answer_type ==
  ASSUME NEW a \in Answers
  PROVE  /\ a.chunked \in BOOLEAN /\ a.items \in Seq(Items) /\ a.whole \in Nat /\ a.complete \in BOOLEAN
         /\ Len(a.items) \in Nat /\ DOMAIN a.items = 1 .. Len(a.items)
         /\ \A i \in 1 .. Len(a.items) : a.items[i] \in Items
         /\ Arrives(a)
<1>1. a \in [chunked : BOOLEAN, items : Seq(Items), whole : Nat, complete : BOOLEAN] /\ Arrives(a)
  BY AnswerAssumption
<1>2. a.items \in Seq(Items)
  BY <1>1
<1> QED
  BY <1>1, <1>2, LenProperties, ElementOfSeq

\* All data of an answer is its whole length.
LEMMA All_data ==
  ASSUME NEW a \in Answers
  PROVE  DataBytes(a.items) = Cardinality(DataIn(a.items, Len(a.items)))
BY Answer_type DEF DataBytes, DataIn

\* A reader has room for what it has, and the invariant gives the property.
LEMMA Answer_inv_whole == AnswerInv => AnswersAreWhole
<1>0. MaxAnswer \in Nat
  BY AnswerAssumption
<1>1. NoAnswer => AnswersAreWhole
  BY <1>0 DEF NoAnswer, AnswersAreWhole, AnswerWhole, AnswerRefusedForCause
<1>2. ASSUME ReadingInv PROVE AnswersAreWhole
  <2>1. have \in Nat /\ have <= answer.whole /\ answer.whole \in Nat
    <3>1. answer \in Answers /\ Pos \in Nat /\ Len(answer.items) \in Nat /\ Pos <= Len(answer.items)
      <4>1. answer \in Answers /\ Pos \in 0 .. Len(answer.items)
        BY <1>2 DEF ReadingInv
      <4>2. Len(answer.items) \in Nat
        BY <4>1, Answer_type
      <4> QED
        BY <4>1, <4>2
    <3>2. have <= DataBytes(answer.items) /\ have \in Nat /\ DataBytes(answer.items) \in Nat
      BY <1>2, <3>1, All_data, Data_less, Data_finite DEF ReadingInv
    <3>3. DataBytes(answer.items) <= answer.whole /\ answer.whole \in Nat
      BY <3>1, Answer_type DEF Arrives
    <3> QED
      BY <3>2, <3>3
  <2>2. have + room = MaxAnswer + 1 /\ room \in Nat
    BY <1>2 DEF ReadingInv, Room
  <2>3. outcome = "done" => room > 0 /\ (answer.chunked => have = answer.whole)
    BY <1>2 DEF ReadingInv
  <2>4. outcome = "too large" => room = 0
    BY <1>2 DEF ReadingInv
  <2>5. outcome = "cut" => ~answer.complete
    BY <1>2 DEF ReadingInv
  <2>6. room > 0 => have <= MaxAnswer
    BY <1>0, <2>1, <2>2
  <2>7. room = 0 => answer.whole > MaxAnswer
    BY <1>0, <2>1, <2>2
  <2> QED
    BY <2>3, <2>4, <2>5, <2>6, <2>7 DEF AnswersAreWhole, AnswerWhole, AnswerRefusedForCause
<1> QED
  BY <1>1, <1>2 DEF AnswerInv

\* Reading starts at the first item.
LEMMA Answer_init == Init => AnswerInv
<1> SUFFICES ASSUME AnswerInit PROVE ReadingInv
  BY DEF Init, AnswerInv
<1>1. answer \in Answers /\ wire = answer.items
  BY DEF AnswerInit
<1>2. answer.items \in Seq(Items) /\ Len(answer.items) \in Nat
  BY <1>1, Answer_type
<1>3. Pos = 0
  BY <1>1, <1>2 DEF Pos
<1>4. wire = SubSeq(answer.items, Pos + 1, Len(answer.items))
  BY <1>1, <1>2, <1>3, SubSeqFull
<1>5. Cardinality(DataIn(answer.items, 0)) = 0
  <2>1. DataIn(answer.items, 0) = {}
    BY DEF DataIn
  <2> QED
    BY <2>1, FS_EmptySet
<1>6. ASSUME answer.chunked PROVE Between
  <2>1. IsChunkStream(answer.items)
    BY <1>1, <1>6, Answer_type DEF Arrives
  <2>2. answer.items # <<>> => Head(answer.items) = answer.items[1]
    BY <1>2
  <2> QED
    BY <1>1, <2>1, <2>2 DEF Between, IsChunkStream
<1>7. MaxAnswer + 1 \in Nat
  BY AnswerAssumption
<1>8. chunk = 0 /\ last = FALSE /\ have = 0 /\ room = MaxAnswer + 1 /\ outcome = "reading" /\ Room = MaxAnswer + 1
  BY DEF AnswerInit, Room
<1>9. have + room = Room /\ room \in Nat /\ have = Cardinality(DataIn(answer.items, Pos)) /\ chunk \in Nat /\ ~(chunk > 0)
      /\ Pos \in 0 .. Len(answer.items)
  BY <1>2, <1>3, <1>5, <1>7, <1>8
<1>10. \A i \in 1 .. Pos : ~IsLastChunk(answer.items[i])
  BY <1>3
<1> QED
  BY <1>1, <1>4, <1>6, <1>8, <1>9, <1>10 DEF ReadingInv

\* What is at the reader's place.
LEMMA Position ==
  ASSUME ReadingInv
  PROVE  /\ answer \in Answers
         /\ answer.items \in Seq(Items) /\ Len(answer.items) \in Nat
         /\ wire \in Seq(Items) /\ Len(wire) \in Nat
         /\ Pos \in Nat /\ Pos <= Len(answer.items) /\ Len(wire) = Len(answer.items) - Pos
         /\ wire = <<>> <=> Pos = Len(answer.items)
         /\ \A i \in 1 .. Len(wire) : wire[i] = answer.items[Pos + i] /\ wire[i] \in Items
         /\ wire # <<>> => Head(wire) = answer.items[Pos + 1]
<1>1. answer \in Answers /\ Pos \in 0 .. Len(answer.items)
      /\ wire = SubSeq(answer.items, Pos + 1, Len(answer.items))
  BY DEF ReadingInv
<1>2. answer.items \in Seq(Items) /\ Len(answer.items) \in Nat
  BY <1>1, Answer_type
<1>3. /\ wire \in Seq(Items) /\ Len(wire) = Len(answer.items) - Pos
      /\ \A i \in 1 .. Len(answer.items) - Pos : wire[i] = answer.items[Pos + i]
      /\ wire # <<>> => Head(wire) = answer.items[Pos + 1]
  BY <1>1, <1>2, Rest
<1>4. Pos \in Nat /\ Pos <= Len(answer.items)
  BY <1>1, <1>2
<1>5. wire = <<>> <=> Len(wire) = 0
  BY <1>3
<1>6. \A i \in 1 .. Len(wire) : wire[i] \in Items
  BY <1>3, ElementOfSeq
<1> QED
  BY <1>1, <1>2, <1>3, <1>4, <1>5, <1>6

\* The reader moves on by one item.
LEMMA Moved ==
  ASSUME ReadingInv, NEW k \in 0 .. Len(wire), answer' = answer,
         wire' = SubSeq(wire, k + 1, Len(wire))
  PROVE  /\ Pos' = Pos + k /\ Pos' \in 0 .. Len(answer.items)
         /\ wire' = SubSeq(answer.items, Pos' + 1, Len(answer.items))
<1> DEFINE p == Pos
<1>1. /\ answer.items \in Seq(Items) /\ Len(answer.items) \in Nat /\ wire = SubSeq(answer.items, p + 1, Len(answer.items))
      /\ p \in Nat /\ p <= Len(answer.items) /\ Len(wire) = Len(answer.items) - p
  BY Position DEF ReadingInv
<1> HIDE DEF p
<1>2. p \in 0 .. Len(answer.items) /\ k \in 0 .. Len(answer.items) - p
  BY <1>1
<1>3. wire' = SubSeq(answer.items, (p + k) + 1, Len(answer.items))
  BY <1>1, <1>2, Rest_of_rest
<1>4. p + k \in 0 .. Len(answer.items)
  BY <1>1, <1>2
<1> DEFINE q == p + k
<1>5. Len(wire') = Len(answer.items) - q
  <2>1. q \in 0 .. Len(answer.items) /\ wire' = SubSeq(answer.items, q + 1, Len(answer.items))
    BY <1>3, <1>4
  <2> HIDE DEF q
  <2> QED
    BY <1>1, <2>1, Rest
<1>6. Pos' = p + k
  <2>1. Pos' = Len(answer.items) - Len(wire')
    BY DEF Pos
  <2>2. q \in Int /\ Len(answer.items) \in Int
    BY <1>1, <1>2
  <2>3. Pos' = q
    <3> HIDE DEF q
    <3> QED
      BY <1>5, <2>1, <2>2
  <2> QED
    BY <2>3
<1>7. Pos' = Pos + k
  BY <1>6 DEF p
<1> QED
  BY <1>3, <1>4, <1>6, <1>7

\* The bytes that are ready, up to the next item of another kind.
LEMMA Ready_data ==
  ASSUME ReadingInv
  PROVE  /\ Ready \in 0 .. Len(wire)
         /\ \A i \in 1 .. Ready : wire[i].is = "data"
         /\ Ready = 0 /\ wire # <<>> => Head(wire).is # "data"
<1> DEFINE I == {i \in 1 .. Len(wire) : wire[i].is # "data"}
<1>1. wire \in Seq(Items) /\ Len(wire) \in Nat
  BY Position
<1>2. Ready = LET other == IF I # {} THEN Min(I) ELSE 0 IN IF other = 0 THEN Len(wire) ELSE other - 1
  BY DEF Ready, SelectInSeq
<1>3. I \subseteq Nat
  OBVIOUS
<1>4. CASE I = {}
  <2>1. Ready = Len(wire)
    BY <1>2, <1>4
  <2>2. \A i \in 1 .. Len(wire) : wire[i].is = "data"
    BY <1>4
  <2> QED
    BY <1>1, <2>1, <2>2
<1>5. CASE I # {}
  <2> DEFINE m == Min(I)
  <2>1. m \in I /\ \A i \in I : m <= i
    <3> HIDE DEF I
    <3> QED
      BY <1>3, <1>5, Min_least
  <2>2. m \in 1 .. Len(wire) /\ wire[m].is # "data"
    BY <2>1
  <2>3. Ready = m - 1
    <3>1. Ready = IF m = 0 THEN Len(wire) ELSE m - 1
      BY <1>2, <1>5
    <3> HIDE DEF m
    <3> QED
      BY <2>2, <3>1
  <2>4. ASSUME NEW i \in 1 .. Ready PROVE wire[i].is = "data"
    <3>1. i \in 1 .. Len(wire) /\ ~(m <= i)
      <4> HIDE DEF m
      <4> QED
        BY <1>1, <2>2, <2>3
    <3> QED
      BY <2>1, <3>1
  <2>5. ASSUME Ready = 0, wire # <<>> PROVE Head(wire).is # "data"
    <3>1. m = 1
      <4> HIDE DEF m
      <4> QED
        BY <2>2, <2>3, <2>5
    <3> QED
      BY <1>1, <2>2, <2>5, <3>1
  <2>6. Ready \in 0 .. Len(wire)
    <3> HIDE DEF m
    <3> QED
      BY <1>1, <2>2, <2>3
  <2> QED
    BY <2>4, <2>5, <2>6
<1> QED
  BY <1>4, <1>5

\* A complete stream does not end before its last chunk, nor within a chunk.
LEMMA Complete_ends ==
  ASSUME NEW a \in Answers, a.chunked, a.complete
  PROVE  /\ a.items # <<>> /\ Len(a.items) \in 1 .. Len(a.items) /\ a.items[Len(a.items)].is = "crlf"
         /\ \E i \in 1 .. Len(a.items) : IsLastChunk(a.items[i])
<1>1. /\ Len(a.items) \in Nat /\ DOMAIN a.items = 1 .. Len(a.items)
      /\ \E i \in DOMAIN a.items : IsLastChunk(a.items[i])
      /\ a.items[Len(a.items)].is = "crlf" /\ a.items \in Seq(Items)
  BY Answer_type DEF Arrives
<1>2. PICK i \in 1 .. Len(a.items) : IsLastChunk(a.items[i])
  BY <1>1
<1>3. Len(a.items) >= 1 /\ a.items # <<>>
  BY <1>1, <1>2
<1> QED
  BY <1>1, <1>2, <1>3

\* nextChunk: at the end of what arrived, a size line, or the last of them.
LEMMA Answer_chunk ==
  ASSUME ReadingInv, NextChunk
  PROVE  ReadingInv'
<1> DEFINE items == answer.items
           p == Pos
<1>0. /\ answer \in Answers /\ items \in Seq(Items) /\ Len(items) \in Nat
      /\ p \in Nat /\ p <= Len(items) /\ Len(wire) = Len(items) - p /\ Len(wire) \in Nat
      /\ wire = <<>> <=> p = Len(items)
      /\ wire # <<>> => Head(wire) = items[p + 1]
      /\ \A i \in 1 .. Len(wire) : wire[i] = items[p + i] /\ wire[i] \in Items
      /\ wire \in Seq(Items)
  BY Position
<1>1. /\ outcome = "reading" /\ room > 0 /\ answer.chunked /\ chunk = 0 /\ ~last
      /\ answer' = answer /\ room' = room /\ have' = have
  BY DEF NextChunk
<1>2. IsChunkStream(items) /\ DOMAIN items = 1 .. Len(items)
  BY <1>0, <1>1, Answer_type DEF Arrives
<1>3. wire # <<>> => Head(wire).is = "size"
  BY <1>1 DEF ReadingInv, Between
<1>4. \A i \in 1 .. p : ~IsLastChunk(items[i])
  BY <1>1 DEF ReadingInv
<1>5. /\ have = Cardinality(DataIn(items, p)) /\ have + room = Room /\ room \in Nat
      /\ p \in 0 .. Len(items) /\ wire = SubSeq(items, p + 1, Len(items))
  BY DEF ReadingInv
\* A cut.
<1>6. ASSUME outcome' = "cut", wire' = wire, chunk' = chunk, last' = last, ~answer.complete
      PROVE  ReadingInv'
  <2>1. Pos' = Pos
    BY <1>1, <1>6 DEF Pos
  <2> QED
    BY <1>0, <1>1, <1>4, <1>5, <1>6, <2>1 DEF ReadingInv, Room
<1>7. CASE ~Is("size") /\ outcome' = NoEOF /\ UNCHANGED <<wire, chunk, last>>
  <2>1. wire = <<>>
    BY <1>3, <1>7 DEF Is
  <2>2. p = Len(items)
    BY <1>0, <2>1
  <2>3. ~answer.complete
    <3>1. ASSUME answer.complete PROVE FALSE
      <4>1. \E i \in 1 .. Len(items) : IsLastChunk(items[i])
        BY <1>0, <1>1, <3>1, Complete_ends
      <4> QED
        BY <1>4, <2>2, <4>1
    <3> QED
      BY <3>1
  <2> QED
    BY <1>6, <1>7, <2>3 DEF NoEOF
<1>8. CASE /\ Is("size") /\ Head(wire).n > 0
           /\ chunk' = Head(wire).n
           /\ wire' = Tail(wire)
           /\ UNCHANGED <<last, outcome>>
  <2>1. wire # <<>> /\ Head(wire) = items[p + 1] /\ p + 1 \in 1 .. Len(items)
    BY <1>0, <1>8 DEF Is
  <2>2. items[p + 1].is = "size" /\ items[p + 1].n > 0 /\ items[p + 1].n \in Nat
    <3>1. items[p + 1] \in Items
      BY <1>0, <2>1, ElementOfSeq
    <3> QED
      BY <1>8, <2>1, <3>1 DEF Is, Items
  <2>3. wire' = SubSeq(wire, 1 + 1, Len(wire)) /\ 1 \in 0 .. Len(wire)
    BY <1>0, <1>8, <2>1, TailIsSubSeq
  <2>4. Pos' = p + 1 /\ Pos' \in 0 .. Len(items) /\ wire' = SubSeq(items, Pos' + 1, Len(items))
    BY <1>1, <2>3, Moved
  <2>5. DataIn(items, p + 1) = DataIn(items, p)
    <3>1. \A i \in p + 1 .. p + 1 : items[i].is # "data"
      BY <1>0, <2>2
    <3>2. p + 1 \in Nat /\ p <= p + 1
      BY <1>0
    <3> QED
      BY <1>0, <3>1, <3>2, Data_no_more
  <2>6. InChunk'
    <3>1. p + 1 \in 1 .. Pos' /\ Pos' + chunk' = (p + 1) + items[p + 1].n
      BY <1>0, <1>8, <2>1, <2>2, <2>4
    <3> QED
      BY <1>1, <2>2, <3>1 DEF InChunk
  <2>7. \A i \in 1 .. Pos' : ~IsLastChunk(items[i])
    <3>1. \A i \in 1 .. Pos' : i \in 1 .. p \/ i = p + 1
      BY <1>0, <2>4
    <3>2. ~IsLastChunk(items[p + 1])
      BY <2>2 DEF IsLastChunk
    <3> QED
      BY <1>4, <3>1, <3>2
  <2>8. chunk' \in Nat /\ chunk' > 0 /\ last' = last /\ outcome' = "reading"
    BY <1>1, <1>8, <2>1, <2>2
  <2>9. have' = Cardinality(DataIn(items, Pos')) /\ have' + room' = Room' /\ room' \in Nat
    BY <1>1, <1>5, <2>4, <2>5 DEF Room
  <2> QED
    BY <1>0, <1>1, <2>4, <2>6, <2>7, <2>8, <2>9 DEF ReadingInv
<1> DEFINE I == {i \in 1 .. Len(wire) : wire[i].is = "crlf"}
           blank == IF I # {} THEN Min(I) ELSE 0
<1>9. CASE /\ Is("size") /\ Head(wire).n = 0
           /\ IF blank = 0 THEN outcome' = NoEOF /\ UNCHANGED <<wire, last>>
              ELSE last' = TRUE /\ wire' = SubSeq(wire, blank + 1, Len(wire)) /\ UNCHANGED outcome
           /\ UNCHANGED chunk
  <2>1. wire # <<>> /\ Head(wire) = items[p + 1] /\ p + 1 \in 1 .. Len(items)
    BY <1>0, <1>9 DEF Is
  <2>2. IsLastChunk(items[p + 1]) /\ items[p + 1].is = "size"
    BY <1>9, <2>1 DEF Is, IsLastChunk
  <2>3. \A j \in 1 .. Len(items) : j > p + 1 => items[j].is = "line" \/ items[j].is = "crlf"
    BY <1>2, <2>1, <2>2 DEF IsChunkStream
  <2>4. \A j \in p + 1 .. Len(items) : items[j].is # "data"
    <3> SUFFICES ASSUME NEW j \in p + 1 .. Len(items) PROVE items[j].is # "data"
      OBVIOUS
    <3>1. j = p + 1 \/ (j > p + 1 /\ j \in 1 .. Len(items))
      BY <1>0
    <3> QED
      BY <2>2, <2>3, <3>1
  <2>5. I \subseteq Nat
    OBVIOUS
  <2>6. CASE I = {}
    <3>1. outcome' = "cut" /\ wire' = wire /\ last' = last /\ chunk' = chunk
      BY <1>9, <2>6 DEF NoEOF
    <3>2. ~answer.complete
      <4>1. ASSUME answer.complete PROVE FALSE
        <5>1. items[Len(items)].is = "crlf"
          BY <1>0, <1>1, <4>1, Complete_ends
        <5>2. Len(wire) \in 1 .. Len(wire) /\ wire[Len(wire)] = items[p + Len(wire)] /\ p + Len(wire) = Len(items)
          BY <1>0, <2>1
        <5> QED
          BY <2>6, <5>1, <5>2
      <4> QED
        BY <4>1
    <3> QED
      BY <1>6, <3>1, <3>2
  <2>7. CASE I # {}
    <3> DEFINE b == Min(I)
    <3>1. b \in I
      <4> HIDE DEF I
      <4> QED
        BY <2>5, <2>7, Min_least
    <3>2. b \in 1 .. Len(wire) /\ b # 0 /\ b \in 0 .. Len(wire)
      BY <3>1
    <3>3. last' = TRUE /\ wire' = SubSeq(wire, b + 1, Len(wire)) /\ outcome' = outcome /\ chunk' = chunk
      BY <1>9, <2>7, <3>2
    <3> HIDE DEF b
    <3>4. Pos' = p + b /\ Pos' \in 0 .. Len(items) /\ wire' = SubSeq(items, Pos' + 1, Len(items))
      BY <1>1, <3>2, <3>3, Moved
    <3>5. DataIn(items, Pos') = DataIn(items, p) /\ DataIn(items, Len(items)) = DataIn(items, p)
      <4>1. Pos' \in Nat /\ p <= Pos' /\ \A i \in p + 1 .. Pos' : items[i].is # "data"
        BY <1>0, <2>4, <3>2, <3>4
      <4> QED
        BY <1>0, <2>4, <4>1, Data_no_more
    <3>6. have = answer.whole
      <4>1. DataBytes(items) = answer.whole
        BY <1>0, <1>1, <1>2, <2>1, <2>2, Answer_type DEF Arrives
      <4> QED
        BY <1>0, <1>5, <3>5, <4>1, All_data
    <3>7. have' = Cardinality(DataIn(items, Pos')) /\ have' + room' = Room' /\ room' \in Nat
      BY <1>1, <1>5, <3>5 DEF Room
    <3>8. chunk' = 0 /\ chunk' \in Nat /\ ~(chunk' > 0) /\ outcome' = "reading" /\ have' = answer'.whole
      BY <1>1, <3>3, <3>6
    <3> QED
      BY <1>0, <1>1, <3>3, <3>4, <3>7, <3>8 DEF ReadingInv
  <2> QED
    BY <2>6, <2>7
<1> QED
  BY <1>7, <1>8, <1>9 DEF NextChunk, SelectInSeq

\* chunkedReader.Read: within the chunk, to its end and the line end after it,
\* or to where the connection ends.
LEMMA Answer_bytes ==
  ASSUME ReadingInv, NEW n \in 1 .. MaxPiece, ReadChunk(n)
  PROVE  ReadingInv'
<1> DEFINE items == answer.items
           p == Pos
           rest == SubSeq(wire, n + 1, Len(wire))
<1>0. /\ answer \in Answers /\ items \in Seq(Items) /\ Len(items) \in Nat
      /\ p \in Nat /\ p <= Len(items) /\ Len(wire) = Len(items) - p /\ Len(wire) \in Nat
      /\ \A i \in 1 .. Len(wire) : wire[i] = items[p + i] /\ wire[i] \in Items
      /\ wire \in Seq(Items)
  BY Position
<1>1. /\ outcome = "reading" /\ answer.chunked /\ chunk > 0 /\ n <= chunk /\ n <= room /\ n <= Ready
      /\ answer' = answer /\ room' = room - n /\ have' = have + n /\ chunk' = chunk - n /\ last' = last
      /\ IF n < chunk THEN wire' = rest /\ outcome' = outcome
         ELSE IF rest # <<>> /\ Head(rest).is = "crlf" THEN wire' = Tail(rest) /\ outcome' = outcome
         ELSE wire' = rest /\ outcome' = "cut"
  BY DEF ReadChunk, NoEOF
<1>2. IsChunkStream(items) /\ DOMAIN items = 1 .. Len(items)
  BY <1>0, <1>1, Answer_type DEF Arrives
<1>3. chunk \in Nat /\ room \in Nat /\ have = Cardinality(DataIn(items, p)) /\ have + room = Room
  BY DEF ReadingInv
<1>4. ~last
  BY <1>1, <1>3 DEF ReadingInv
<1>5. \A i \in 1 .. p : ~IsLastChunk(items[i])
  BY <1>4 DEF ReadingInv
<1>6. PICK i \in 1 .. p : items[i].is = "size" /\ items[i].n > 0 /\ p + chunk = i + items[i].n
  BY <1>1 DEF ReadingInv, InChunk
<1>7. n \in Nat /\ n >= 1 /\ n \in 0 .. Len(wire) /\ \A j \in 1 .. n : wire[j].is = "data"
  <2>1. n \in Nat /\ n >= 1
    BY AnswerAssumption
  <2>2. Ready \in 0 .. Len(wire) /\ \A j \in 1 .. Ready : wire[j].is = "data"
    BY Ready_data
  <2> QED
    BY <1>0, <1>1, <2>1, <2>2
<1>8. \A j \in p + 1 .. p + n : items[j].is = "data"
  <2> SUFFICES ASSUME NEW j \in p + 1 .. p + n PROVE items[j].is = "data"
    OBVIOUS
  <2>1. j - p \in 1 .. n /\ j - p \in 1 .. Len(wire) /\ p + (j - p) = j
    BY <1>0, <1>7
  <2> QED
    BY <1>0, <1>7, <2>1
<1>9. have' = Cardinality(DataIn(items, p + n)) /\ have' + room' = Room' /\ room' \in Nat /\ chunk' \in Nat
  <2>1. Cardinality(DataIn(items, p + n)) = Cardinality(DataIn(items, p)) + n
    BY <1>0, <1>7, <1>8, Data_more
  <2>2. have \in Nat
    BY <1>0, <1>3, Data_finite
  <2>3. Room' = Room
    BY DEF Room
  <2>4. have + n + (room - n) = have + room /\ room - n \in Nat /\ chunk - n \in Nat
    BY <1>1, <1>3, <1>7, <2>2
  <2> QED
    BY <1>1, <1>3, <2>1, <2>3, <2>4
<1>10. \A j \in p + 1 .. p + n : ~IsLastChunk(items[j])
  BY <1>8 DEF IsLastChunk
<1>11. \A j \in 1 .. p + n : ~IsLastChunk(items[j])
  <2>1. \A j \in 1 .. p + n : j \in 1 .. p \/ j \in p + 1 .. p + n
    BY <1>0, <1>7
  <2> QED
    BY <1>5, <1>10, <2>1
<1>12. i \in Nat /\ items[i].n \in Nat /\ i \in 1 .. Len(items)
  <2>1. i \in 1 .. Len(items)
    BY <1>0
  <2>2. items[i] \in Items
    BY <1>0, <2>1, ElementOfSeq
  <2> QED
    BY <2>1, <2>2 DEF Items
<1>13. CASE n < chunk
  <2>1. wire' = rest /\ outcome' = "reading"
    BY <1>1, <1>13
  <2>2. Pos' = p + n /\ Pos' \in 0 .. Len(items) /\ wire' = SubSeq(items, Pos' + 1, Len(items))
    BY <1>1, <1>7, <2>1, Moved
  <2>3. i \in 1 .. Pos' /\ Pos' + chunk' = i + items[i].n
    BY <1>0, <1>1, <1>3, <1>6, <1>7, <1>12, <2>2
  <2>4. InChunk'
    BY <1>1, <1>6, <2>3 DEF InChunk
  <2>5. chunk' > 0 /\ chunk' # 0
    BY <1>1, <1>3, <1>7, <1>13
  <2>6. have' = Cardinality(DataIn(items, Pos')) /\ \A j \in 1 .. Pos' : ~IsLastChunk(items[j])
    BY <1>9, <1>11, <2>2
  <2> QED
    BY <1>0, <1>1, <1>4, <1>9, <2>1, <2>2, <2>4, <2>5, <2>6 DEF ReadingInv
<1>14. ASSUME ~(n < chunk) PROVE n = chunk /\ chunk' = 0 /\ p + n = i + items[i].n
  BY <1>1, <1>3, <1>6, <1>7, <1>14
<1>15. /\ rest \in Seq(Items) /\ Len(rest) = Len(wire) - n
       /\ rest # <<>> => Head(rest) = items[p + n + 1] /\ p + n + 1 \in 1 .. Len(items)
       /\ rest # <<>> => Tail(rest) = SubSeq(wire, (n + 1) + 1, Len(wire)) /\ n + 1 \in 0 .. Len(wire)
       /\ rest = <<>> => p + n = Len(items)
  <2>1. /\ rest \in Seq(Items) /\ Len(rest) = Len(wire) - n
        /\ rest # <<>> => Head(rest) = wire[n + 1] /\ n + 1 \in 1 .. Len(wire)
    BY <1>0, <1>7, Rest
  <2>2. ASSUME rest # <<>> PROVE Tail(rest) = SubSeq(wire, (n + 1) + 1, Len(wire))
    <3>1. n + 1 \in 1 .. Len(wire) /\ Len(wire) \in n + 1 .. Len(wire)
      BY <1>0, <1>7, <2>1, <2>2
    <3> QED
      BY <1>0, <3>1, HeadTailOfSubSeq
  <2>3. rest = <<>> => Len(rest) = 0
    BY EmptySeq
  <2>4. ASSUME rest # <<>>
        PROVE  Head(rest) = items[p + n + 1] /\ p + n + 1 \in 1 .. Len(items) /\ n + 1 \in 0 .. Len(wire)
    <3>1. n + 1 \in 1 .. Len(wire) /\ Head(rest) = wire[n + 1]
      BY <2>1, <2>4
    <3>2. wire[n + 1] = items[p + (n + 1)] /\ p + (n + 1) = p + n + 1
      BY <1>0, <1>7, <3>1
    <3> QED
      BY <1>0, <1>7, <3>1, <3>2
  <2>5. rest = <<>> => p + n = Len(items)
    <3>1. ASSUME rest = <<>> PROVE Len(wire) - n = 0
      BY <2>1, <2>3, <3>1
    <3> QED
      BY <1>0, <1>7, <3>1
  <2> QED
    BY <2>1, <2>2, <2>4, <2>5
<1>16. ASSUME ~(n < chunk), rest # <<>> PROVE Head(rest).is = "crlf"
  <2>1. p + n + 1 = i + items[i].n + 1 /\ p + n + 1 \in 1 .. Len(items)
    BY <1>14, <1>15, <1>16
  <2>2. items[p + n + 1].is = "crlf"
    BY <1>2, <1>6, <1>12, <2>1 DEF IsChunkStream
  <2> QED
    BY <1>15, <1>16, <2>2
<1> HIDE DEF rest
<1>17. CASE ~(n < chunk) /\ rest # <<>>
  <2>1. wire' = Tail(rest) /\ outcome' = "reading" /\ Head(rest).is = "crlf"
    BY <1>1, <1>16, <1>17
  <2>2. wire' = SubSeq(wire, (n + 1) + 1, Len(wire)) /\ n + 1 \in 0 .. Len(wire)
    BY <1>15, <1>17, <2>1
  <2>3. Pos' = p + (n + 1) /\ Pos' \in 0 .. Len(items) /\ wire' = SubSeq(items, Pos' + 1, Len(items))
    BY <1>1, <2>2, Moved
  <2>4. items[p + n + 1].is = "crlf" /\ Pos' = p + n + 1
    <3>1. items[p + n + 1].is = "crlf"
      BY <1>15, <1>17, <2>1
    <3>2. p + (n + 1) = p + n + 1
      BY <1>0, <1>7
    <3> QED
      BY <2>3, <3>1, <3>2
  <2>5. DataIn(items, Pos') = DataIn(items, p + n)
    <3> DEFINE a == p + n
    <3>1. a \in Nat /\ Pos' = a + 1 /\ items[a + 1].is # "data"
      BY <1>0, <1>7, <2>4
    <3> HIDE DEF a
    <3>2. a + 1 \in Nat /\ a <= a + 1 /\ \A j \in a + 1 .. a + 1 : items[j].is # "data"
      BY <3>1
    <3>3. DataIn(items, Pos') = DataIn(items, a)
      BY <3>1, <3>2, Data_no_more
    <3> QED
      BY <3>3 DEF a
  <2>6. \A j \in 1 .. Pos' : ~IsLastChunk(items[j])
    <3> DEFINE a == p + n
    <3>1. \A j \in 1 .. Pos' : j \in 1 .. a \/ j = a + 1
      <4>1. a \in Nat /\ Pos' = a + 1
        BY <1>0, <1>7, <2>4
      <4> HIDE DEF a
      <4> QED
        BY <4>1
    <3>2. ~IsLastChunk(items[p + n + 1])
      BY <2>4 DEF IsLastChunk
    <3> QED
      BY <1>11, <3>1, <3>2
  <2>7. Between'
    <3> SUFFICES ASSUME wire' # <<>> PROVE Head(wire').is = "size"
      BY DEF Between
    <3>1. Head(wire') = items[Pos' + 1] /\ Pos' + 1 \in 1 .. Len(items)
      <4> DEFINE q == Pos'
      <4>1. q \in 0 .. Len(items) /\ wire' = SubSeq(items, q + 1, Len(items))
        BY <2>3
      <4> HIDE DEF q
      <4>2. Head(wire') = items[q + 1] /\ q + 1 \in 1 .. Len(items)
        BY <1>0, <4>1, Rest
      <4> QED
        BY <4>2 DEF q
    <3>2. Pos' + 1 = i + items[i].n + 2
      BY <1>0, <1>7, <1>12, <1>14, <1>17, <2>4
    <3>3. items[Pos' + 1].is = "size"
      BY <1>2, <1>6, <1>12, <3>1, <3>2 DEF IsChunkStream
    <3> QED
      BY <3>1, <3>3
  <2>8. chunk' = 0 /\ ~(chunk' > 0) /\ have' = Cardinality(DataIn(items, Pos'))
    BY <1>9, <1>14, <1>17, <2>5
  <2> QED
    BY <1>0, <1>1, <1>4, <1>9, <2>1, <2>3, <2>6, <2>7, <2>8 DEF ReadingInv
<1>18. CASE ~(n < chunk) /\ rest = <<>>
  <2>1. wire' = rest /\ outcome' = "cut"
    BY <1>1, <1>18
  <2>2. Pos' = p + n /\ Pos' \in 0 .. Len(items) /\ wire' = SubSeq(items, Pos' + 1, Len(items))
    BY <1>1, <1>7, <2>1, Moved DEF rest
  <2>3. ~answer.complete
    <3>1. ASSUME answer.complete PROVE FALSE
      <4>1. items[Len(items)].is = "crlf"
        BY <1>0, <1>1, <3>1, Complete_ends
      <4>2. Len(items) \in p + 1 .. p + n
        BY <1>0, <1>7, <1>15, <1>18
      <4> QED
        BY <1>8, <4>1, <4>2
    <3> QED
      BY <3>1
  <2>4. have' = Cardinality(DataIn(items, Pos')) /\ \A j \in 1 .. Pos' : ~IsLastChunk(items[j])
    BY <1>9, <1>11, <2>2
  <2> QED
    BY <1>0, <1>1, <1>4, <1>9, <2>1, <2>2, <2>3, <2>4 DEF ReadingInv
<1> QED
  BY <1>13, <1>17, <1>18

\* An answer without chunks is data up to its end.
LEMMA Answer_plain ==
  ASSUME ReadingInv, NEW n \in 1 .. MaxPiece, ReadPlain(n)
  PROVE  ReadingInv'
<1> DEFINE items == answer.items
           p == Pos
<1>0. /\ answer \in Answers /\ items \in Seq(Items) /\ Len(items) \in Nat
      /\ p \in Nat /\ p <= Len(items) /\ Len(wire) = Len(items) - p /\ Len(wire) \in Nat
  BY Position
<1>1. /\ outcome = "reading" /\ ~answer.chunked /\ n <= room /\ n <= Ready
      /\ answer' = answer /\ room' = room - n /\ have' = have + n /\ chunk' = chunk /\ last' = last
      /\ wire' = SubSeq(wire, n + 1, Len(wire)) /\ outcome' = outcome
  BY DEF ReadPlain
<1>2. /\ room \in Nat /\ have = Cardinality(DataIn(items, p)) /\ have + room = Room
      /\ chunk = 0 /\ ~last /\ chunk \in Nat
  BY <1>1 DEF ReadingInv
<1>3. n \in Nat /\ n \in 0 .. Len(wire)
  <2>1. n \in Nat
    BY AnswerAssumption
  <2>2. Ready \in 0 .. Len(wire)
    BY Ready_data
  <2> QED
    BY <1>0, <1>1, <2>1, <2>2
<1>4. \A j \in 1 .. Len(items) : items[j].is = "data"
  BY <1>0, <1>1, Answer_type DEF Arrives
<1>5. Pos' = p + n /\ Pos' \in 0 .. Len(items) /\ wire' = SubSeq(items, Pos' + 1, Len(items))
  BY <1>1, <1>3, Moved
<1>6. \A j \in p + 1 .. p + n : items[j].is = "data"
  BY <1>0, <1>3, <1>4
<1>7. have' = Cardinality(DataIn(items, Pos')) /\ have' + room' = Room' /\ room' \in Nat
  <2>1. Cardinality(DataIn(items, p + n)) = Cardinality(DataIn(items, p)) + n
    BY <1>0, <1>3, <1>6, Data_more
  <2>2. have \in Nat
    BY <1>0, <1>2, Data_finite
  <2>3. Room' = Room
    BY DEF Room
  <2>4. have + n + (room - n) = have + room /\ room - n \in Nat
    BY <1>1, <1>2, <1>3, <2>2
  <2> QED
    BY <1>1, <1>2, <1>5, <2>1, <2>3, <2>4
<1>8. \A j \in 1 .. Pos' : ~IsLastChunk(items[j])
  <2>1. Pos' \in 0 .. Len(items)
    BY <1>5
  <2> SUFFICES ASSUME NEW j \in 1 .. Pos' PROVE ~IsLastChunk(items[j])
    OBVIOUS
  <2> HIDE DEF items, Pos
  <2>2. j \in 1 .. Len(items)
    BY <1>0, <2>1
  <2>3. items[j].is = "data"
    BY <1>4, <2>2
  <2> QED
    BY <2>3 DEF IsLastChunk
<1> QED
  BY <1>0, <1>1, <1>2, <1>5, <1>7, <1>8 DEF ReadingInv

\* The end: at the limit, after the last chunk, or where the connection ends.
LEMMA Answer_ends ==
  ASSUME ReadingInv, AnswerEnds
  PROVE  ReadingInv'
<1> DEFINE items == answer.items
           p == Pos
<1>0. /\ answer \in Answers /\ items \in Seq(Items) /\ Len(items) \in Nat
      /\ p \in Nat /\ p <= Len(items) /\ Len(wire) = Len(items) - p /\ Len(wire) \in Nat
      /\ wire = <<>> <=> p = Len(items)
      /\ wire # <<>> => Head(wire) = items[p + 1]
  BY Position
<1>1. /\ outcome = "reading" /\ answer' = answer /\ wire' = wire /\ chunk' = chunk
      /\ last' = last /\ room' = room /\ have' = have
  BY DEF AnswerEnds
<1>2. Pos' = Pos /\ Room' = Room
  BY <1>1 DEF Pos, Room
<1>3. ASSUME outcome' \in {"done", "cut", "too large"},
             outcome' = "cut" => ~answer.complete,
             outcome' = "too large" => room = 0,
             outcome' = "done" => room > 0 /\ (answer.chunked => last)
      PROVE  ReadingInv'
  BY <1>0, <1>1, <1>2, <1>3 DEF ReadingInv
<1>4. CASE room = 0 /\ outcome' = "too large"
  BY <1>3, <1>4
<1>5. CASE room > 0 /\ last /\ outcome' = "done"
  BY <1>3, <1>5
<1>6. CASE room > 0 /\ chunk > 0 /\ Ready = 0 /\ outcome' = NoEOF
  <2>1. answer.chunked
    <3>1. ~answer.chunked => chunk = 0
      BY DEF ReadingInv
    <3>2. chunk # 0
      BY <1>6
    <3> QED
      BY <3>1, <3>2
  <2>2. PICK i \in 1 .. p : items[i].is = "size" /\ items[i].n > 0 /\ p + chunk = i + items[i].n
    BY <1>1, <1>6, <2>1 DEF ReadingInv, InChunk
  <2>3. IsChunkStream(items) /\ DOMAIN items = 1 .. Len(items)
    BY <1>0, <2>1, Answer_type DEF Arrives
  <2>4. i \in 1 .. Len(items) /\ items[i].n \in Nat
    <3>1. i \in 1 .. Len(items)
      BY <1>0
    <3>2. items[i] \in Items
      BY <1>0, <3>1, ElementOfSeq
    <3> QED
      BY <3>1, <3>2 DEF Items
  <2>5. chunk \in Nat
    BY DEF ReadingInv
  <2>6. p = Len(items)
    <3>1. ASSUME p # Len(items) PROVE FALSE
      <4>1. p + 1 \in 1 .. Len(items) /\ p + 1 \in i + 1 .. i + items[i].n
        BY <1>0, <1>6, <2>2, <2>4, <2>5, <3>1
      <4>2. items[p + 1].is = "data"
        BY <2>2, <2>3, <2>4, <4>1 DEF IsChunkStream
      <4>3. wire # <<>>
        BY <1>0, <3>1
      <4> QED
        BY <1>0, <1>6, <4>2, <4>3, Ready_data
    <3> QED
      BY <3>1
  <2>7. ~answer.complete
    <3>1. ASSUME answer.complete PROVE FALSE
      <4>1. items[p].is = "crlf"
        BY <1>0, <2>1, <2>6, <3>1, Complete_ends
      <4>2. p = i \/ p \in i + 1 .. i + items[i].n
        BY <1>0, <1>6, <2>2, <2>4, <2>5
      <4>3. p \in 1 .. Len(items)
        BY <1>0, <2>4, <2>6
      <4>4. CASE p \in i + 1 .. i + items[i].n
        <5>1. items[p].is = "data"
          BY <2>2, <2>3, <2>4, <4>3, <4>4 DEF IsChunkStream
        <5> QED
          BY <4>1, <5>1
      <4> QED
        BY <2>2, <4>1, <4>2, <4>4
    <3> QED
      BY <3>1
  <2> QED
    BY <1>3, <1>6, <2>7 DEF NoEOF
<1>7. CASE room > 0 /\ ~answer.chunked /\ Ready = 0 /\ outcome' = "done"
  BY <1>3, <1>7
<1> QED
  BY <1>4, <1>5, <1>6, <1>7 DEF AnswerEnds

\* Every step keeps the reader at its place.
LEMMA Answer_step == AnswerInv /\ [Next]_vars => AnswerInv'
<1> SUFFICES ASSUME AnswerInv, [Next]_vars PROVE AnswerInv'
  OBVIOUS
<1>1. CASE UNCHANGED answerVars
  <2>1. answer' = answer /\ wire' = wire /\ chunk' = chunk /\ last' = last /\ room' = room
        /\ have' = have /\ outcome' = outcome
    BY <1>1 DEF answerVars
  <2>2. NoAnswer => NoAnswer'
    BY <2>1 DEF NoAnswer
  <2>3. ReadingInv => ReadingInv'
    BY <2>1 DEF ReadingInv, Pos, Room, InChunk, Between
  <2> QED
    BY <2>2, <2>3 DEF AnswerInv
<1>2. CASE ReadAnswer
  <2>1. outcome = "reading"
    BY <1>2 DEF ReadAnswer, NextChunk, AnswerEnds, ReadChunk, ReadPlain
  <2>2. ReadingInv
    BY <2>1 DEF AnswerInv, NoAnswer
  <2>3. ReadingInv'
    BY <1>2, <2>2, Answer_chunk, Answer_bytes, Answer_plain, Answer_ends DEF ReadAnswer
  <2> QED
    BY <2>3 DEF AnswerInv
<1> QED
  BY <1>1, <1>2 DEF Next, ReadOn, Follow, vars

\* The administrator check reads a whole answer or fails, for every answer, every
\* limit and every cut of the connection (chunkedReader.Read, VerifySession).
THEOREM AnswersAlwaysWhole == Spec => []AnswersAreWhole
<1>1. Spec => []AnswerInv
  BY Answer_init, Answer_step, PTL DEF Spec
<1> QED
  BY <1>1, Answer_inv_whole, PTL

-----------------------------------------------------------------------------
(* Where a change came from. *)

\* What the values for the indices in D agree on: nothing, one value, or two.
Agreed(result, D, val) ==
  \/ D = {} /\ result = Nothing
  \/ D # {} /\ \E v : (\A i \in D : val[i] = v) /\ result = Found(v)
  \/ (\E i, j \in D : val[i] # val[j]) /\ result = Ambiguous

\* A loop of Meet ends with what its values agree on.
LEMMA Meet_loop ==
  ASSUME NEW k \in Nat, NEW D, D \subseteq 1 .. k, NEW val, NEW h,
         h[0] = Nothing,
         \A n \in 1 .. k : h[n] = IF n \in D THEN Meet(h[n - 1], val[n]) ELSE h[n - 1]
  PROVE  Agreed(h[k], D, val)
<1> DEFINE E(n) == D \cap (1 .. n)
           P(n) == \/ E(n) = {} /\ h[n] = Nothing
                   \/ E(n) # {} /\ \E v : (\A i \in E(n) : val[i] = v) /\ h[n] = Found(v)
                   \/ (\E i, j \in E(n) : val[i] # val[j]) /\ h[n] = Ambiguous
           T == {n \in 0 .. k : P(n)}
<1>0. /\ Nothing.state = "none" /\ Ambiguous.state = "ambiguous" /\ \A v : Found(v).state = "found"
      /\ \A u, v : Found(u) = Found(v) => u = v
  <2>1. \A v : Found(v).state = "found" /\ Found(v).value = v
    BY DEF Found
  <2> QED
    BY <2>1 DEF Nothing, Ambiguous
<1>1. 0 \in T
  <2>1. E(0) = {}
    OBVIOUS
  <2> QED
    BY <2>1
<1>2. ASSUME NEW n \in 1 .. k, n - 1 \in T PROVE n \in T
  <2>1. P(n - 1) /\ n \in 0 .. k
    BY <1>2
  <2>2. h[n] = IF n \in D THEN Meet(h[n - 1], val[n]) ELSE h[n - 1]
    OBVIOUS
  <2>3. CASE n \notin D
    <3>1. E(n) = E(n - 1)
      BY <2>3
    <3> HIDE DEF E
    <3> QED
      BY <2>1, <2>2, <2>3, <3>1
  <2>4. CASE n \in D
    <3>1. E(n) = E(n - 1) \cup {n}
      BY <2>4
    <3>2. h[n] = Meet(h[n - 1], val[n])
      BY <2>2, <2>4
    <3> HIDE DEF E
    <3>3. CASE E(n - 1) = {} /\ h[n - 1] = Nothing
      <4>1. h[n] = Found(val[n])
        BY <1>0, <3>2, <3>3 DEF Meet
      <4>2. \A i \in E(n) : val[i] = val[n]
        BY <3>1, <3>3
      <4> QED
        BY <2>1, <3>1, <4>1, <4>2
    <3>4. CASE E(n - 1) # {} /\ \E v : (\A i \in E(n - 1) : val[i] = v) /\ h[n - 1] = Found(v)
      <4>1. PICK v : (\A i \in E(n - 1) : val[i] = v) /\ h[n - 1] = Found(v)
        BY <3>4
      <4>2. CASE v = val[n]
        <5>1. h[n] = Found(v)
          BY <3>2, <4>1, <4>2 DEF Meet
        <5> QED
          BY <2>1, <3>1, <4>1, <4>2, <5>1
      <4>3. CASE v # val[n]
        <5>1. h[n] = Ambiguous
          BY <1>0, <3>2, <4>1, <4>3 DEF Meet
        <5>2. PICK i : i \in E(n - 1)
          BY <3>4
        <5>3. i \in E(n) /\ n \in E(n) /\ val[i] # val[n]
          BY <3>1, <4>1, <4>3, <5>2
        <5> QED
          BY <2>1, <5>1, <5>3
      <4> QED
        BY <4>2, <4>3
    <3>5. CASE (\E i, j \in E(n - 1) : val[i] # val[j]) /\ h[n - 1] = Ambiguous
      <4>1. h[n] = Ambiguous
        BY <1>0, <3>2, <3>5 DEF Meet
      <4> QED
        BY <2>1, <3>1, <3>5, <4>1
    <3> QED
      BY <2>1, <3>3, <3>4, <3>5
  <2> QED
    BY <2>3, <2>4
<1>3. k \in T
  <2>1. k \in 0 .. k
    OBVIOUS
  <2> HIDE DEF T
  <2> QED
    BY <1>1, <1>2, <2>1, Count_up
<1>4. E(k) = D
  OBVIOUS
<1> QED
  BY <1>3, <1>4 DEF Agreed

\* A fold with Meet.
IsMeetFold(f, k, D, val) ==
  f = [s \in SUBSET (1 .. k) |->
         IF s = {} THEN Nothing
         ELSE IF Max(s) \in D THEN Meet(f[s \ {Max(s)}], val[Max(s)]) ELSE f[s \ {Max(s)}]]

\* The loop of Meet over the positions in D has its function.
LEMMA Meet_fold_exists ==
  ASSUME NEW k \in Nat, NEW D, D \subseteq 1 .. k, NEW val
  PROVE  \E f : IsMeetFold(f, k, D, val)
<1> DEFINE V == {Nothing, Ambiguous} \cup {Found(val[i]) : i \in 1 .. k}
           E(v, i) == IF i \in D THEN Meet(v, val[i]) ELSE v
           step == [a \in V \X (1 .. k) |-> E(a[1], a[2])]
<1>1. step \in [V \X (1 .. k) -> V]
  <2> SUFFICES ASSUME NEW v \in V, NEW i \in 1 .. k PROVE E(v, i) \in V
    BY Zenon
  <2>1. Meet(v, val[i]) = Found(val[i]) \/ Meet(v, val[i]) = Ambiguous
    BY DEF Meet
  <2> QED
    BY <2>1
<1>2. Nothing \in V
  OBVIOUS
<1>3. PICK g : IsFold(g, V, Nothing, k, step)
  <2> HIDE DEF step, V
  <2> QED
    BY <1>1, <1>2, Fold_exists
<1>4. g \in [SUBSET (1 .. k) -> V] /\ g[{}] = Nothing
  BY <1>3 DEF IsFold
<1>5. ASSUME NEW s \in SUBSET (1 .. k), s # {}
      PROVE  g[s] = E(g[s \ {Max(s)}], Max(s))
  <2>1. Max(s) \in 1 .. k
    BY <1>5, Max_greatest
  <2>2. g[s \ {Max(s)}] \in V
    <3>1. s \ {Max(s)} \in SUBSET (1 .. k)
      OBVIOUS
    <3> HIDE DEF V
    <3> QED
      BY <1>4, <3>1
  <2>3. g[s] = step[<<g[s \ {Max(s)}], Max(s)>>]
    <3> HIDE DEF V, step
    <3> QED
      BY <1>3, <1>5 DEF IsFold
  <2> HIDE DEF V, E
  <2>4. <<g[s \ {Max(s)}], Max(s)>> \in V \X (1 .. k)
    BY <2>1, <2>2
  <2>5. step[<<g[s \ {Max(s)}], Max(s)>>] = E(g[s \ {Max(s)}], Max(s))
    BY <2>4
  <2> QED
    BY <2>3, <2>5
<1> HIDE DEF V, step
<1>6. IsMeetFold(g, k, D, val)
  <2>1. g = [s \in SUBSET (1 .. k) |-> g[s]]
    BY <1>4
  <2>2. \A s \in SUBSET (1 .. k) :
          g[s] = IF s = {} THEN Nothing
                 ELSE IF Max(s) \in D THEN Meet(g[s \ {Max(s)}], val[Max(s)]) ELSE g[s \ {Max(s)}]
    BY <1>4, <1>5
  <2> QED
    BY <2>1, <2>2, Zenon DEF IsMeetFold
<1> QED
  BY <1>6

\* Its result is what the values agree on.
LEMMA Meet_fold_agrees ==
  ASSUME NEW k \in Nat, NEW D, D \subseteq 1 .. k, NEW val, NEW f, IsMeetFold(f, k, D, val)
  PROVE  Agreed(f[1 .. k], D, val)
<1> DEFINE h == [n \in 0 .. k |-> f[1 .. n]]
           r == [s \in SUBSET (1 .. k) |->
                   IF s = {} THEN Nothing
                   ELSE IF Max(s) \in D THEN Meet(f[s \ {Max(s)}], val[Max(s)]) ELSE f[s \ {Max(s)}]]
<1>1. \A s \in SUBSET (1 .. k) :
        f[s] = IF s = {} THEN Nothing
               ELSE IF Max(s) \in D THEN Meet(f[s \ {Max(s)}], val[Max(s)]) ELSE f[s \ {Max(s)}]
  <2>1. \A s \in SUBSET (1 .. k) :
          r[s] = IF s = {} THEN Nothing
                 ELSE IF Max(s) \in D THEN Meet(f[s \ {Max(s)}], val[Max(s)]) ELSE f[s \ {Max(s)}]
    OBVIOUS
  <2>2. f = r
    BY DEF IsMeetFold
  <2> HIDE DEF r
  <2> QED
    BY <2>1, <2>2
<1>2. h[0] = Nothing
  <2>1. h[0] = f[1 .. 0] /\ 1 .. 0 = {} /\ {} \in SUBSET (1 .. k)
    OBVIOUS
  <2> QED
    BY <1>1, <2>1
<1>3. ASSUME NEW n \in 1 .. k PROVE h[n] = IF n \in D THEN Meet(h[n - 1], val[n]) ELSE h[n - 1]
  <2>1. h[n] = f[1 .. n] /\ h[n - 1] = f[1 .. (n - 1)] /\ n \in 0 .. k
    OBVIOUS
  <2>2. 1 .. n \in SUBSET (1 .. k) /\ 1 .. n # {} /\ Max(1 .. n) = n /\ (1 .. n) \ {n} = 1 .. (n - 1)
    BY <2>1, Intervals
  <2> QED
    BY <1>1, <2>1, <2>2
<1>4. h[k] = f[1 .. k]
  OBVIOUS
<1> HIDE DEF h
<1>5. Agreed(h[k], D, val)
  BY <1>2, <1>3, Meet_loop
<1> QED
  BY <1>4, <1>5

\* Sections and their entries are sequences.
AreSections(sections) ==
  IsSequence(sections) /\ \A i \in DOMAIN sections : IsSequence(sections[i].entries)

\* A section and an entry.
PairsOf(sections) ==
  [of : Range(sections), entry : UNION {Range(sections[i].entries) : i \in DOMAIN sections}]

\* Pairs is a sequence of them.
LEMMA Pairs_type ==
  ASSUME NEW sections, AreSections(sections)
  PROVE  Pairs(sections) \in Seq(PairsOf(sections))
<1> DEFINE X == PairsOf(sections)
           Row(s) == [e \in DOMAIN sections[s].entries |->
                        [of |-> sections[s], entry |-> sections[s].entries[e]]]
           ss == [s \in DOMAIN sections |-> Row(s)]
<1>1. sections \in Seq(Range(sections)) /\ DOMAIN sections = 1 .. Len(sections) /\ Len(sections) \in Nat
  BY LenProperties DEF AreSections, IsSequence
<1>2. ASSUME NEW s \in DOMAIN sections PROVE Row(s) \in Seq(X)
  <2> DEFINE es == sections[s].entries
  <2>1. es \in Seq(Range(es))
    BY DEF AreSections, IsSequence
  <2>2. DOMAIN es = 1 .. Len(es) /\ Len(es) \in Nat
    <3> HIDE DEF es
    <3> QED
      BY <2>1, LenProperties
  <2>3. ASSUME NEW e \in 1 .. Len(es) PROVE [of |-> sections[s], entry |-> es[e]] \in X
    <3>1. es[e] \in Range(es)
      BY <2>2 DEF Range
    <3>2. sections[s] \in Range(sections)
      BY DEF Range
    <3>3. es[e] \in UNION {Range(sections[i].entries) : i \in DOMAIN sections}
      BY <3>1
    <3> QED
      BY <3>2, <3>3 DEF PairsOf
  <2> HIDE DEF X
  <2>4. Row(s) = [e \in 1 .. Len(es) |-> [of |-> sections[s], entry |-> es[e]]]
    BY <2>2
  <2>5. [e \in 1 .. Len(es) |-> [of |-> sections[s], entry |-> es[e]]] \in Seq(X)
    BY <2>2, <2>3
  <2> QED
    BY <2>4, <2>5
<1>3. ss \in Seq(Seq(X))
  <2> HIDE DEF X, Row
  <2>1. ss = [s \in 1 .. Len(sections) |-> Row(s)]
    BY <1>1
  <2>2. [s \in 1 .. Len(sections) |-> Row(s)] \in Seq(Seq(X))
    BY <1>1, <1>2
  <2> QED
    BY <2>1, <2>2
<1>4. Pairs(sections) = FlattenSeq(ss)
  BY DEF Pairs
<1> HIDE DEF ss, X
<1>5. FlattenSeq(ss) \in Seq(X)
  BY <1>3, Flatten_type
<1> QED
  BY <1>4, <1>5 DEF X

\* The indices of the records for the source, and what each says.
ExactAt(source, sections) ==
  {n \in 1 .. Len(Pairs(sections)) : Pairs(sections)[n].entry.address = source}

\* The candidate of each pair.
CandidateAt(sections) == [n \in 1 .. Len(Pairs(sections)) |-> Candidate(Pairs(sections)[n])]

\* ExactHostAttribution finds what the candidates at ExactAt agree on.
LEMMA Exact_agrees ==
  ASSUME NEW source, NEW sections, AreSections(sections)
  PROVE  Agreed(ExactHostAttribution(source, sections), ExactAt(source, sections), CandidateAt(sections))
<1> DEFINE pairs == Pairs(sections)
           k == Len(pairs)
           D == ExactAt(source, sections)
           val == CandidateAt(sections)
           Eq(f) == f = [s \in SUBSET DOMAIN pairs |->
                           IF s = {} THEN Nothing
                           ELSE IF pairs[Max(s)].entry.address = source
                                THEN Meet(f[s \ {Max(s)}], Candidate(pairs[Max(s)])) ELSE f[s \ {Max(s)}]]
           it == CHOOSE f : Eq(f)
<1>1. ExactHostAttribution(source, sections) = it[DOMAIN pairs]
  BY Zenon DEF ExactHostAttribution, FoldLeft, MapThenFoldSet
<1>2. k \in Nat /\ DOMAIN pairs = 1 .. k
  <2>1. pairs \in Seq(PairsOf(sections))
    BY Pairs_type
  <2> HIDE DEF pairs
  <2> QED
    BY <2>1, LenProperties
<1>3. D \subseteq 1 .. k
  BY DEF ExactAt
<1>4. ASSUME NEW f PROVE Eq(f) <=> IsMeetFold(f, k, D, val)
  <2>1. ASSUME NEW s \in SUBSET (1 .. k), s # {}
        PROVE  (Max(s) \in D <=> pairs[Max(s)].entry.address = source) /\ val[Max(s)] = Candidate(pairs[Max(s)])
    <3>1. Max(s) \in 1 .. k
      <4> HIDE DEF k
      <4> QED
        BY <1>2, <2>1, Max_greatest
    <3> QED
      BY <3>1 DEF ExactAt, CandidateAt
  <2> DEFINE a == [s \in SUBSET (1 .. k) |->
                     IF s = {} THEN Nothing
                     ELSE IF pairs[Max(s)].entry.address = source
                          THEN Meet(f[s \ {Max(s)}], Candidate(pairs[Max(s)])) ELSE f[s \ {Max(s)}]]
             b == [s \in SUBSET (1 .. k) |->
                     IF s = {} THEN Nothing
                     ELSE IF Max(s) \in D THEN Meet(f[s \ {Max(s)}], val[Max(s)]) ELSE f[s \ {Max(s)}]]
  <2> HIDE DEF D, val, k, pairs
  <2>2. a = b
    BY <2>1
  <2>3. Eq(f) <=> f = a
    BY <1>2
  <2>4. IsMeetFold(f, k, D, val) <=> f = b
    BY DEF IsMeetFold
  <2> HIDE DEF a, b, Eq
  <2> QED
    BY <2>2, <2>3, <2>4
<1> HIDE DEF D, val, k, Eq, pairs
<1>5. \E f : Eq(f)
  BY <1>2, <1>3, <1>4, Meet_fold_exists
<1>6. Eq(it)
  BY <1>5
<1> HIDE DEF it
<1>7. Agreed(it[1 .. k], D, val)
  BY <1>2, <1>3, <1>4, <1>6, Meet_fold_agrees
<1> QED
  BY <1>1, <1>2, <1>7 DEF D, val

\* The indices of the LAN names behind the route, and the nodes they name.
RoutedAt(route, sections) ==
  {n \in 1 .. Len(Pairs(sections)) :
     LET pair == Pairs(sections)[n] IN
     /\ NodeOf(pair.of) # NoName
     /\ Covers(route, pair.entry.address)
     /\ IsLANName(pair.entry.name, NodeOf(pair.of))}

\* The node of each pair.
NodeAt(sections) ==
  [n \in 1 .. Len(Pairs(sections)) |-> [node |-> NodeOf(Pairs(sections)[n].of), host |-> NoName]]

\* RouteAttribution finds what the nodes at RoutedAt agree on.
LEMMA Route_agrees ==
  ASSUME NEW route, NEW sections, AreSections(sections)
  PROVE  Agreed(RouteAttribution(route, sections), RoutedAt(route, sections), NodeAt(sections))
<1> DEFINE pairs == Pairs(sections)
           k == Len(pairs)
           D == RoutedAt(route, sections)
           val == NodeAt(sections)
           Selects(n) == /\ NodeOf(pairs[n].of) # NoName
                         /\ Covers(route, pairs[n].entry.address)
                         /\ IsLANName(pairs[n].entry.name, NodeOf(pairs[n].of))
           Eq(f) == f = [s \in SUBSET DOMAIN pairs |->
                           IF s = {} THEN Nothing
                           ELSE IF Selects(Max(s))
                                THEN Meet(f[s \ {Max(s)}], [node |-> NodeOf(pairs[Max(s)].of), host |-> NoName]) ELSE f[s \ {Max(s)}]]
           it == CHOOSE f : Eq(f)
<1>1. RouteAttribution(route, sections) = it[DOMAIN pairs]
  BY Zenon DEF RouteAttribution, FoldLeft, MapThenFoldSet
<1>2. k \in Nat /\ DOMAIN pairs = 1 .. k
  <2>1. pairs \in Seq(PairsOf(sections))
    BY Pairs_type
  <2> HIDE DEF pairs
  <2> QED
    BY <2>1, LenProperties
<1>3. D \subseteq 1 .. k
  BY DEF RoutedAt
<1>4. ASSUME NEW f PROVE Eq(f) <=> IsMeetFold(f, k, D, val)
  <2>1. ASSUME NEW s \in SUBSET (1 .. k), s # {}
        PROVE  (Max(s) \in D <=> Selects(Max(s))) /\ val[Max(s)] = [node |-> NodeOf(pairs[Max(s)].of), host |-> NoName]
    <3>1. Max(s) \in 1 .. k
      <4> HIDE DEF k
      <4> QED
        BY <1>2, <2>1, Max_greatest
    <3> QED
      BY <3>1 DEF RoutedAt, NodeAt
  <2> DEFINE a == [s \in SUBSET (1 .. k) |->
                     IF s = {} THEN Nothing
                     ELSE IF Selects(Max(s))
                          THEN Meet(f[s \ {Max(s)}], [node |-> NodeOf(pairs[Max(s)].of), host |-> NoName]) ELSE f[s \ {Max(s)}]]
             b == [s \in SUBSET (1 .. k) |->
                     IF s = {} THEN Nothing
                     ELSE IF Max(s) \in D THEN Meet(f[s \ {Max(s)}], val[Max(s)]) ELSE f[s \ {Max(s)}]]
  <2> HIDE DEF D, val, k, pairs
  <2>2. a = b
    BY <2>1
  <2>3. Eq(f) <=> f = a
    BY <1>2
  <2>4. IsMeetFold(f, k, D, val) <=> f = b
    BY DEF IsMeetFold
  <2> HIDE DEF a, b, Eq
  <2> QED
    BY <2>2, <2>3, <2>4
<1> HIDE DEF D, val, k, Eq, pairs
<1>5. \E f : Eq(f)
  BY <1>2, <1>3, <1>4, Meet_fold_exists
<1>6. Eq(it)
  BY <1>5
<1> HIDE DEF it
<1>7. Agreed(it[1 .. k], D, val)
  BY <1>2, <1>3, <1>4, <1>6, Meet_fold_agrees
<1> QED
  BY <1>1, <1>2, <1>7 DEF D, val

\* The loop of longestRoute ends with one of the narrowest routes around the source.
IsLongest(best, source, routes) ==
  \/ best = <<>> /\ \A j \in 1 .. Len(routes) : ~Covers(routes[j], source)
  \/ \E i \in 1 .. Len(routes) :
       /\ best = <<routes[i]>> /\ Covers(routes[i], source)
       /\ \A j \in 1 .. Len(routes) : Covers(routes[j], source) => routes[j].bits <= routes[i].bits

\* LongestRoute finds one that no other is longer than.
LEMMA Longest_route ==
  ASSUME NEW source, NEW routes \in Seq([bits : Nat, net : Nat])
  PROVE  IsLongest(LongestRoute(source, routes), source, routes)
<1> DEFINE k == Len(routes)
           Better(best, i) == Covers(routes[i], source) /\ (best = <<>> \/ routes[i].bits > best[1].bits)
           E(best, i) == IF Better(best, i) THEN <<routes[i]>> ELSE best
           V == {<<>>} \cup {<<routes[i]>> : i \in 1 .. k}
           step == [a \in V \X (1 .. k) |-> E(a[1], a[2])]
           Eq(f) == f = [s \in SUBSET DOMAIN routes |->
                           IF s = {} THEN <<>> ELSE E(f[s \ {Max(s)}], Max(s))]
           it == CHOOSE f : Eq(f)
<1>1. LongestRoute(source, routes) = it[DOMAIN routes]
  BY Zenon DEF LongestRoute, FoldLeft, MapThenFoldSet
<1>2. k \in Nat /\ DOMAIN routes = 1 .. k /\ \A i \in 1 .. k : routes[i].bits \in Nat
  <2>1. k \in Nat /\ DOMAIN routes = 1 .. k
    BY LenProperties
  <2>2. \A i \in 1 .. k : routes[i] \in [bits : Nat, net : Nat]
    BY ElementOfSeq
  <2> QED
    BY <2>1, <2>2
<1>3. step \in [V \X (1 .. k) -> V]
  <2> SUFFICES ASSUME NEW v \in V, NEW i \in 1 .. k PROVE E(v, i) \in V
    BY Zenon
  <2> HIDE DEF Better
  <2> QED
    OBVIOUS
<1>4. PICK g : IsFold(g, V, <<>>, k, step)
  <2>1. <<>> \in V
    OBVIOUS
  <2> HIDE DEF step, V
  <2> QED
    BY <1>2, <1>3, <2>1, Fold_exists
<1>5. g \in [SUBSET (1 .. k) -> V] /\ g[{}] = <<>>
  BY <1>4 DEF IsFold
<1>6. ASSUME NEW s \in SUBSET (1 .. k), s # {}
      PROVE  g[s] = E(g[s \ {Max(s)}], Max(s))
  <2> HIDE DEF V, E, k
  <2>1. Max(s) \in 1 .. k
    BY <1>2, <1>6, Max_greatest
  <2>2. g[s \ {Max(s)}] \in V
    BY <1>5
  <2>3. g[s] = step[<<g[s \ {Max(s)}], Max(s)>>]
    <3> HIDE DEF step
    <3> QED
      BY <1>4, <1>6 DEF IsFold
  <2>4. <<g[s \ {Max(s)}], Max(s)>> \in V \X (1 .. k)
    BY <2>1, <2>2
  <2>5. step[<<g[s \ {Max(s)}], Max(s)>>] = E(g[s \ {Max(s)}], Max(s))
    BY <2>4
  <2> QED
    BY <2>3, <2>5
<1> HIDE DEF V, step, E, k
<1>7. Eq(g)
  <2>1. g = [s \in SUBSET (1 .. k) |-> g[s]]
    BY <1>5
  <2>2. \A s \in SUBSET (1 .. k) : g[s] = IF s = {} THEN <<>> ELSE E(g[s \ {Max(s)}], Max(s))
    BY <1>5, <1>6
  <2> QED
    BY <1>2, <2>1, <2>2, Zenon
<1>8. Eq(it)
  <2> HIDE DEF Eq
  <2> QED
    BY <1>7
<1> HIDE DEF it
<1>9. \A s \in SUBSET (1 .. k) : it[s] = IF s = {} THEN <<>> ELSE E(it[s \ {Max(s)}], Max(s))
  <2> DEFINE r == [s \in SUBSET (1 .. k) |-> IF s = {} THEN <<>> ELSE E(it[s \ {Max(s)}], Max(s))]
  <2>1. \A s \in SUBSET (1 .. k) : r[s] = IF s = {} THEN <<>> ELSE E(it[s \ {Max(s)}], Max(s))
    OBVIOUS
  <2>2. it = r
    BY <1>2, <1>8
  <2> HIDE DEF r
  <2> QED
    BY <2>1, <2>2
<1> DEFINE P(n) ==
             \/ it[1 .. n] = <<>> /\ \A j \in 1 .. n : ~Covers(routes[j], source)
             \/ \E i \in 1 .. n :
                  /\ it[1 .. n] = <<routes[i]>> /\ Covers(routes[i], source)
                  /\ \A j \in 1 .. n : Covers(routes[j], source) => routes[j].bits <= routes[i].bits
           T == {n \in 0 .. k : P(n)}
<1>10. 0 \in T
  <2>1. 1 .. 0 = {} /\ {} \in SUBSET (1 .. k) /\ 0 \in 0 .. k
    BY <1>2
  <2>2. it[1 .. 0] = <<>>
    BY <1>9, <2>1
  <2> QED
    BY <2>1, <2>2
<1>11. ASSUME NEW n \in 1 .. k, n - 1 \in T PROVE n \in T
  <2>1. 1 .. n \in SUBSET (1 .. k) /\ 1 .. n # {} /\ Max(1 .. n) = n /\ (1 .. n) \ {n} = 1 .. (n - 1) /\ n \in 0 .. k
    <3>1. n \in 0 .. k
      BY <1>2
    <3> QED
      BY <1>2, <3>1, Intervals
  <2>2. it[1 .. n] = E(it[1 .. (n - 1)], n)
    BY <1>9, <2>1
  <2>3. \A j \in 1 .. n : j \in 1 .. (n - 1) \/ j = n
    BY <1>2
  <2>4. routes[n].bits \in Nat /\ \A j \in 1 .. (n - 1) : routes[j].bits \in Nat /\ j \in 1 .. n
    BY <1>2
  <2>5. n \in 1 .. n
    BY <1>2
  <2>6. CASE it[1 .. (n - 1)] = <<>> /\ \A j \in 1 .. (n - 1) : ~Covers(routes[j], source)
    <3>1. CASE Covers(routes[n], source)
      <4>1. it[1 .. n] = <<routes[n]>>
        BY <2>2, <2>6, <3>1 DEF E
      <4>2. \A j \in 1 .. n : Covers(routes[j], source) => routes[j].bits <= routes[n].bits
        BY <2>3, <2>4, <2>6
      <4> QED
        BY <2>1, <2>5, <3>1, <4>1, <4>2
    <3>2. CASE ~Covers(routes[n], source)
      <4>1. it[1 .. n] = <<>>
        BY <2>2, <2>6, <3>2 DEF E
      <4> QED
        BY <2>1, <2>3, <2>6, <3>2, <4>1
    <3> QED
      BY <3>1, <3>2
  <2>7. CASE \E i \in 1 .. (n - 1) :
               /\ it[1 .. (n - 1)] = <<routes[i]>> /\ Covers(routes[i], source)
               /\ \A j \in 1 .. (n - 1) : Covers(routes[j], source) => routes[j].bits <= routes[i].bits
    <3>1. PICK i \in 1 .. (n - 1) :
               /\ it[1 .. (n - 1)] = <<routes[i]>> /\ Covers(routes[i], source)
               /\ \A j \in 1 .. (n - 1) : Covers(routes[j], source) => routes[j].bits <= routes[i].bits
      BY <2>7
    <3>2. it[1 .. (n - 1)] # <<>> /\ it[1 .. (n - 1)][1] = routes[i]
      BY <3>1
    <3>3. CASE Covers(routes[n], source) /\ routes[n].bits > routes[i].bits
      <4>1. it[1 .. n] = <<routes[n]>>
        BY <2>2, <3>2, <3>3 DEF E
      <4>2. \A j \in 1 .. n : Covers(routes[j], source) => routes[j].bits <= routes[n].bits
        <5> SUFFICES ASSUME NEW j \in 1 .. n, Covers(routes[j], source) PROVE routes[j].bits <= routes[n].bits
          OBVIOUS
        <5>1. CASE j = n
          BY <2>4, <5>1
        <5>2. CASE j \in 1 .. (n - 1)
          <6>1. routes[j].bits <= routes[i].bits /\ routes[j].bits \in Nat /\ routes[i].bits \in Nat /\ routes[n].bits \in Nat
            BY <2>4, <3>1, <5>2
          <6>2. routes[n].bits > routes[i].bits
            BY <3>3
          <6> DEFINE x == routes[j].bits
                     y == routes[i].bits
                     z == routes[n].bits
          <6>3. x <= y /\ z > y /\ x \in Nat /\ y \in Nat /\ z \in Nat
            BY <6>1, <6>2
          <6> HIDE DEF x, y, z
          <6>4. x <= z
            BY <6>3
          <6> QED
            BY <6>4 DEF x, z
        <5> QED
          BY <2>3, <5>1, <5>2
      <4> QED
        BY <2>1, <2>5, <3>3, <4>1, <4>2
    <3>4. CASE ~(Covers(routes[n], source) /\ routes[n].bits > routes[i].bits)
      <4>1. it[1 .. n] = <<routes[i]>>
        BY <2>2, <3>1, <3>2, <3>4 DEF E
      <4>2. \A j \in 1 .. n : Covers(routes[j], source) => routes[j].bits <= routes[i].bits
        <5> SUFFICES ASSUME NEW j \in 1 .. n, Covers(routes[j], source) PROVE routes[j].bits <= routes[i].bits
          OBVIOUS
        <5>1. CASE j = n
          <6>1. ~(routes[n].bits > routes[i].bits) /\ routes[i].bits \in Nat /\ routes[n].bits \in Nat
            BY <2>4, <3>1, <3>4, <5>1
          <6> DEFINE x == routes[n].bits
                     y == routes[i].bits
          <6>2. ~(x > y) /\ x \in Nat /\ y \in Nat
            BY <6>1
          <6> HIDE DEF x, y
          <6>3. x <= y
            BY <6>2
          <6>4. routes[n].bits <= routes[i].bits
            BY <6>3 DEF x, y
          <6> QED
            BY <5>1, <6>4, Zenon
        <5>2. CASE j \in 1 .. (n - 1)
          BY <3>1, <5>2
        <5> QED
          BY <2>3, <5>1, <5>2
      <4> QED
        BY <2>1, <2>4, <3>1, <4>1, <4>2
    <3> QED
      BY <3>3, <3>4
  <2> QED
    BY <1>11, <2>6, <2>7
<1>12. k \in T
  <2>1. k \in 0 .. k
    BY <1>2
  <2> HIDE DEF T
  <2> QED
    BY <1>2, <1>10, <1>11, <2>1, Count_up
<1>13. P(k)
  BY <1>12
<1> QED
  BY <1>1, <1>2, <1>13 DEF IsLongest, k

\* The first valid name of the section's originator.
IsFirst(found, section) ==
  LET es == section.entries
      Test(i) == es[i].address = section.originator /\ IsNodeName(es[i].name) IN
  \/ found = {} /\ \A j \in 1 .. Len(es) : ~Test(j)
  \/ \E i \in 1 .. Len(es) :
       /\ found = {Lower(es[i].name)} /\ Test(i)
       /\ \A j \in 1 .. Len(es) : Test(j) => i <= j

\* The loop of NodesFromHostRecords.
FirstListed(section) ==
  FoldLeft(LAMBDA found, e :
             IF found = {} /\ e.address = section.originator /\ IsNodeName(e.name)
             THEN {Lower(e.name)} ELSE found,
           {}, section.entries)

\* The loop of NodesFromHostRecords stops at the first valid name.
LEMMA First_listed ==
  ASSUME NEW section, IsSequence(section.entries)
  PROVE  IsFirst(FirstListed(section), section)
<1> DEFINE es == section.entries
           k == Len(es)
           Test(i) == es[i].address = section.originator /\ IsNodeName(es[i].name)
           E(found, i) == IF found = {} /\ es[i].address = section.originator /\ IsNodeName(es[i].name)
                          THEN {Lower(es[i].name)} ELSE found
           V == {{}} \cup {{Lower(es[i].name)} : i \in 1 .. k}
           step == [a \in V \X (1 .. k) |-> E(a[1], a[2])]
           Eq(f) == f = [s \in SUBSET DOMAIN es |->
                           IF s = {} THEN {} ELSE E(f[s \ {Max(s)}], Max(s))]
           it == CHOOSE f : Eq(f)
<1>1. FirstListed(section) = it[DOMAIN es]
  BY Zenon DEF FirstListed, FoldLeft, MapThenFoldSet
<1>2. k \in Nat /\ DOMAIN es = 1 .. k
  <2>1. es \in Seq(Range(es))
    BY DEF IsSequence
  <2> HIDE DEF es
  <2> QED
    BY <2>1, LenProperties
<1>3. step \in [V \X (1 .. k) -> V]
  <2> SUFFICES ASSUME NEW v \in V, NEW i \in 1 .. k PROVE E(v, i) \in V
    BY Zenon
  <2>1. E(v, i) = v \/ E(v, i) = {Lower(es[i].name)}
    BY Zenon
  <2> HIDE DEF E, es, k
  <2> QED
    BY <2>1
<1>4. PICK g : IsFold(g, V, {}, k, step)
  <2>1. {} \in V
    OBVIOUS
  <2> HIDE DEF step, V
  <2> QED
    BY <1>2, <1>3, <2>1, Fold_exists
<1>5. g \in [SUBSET (1 .. k) -> V] /\ g[{}] = {}
  BY <1>4 DEF IsFold
<1>6. ASSUME NEW s \in SUBSET (1 .. k), s # {}
      PROVE  g[s] = E(g[s \ {Max(s)}], Max(s))
  <2> HIDE DEF V, E, k
  <2>1. Max(s) \in 1 .. k
    BY <1>2, <1>6, Max_greatest
  <2>2. g[s \ {Max(s)}] \in V
    BY <1>5
  <2>3. g[s] = step[<<g[s \ {Max(s)}], Max(s)>>]
    <3> HIDE DEF step
    <3> QED
      BY <1>4, <1>6 DEF IsFold
  <2>4. <<g[s \ {Max(s)}], Max(s)>> \in V \X (1 .. k)
    BY <2>1, <2>2
  <2>5. step[<<g[s \ {Max(s)}], Max(s)>>] = E(g[s \ {Max(s)}], Max(s))
    BY <2>4
  <2> QED
    BY <2>3, <2>5
<1> HIDE DEF V, step, E, k, es
<1>7. Eq(g)
  <2>1. g = [s \in SUBSET (1 .. k) |-> g[s]]
    BY <1>5
  <2>2. \A s \in SUBSET (1 .. k) : g[s] = IF s = {} THEN {} ELSE E(g[s \ {Max(s)}], Max(s))
    BY <1>5, <1>6
  <2> QED
    BY <1>2, <2>1, <2>2, Zenon
<1>8. Eq(it)
  <2> HIDE DEF Eq
  <2> QED
    BY <1>7
<1> HIDE DEF it
<1>9. \A s \in SUBSET (1 .. k) : it[s] = IF s = {} THEN {} ELSE E(it[s \ {Max(s)}], Max(s))
  <2> DEFINE r == [s \in SUBSET (1 .. k) |-> IF s = {} THEN {} ELSE E(it[s \ {Max(s)}], Max(s))]
  <2>1. \A s \in SUBSET (1 .. k) : r[s] = IF s = {} THEN {} ELSE E(it[s \ {Max(s)}], Max(s))
    OBVIOUS
  <2>2. it = r
    BY <1>2, <1>8
  <2> HIDE DEF r
  <2> QED
    BY <2>1, <2>2
<1> DEFINE P(n) ==
             \/ it[1 .. n] = {} /\ \A j \in 1 .. n : ~Test(j)
             \/ \E i \in 1 .. n :
                  /\ it[1 .. n] = {Lower(es[i].name)} /\ Test(i)
                  /\ \A j \in 1 .. n : Test(j) => i <= j
           T == {n \in 0 .. k : P(n)}
<1>10. 0 \in T
  <2>1. 1 .. 0 = {} /\ {} \in SUBSET (1 .. k) /\ 0 \in 0 .. k
    BY <1>2
  <2>2. it[1 .. 0] = {}
    BY <1>9, <2>1
  <2> QED
    BY <2>1, <2>2
<1>11. ASSUME NEW n \in 1 .. k, n - 1 \in T PROVE n \in T
  <2>1. 1 .. n \in SUBSET (1 .. k) /\ 1 .. n # {} /\ Max(1 .. n) = n /\ (1 .. n) \ {n} = 1 .. (n - 1) /\ n \in 0 .. k
    <3>1. n \in 0 .. k
      BY <1>2
    <3> QED
      BY <1>2, <3>1, Intervals
  <2>2. it[1 .. n] = E(it[1 .. (n - 1)], n)
    BY <1>9, <2>1
  <2>3. \A j \in 1 .. n : j \in 1 .. (n - 1) \/ j = n
    BY <1>2
  <2>4. n \in Nat /\ n <= n /\ n \in 1 .. n /\ \A j \in 1 .. (n - 1) : j \in 1 .. n /\ j <= n
    BY <1>2
  <2>5. E(it[1 .. (n - 1)], n) = IF it[1 .. (n - 1)] = {} /\ Test(n) THEN {Lower(es[n].name)} ELSE it[1 .. (n - 1)]
    BY Zenon DEF E
  <2> HIDE DEF Test
  <2>6. CASE it[1 .. (n - 1)] = {} /\ \A j \in 1 .. (n - 1) : ~Test(j)
    <3>1. CASE Test(n)
      <4>1. it[1 .. n] = {Lower(es[n].name)}
        BY <2>2, <2>5, <2>6, <3>1
      <4>2. \A j \in 1 .. n : Test(j) => n <= j
        BY <2>3, <2>4, <2>6
      <4> QED
        BY <2>1, <2>4, <3>1, <4>1, <4>2
    <3>2. CASE ~Test(n)
      <4>1. it[1 .. n] = {}
        BY <2>2, <2>5, <2>6, <3>2
      <4> QED
        BY <2>1, <2>3, <2>6, <3>2, <4>1
    <3> QED
      BY <3>1, <3>2
  <2>7. CASE \E i \in 1 .. (n - 1) :
               /\ it[1 .. (n - 1)] = {Lower(es[i].name)} /\ Test(i)
               /\ \A j \in 1 .. (n - 1) : Test(j) => i <= j
    <3>1. PICK i \in 1 .. (n - 1) :
               /\ it[1 .. (n - 1)] = {Lower(es[i].name)} /\ Test(i)
               /\ \A j \in 1 .. (n - 1) : Test(j) => i <= j
      BY <2>7
    <3>2. it[1 .. n] = {Lower(es[i].name)}
      BY <2>2, <2>5, <3>1
    <3>3. \A j \in 1 .. n : Test(j) => i <= j
      BY <2>3, <2>4, <3>1
    <3> QED
      BY <2>1, <2>4, <3>1, <3>2, <3>3
  <2> QED
    BY <1>11, <2>6, <2>7
<1>12. k \in T
  <2>1. k \in 0 .. k
    BY <1>2
  <2> HIDE DEF T
  <2> QED
    BY <1>2, <1>10, <1>11, <2>1, Count_up
<1>13. P(k)
  BY <1>12
<1> QED
  BY <1>1, <1>2, <1>13 DEF IsFirst, k, es

\* Both loops choose the same name, one of them in lower case.
LEMMA Same_choice ==
  ASSUME NEW section, IsSequence(section.entries), NodeOf(section) # NoName
  PROVE  Lower(NodeOf(section)) \in FirstListed(section)
<1> DEFINE es == section.entries
           k == Len(es)
           Test(i) == es[i].address = section.originator /\ IsNodeName(es[i].name)
           I == {i \in 1 .. k : Test(i)}
           m == IF I # {} THEN Min(I) ELSE 0
<1>1. NodeOf(section) = IF m = 0 THEN NoName ELSE es[m].name
  BY Zenon DEF NodeOf, SelectInSeq
<1>2. k \in Nat
  <2>1. es \in Seq(Range(es))
    BY DEF IsSequence
  <2> HIDE DEF es
  <2> QED
    BY <2>1, LenProperties
<1>3. I # {} /\ m = Min(I) /\ NodeOf(section) = es[m].name
  BY <1>1
<1>4. m \in I /\ \A i \in I : m <= i
  <2>1. I \subseteq Nat
    BY <1>2
  <2> HIDE DEF I
  <2> QED
    BY <1>3, <2>1, Min_least
<1>5. \/ FirstListed(section) = {} /\ \A j \in 1 .. k : ~Test(j)
      \/ \E i \in 1 .. k :
           /\ FirstListed(section) = {Lower(es[i].name)} /\ Test(i)
           /\ \A j \in 1 .. k : Test(j) => i <= j
  BY First_listed DEF IsFirst
<1> HIDE DEF Test, m, k, es
<1>6. PICK i \in 1 .. k : /\ FirstListed(section) = {Lower(es[i].name)} /\ Test(i)
                          /\ \A j \in 1 .. k : Test(j) => i <= j
  BY <1>3, <1>5
<1>7. i <= m /\ m <= i /\ i \in 1 .. k /\ m \in 1 .. k
  BY <1>4, <1>6
<1>8. i = m
  BY <1>2, <1>7
<1> QED
  BY <1>3, <1>6, <1>8

\* The answers that a loop meets.
AnswersAt(D, val) == {val[i] : i \in D}

\* The result says what the answers do.
Says(result, A) ==
  /\ result.state = "none" <=> A = {}
  /\ A = {} => result = Nothing
  /\ A # {} /\ Cardinality(A) = 1 => result = Found(CHOOSE a \in A : TRUE)
  /\ A # {} /\ Cardinality(A) # 1 => result = Ambiguous

\* What is agreed on, as a property of the set of answers.
LEMMA Agreed_answers ==
  ASSUME NEW k \in Nat, NEW D \in SUBSET (1 .. k), NEW val, NEW result, Agreed(result, D, val)
  PROVE  Says(result, AnswersAt(D, val))
<1> DEFINE A == AnswersAt(D, val)
<1>0. A = {val[i] : i \in D}
  BY DEF AnswersAt
<1> HIDE DEF A
<1> SUFFICES Says(result, A)
  BY DEF A
<1>1. IsFiniteSet(A)
  <2> DEFINE f == [i \in D |-> val[i]]
  <2>1. f \in Surjection(D, A)
    BY <1>0 DEF Surjection
  <2>2. IsFiniteSet(1 .. k)
    BY FS_Interval
  <2>3. IsFiniteSet(D)
    BY <2>2, FS_Subset
  <2> HIDE DEF f
  <2> QED
    BY <2>1, <2>3, FS_Surjection
<1>2. Cardinality(A) = 1 <=> \E x : A = {x}
  BY <1>1, FS_Singleton
<1>3. A = {} <=> D = {}
  BY <1>0
<1>4. Nothing.state = "none" /\ Ambiguous.state = "ambiguous" /\ \A v : Found(v).state = "found"
  BY DEF Nothing, Ambiguous, Found
<1>5. CASE D = {} /\ result = Nothing
  BY <1>3, <1>4, <1>5 DEF Says
<1>6. CASE D # {} /\ \E v : (\A i \in D : val[i] = v) /\ result = Found(v)
  <2>1. PICK v : (\A i \in D : val[i] = v) /\ result = Found(v)
    BY <1>6
  <2>2. A = {v}
    BY <1>0, <1>6, <2>1
  <2>3. (CHOOSE a \in A : TRUE) = v
    BY <2>2
  <2>4. Cardinality(A) = 1
    BY <1>2, <2>2
  <2>5. result.state # "none" /\ A # {}
    BY <1>4, <2>1, <2>2
  <2> QED
    BY <2>1, <2>3, <2>4, <2>5 DEF Says
<1>7. CASE (\E i, j \in D : val[i] # val[j]) /\ result = Ambiguous
  <2>1. PICK i \in D, j \in D : val[i] # val[j]
    BY <1>7
  <2>2. val[i] \in A /\ val[j] \in A
    BY <1>0
  <2>3. Cardinality(A) # 1
    BY <1>2, <2>1, <2>2
  <2> QED
    BY <1>4, <1>7, <2>2, <2>3 DEF Says
<1> QED
  BY <1>5, <1>6, <1>7 DEF Agreed

\* Every pair is of one of the sections.
LEMMA Pairs_domain ==
  ASSUME NEW sections, AreSections(sections)
  PROVE  /\ Len(Pairs(sections)) \in Nat /\ DOMAIN Pairs(sections) = 1 .. Len(Pairs(sections))
         /\ \A n \in 1 .. Len(Pairs(sections)) : Pairs(sections)[n].of \in Range(sections)
<1> DEFINE pairs == Pairs(sections)
<1>1. pairs \in Seq(PairsOf(sections))
  BY Pairs_type
<1> HIDE DEF pairs
<1>2. Len(pairs) \in Nat /\ DOMAIN pairs = 1 .. Len(pairs) /\ \A n \in 1 .. Len(pairs) : pairs[n] \in PairsOf(sections)
  BY <1>1, LenProperties, ElementOfSeq
<1>3. \A p \in PairsOf(sections) : p.of \in Range(sections)
  BY DEF PairsOf
<1> QED
  BY <1>2, <1>3 DEF pairs

\* The records for the source itself.
LEMMA Exact_answers ==
  ASSUME NEW source, NEW sections, AreSections(sections)
  PROVE  Exact(source, sections) = AnswersAt(ExactAt(source, sections), CandidateAt(sections))
<1> DEFINE pairs == Pairs(sections)
<1>1. Range(pairs) = {pairs[i] : i \in 1 .. Len(pairs)}
  BY Pairs_domain DEF Range
<1>2. Exact(source, sections) = {Candidate(pair) : pair \in {p \in Range(pairs) : p.entry.address = source}}
  BY DEF Exact
<1>3. \A i \in ExactAt(source, sections) : CandidateAt(sections)[i] = Candidate(pairs[i])
  BY DEF CandidateAt, ExactAt
<1>4. ExactAt(source, sections) = {i \in 1 .. Len(pairs) : pairs[i].entry.address = source}
  BY DEF ExactAt
<1> HIDE DEF pairs
<1> QED
  BY <1>1, <1>2, <1>3, <1>4 DEF AnswersAt

\* The network of a route around the source depends on its length only.
LEMMA Same_network ==
  ASSUME NEW source, NEW r, NEW q, Covers(r, source), Covers(q, source), r.bits = q.bits, NEW address
  PROVE  Covers(r, address) <=> Covers(q, address)
BY DEF Covers

\* A route around the source that none is longer than.
Narrowest(i, routes, source) ==
  /\ Covers(routes[i], source)
  /\ \A j \in 1 .. Len(routes) : Covers(routes[j], source) => routes[j].bits <= routes[i].bits

\* The nodes behind the narrowest route.
LEMMA Routed_answers ==
  ASSUME NEW source, NEW sections, AreSections(sections), NEW routes \in Seq([bits : Nat, net : Nat]),
         NEW i \in 1 .. Len(routes), Narrowest(i, routes, source)
  PROVE  Routed(source, routes, sections) = AnswersAt(RoutedAt(routes[i], sections), NodeAt(sections))
<1> DEFINE pairs == Pairs(sections)
           route == routes[i]
           around == {r \in Range(routes) : Covers(r, source)}
           Behind(p) == \E r \in around : Covers(r, p.entry.address) /\ \A other \in around : other.bits <= r.bits
           Named(p) == NodeOf(p.of) # NoName /\ IsLANName(p.entry.name, NodeOf(p.of))
<1>1. Range(pairs) = {pairs[n] : n \in 1 .. Len(pairs)}
  BY Pairs_domain DEF Range
<1>2. Range(routes) = {routes[j] : j \in 1 .. Len(routes)}
  BY RangeEquality
<1>3. \A j \in 1 .. Len(routes) : routes[j].bits \in Nat
  <2>1. \A j \in 1 .. Len(routes) : routes[j] \in [bits : Nat, net : Nat]
    BY ElementOfSeq
  <2> QED
    BY <2>1
<1>4. route \in around /\ \A other \in around : other.bits <= route.bits /\ other.bits \in Nat
  BY <1>2, <1>3 DEF Narrowest
<1>5. ASSUME NEW p PROVE Behind(p) <=> Covers(route, p.entry.address)
  <2>1. ASSUME Covers(route, p.entry.address) PROVE Behind(p)
    BY <1>4, <2>1
  <2>2. ASSUME Behind(p) PROVE Covers(route, p.entry.address)
    <3>1. PICK r \in around : Covers(r, p.entry.address) /\ \A other \in around : other.bits <= r.bits
      BY <2>2
    <3>2. r.bits <= route.bits /\ route.bits <= r.bits /\ r.bits \in Nat /\ route.bits \in Nat
      BY <1>4, <3>1
    <3>3. r.bits = route.bits
      BY <3>2
    <3>4. Covers(r, source) /\ Covers(route, source)
      BY <1>4
    <3> QED
      BY <3>1, <3>3, <3>4, Same_network
  <2> QED
    BY <2>1, <2>2
<1>6. Routed(source, routes, sections) =
        {[node |-> NodeOf(p.of), host |-> NoName] : p \in {q \in Range(pairs) : Named(q) /\ Behind(q)}}
  BY DEF Routed
<1>7. RoutedAt(route, sections) = {n \in 1 .. Len(pairs) : Named(pairs[n]) /\ Covers(route, pairs[n].entry.address)}
  BY DEF RoutedAt
<1>8. \A n \in RoutedAt(route, sections) : NodeAt(sections)[n] = [node |-> NodeOf(pairs[n].of), host |-> NoName]
  BY <1>7 DEF NodeAt
<1> HIDE DEF pairs, Behind, Named, route
<1>9. {q \in Range(pairs) : Named(q) /\ Behind(q)} = {pairs[n] : n \in RoutedAt(route, sections)}
  BY <1>1, <1>5, <1>7
<1>10. {[node |-> NodeOf(p.of), host |-> NoName] : p \in {pairs[n] : n \in RoutedAt(route, sections)}}
         = {[node |-> NodeOf(pairs[n].of), host |-> NoName] : n \in RoutedAt(route, sections)}
  OBVIOUS
<1>11. {[node |-> NodeOf(pairs[n].of), host |-> NoName] : n \in RoutedAt(route, sections)}
         = {NodeAt(sections)[n] : n \in RoutedAt(route, sections)}
  BY <1>8
<1> QED
  BY <1>6, <1>9, <1>10, <1>11 DEF route, AnswersAt

\* What Resolve computes: what the records for the source agree on, or those
\* behind its route.
IsAgreed(resolved, answers, sections) ==
  \/ resolved = Nothing /\ answers = {}
  \/ \E D \in SUBSET (1 .. Len(Pairs(sections))) :
       \E val \in {CandidateAt(sections), NodeAt(sections)} :
         Agreed(resolved, D, val) /\ answers = AnswersAt(D, val)

\* Resolve takes the records for the source, or those behind its narrowest route.
LEMMA Resolve_agrees ==
  ASSUME NEW source, NEW sections, AreSections(sections), NEW routes \in Seq([bits : Nat, net : Nat])
  PROVE  IsAgreed(Resolve(source, routes, sections), Supported(source, routes, sections), sections)
<1> DEFINE k == Len(Pairs(sections))
           exact == ExactHostAttribution(source, sections)
           D == ExactAt(source, sections)
           val == CandidateAt(sections)
           best == LongestRoute(source, routes)
<1>1. k \in Nat
  BY Pairs_domain
<1>2. Agreed(exact, D, val) /\ D \in SUBSET (1 .. k) /\ Exact(source, sections) = AnswersAt(D, val)
  BY Exact_agrees, Exact_answers DEF ExactAt
<1>3. exact.state = "none" <=> Exact(source, sections) = {}
  <2> DEFINE A == Exact(source, sections)
  <2>1. Agreed(exact, D, val) /\ D \in SUBSET (1 .. k) /\ A = AnswersAt(D, val)
    BY <1>2
  <2> HIDE DEF exact, D, val, k, A
  <2>2. exact.state = "none" <=> A = {}
    BY <1>1, <2>1, Agreed_answers DEF Says
  <2> QED
    BY <2>2 DEF A
<1>4. CASE Exact(source, sections) # {}
  <2>1. Resolve(source, routes, sections) = exact
    BY <1>3, <1>4 DEF Resolve
  <2>2. Supported(source, routes, sections) = Exact(source, sections)
    BY <1>4 DEF Supported
  <2> HIDE DEF exact, D, k
  <2> QED
    BY <1>2, <2>1, <2>2 DEF k, IsAgreed
<1>5. CASE Exact(source, sections) = {}
  <2>1. Supported(source, routes, sections) = Routed(source, routes, sections)
    BY <1>5 DEF Supported
  <2>2. Resolve(source, routes, sections) = IF best = <<>> THEN Nothing ELSE RouteAttribution(best[1], sections)
    BY <1>3, <1>5 DEF Resolve
  <2>3. CASE best = <<>> /\ \A j \in 1 .. Len(routes) : ~Covers(routes[j], source)
    <3>1. {r \in Range(routes) : Covers(r, source)} = {}
      BY <2>3, RangeEquality
    <3>2. Routed(source, routes, sections) = {}
      BY <3>1 DEF Routed
    <3> QED
      BY <2>1, <2>2, <2>3, <3>2 DEF IsAgreed
  <2>4. CASE \E i \in 1 .. Len(routes) :
               /\ best = <<routes[i]>> /\ Covers(routes[i], source)
               /\ \A j \in 1 .. Len(routes) : Covers(routes[j], source) => routes[j].bits <= routes[i].bits
    <3>1. PICK i \in 1 .. Len(routes) :
               /\ best = <<routes[i]>> /\ Covers(routes[i], source)
               /\ \A j \in 1 .. Len(routes) : Covers(routes[j], source) => routes[j].bits <= routes[i].bits
      BY <2>4
    <3>2. best # <<>> /\ best[1] = routes[i]
      BY <3>1
    <3>3. Resolve(source, routes, sections) = RouteAttribution(routes[i], sections)
      BY <2>2, <3>2
    <3>4. Agreed(RouteAttribution(routes[i], sections), RoutedAt(routes[i], sections), NodeAt(sections))
      BY Route_agrees
    <3>5. Routed(source, routes, sections) = AnswersAt(RoutedAt(routes[i], sections), NodeAt(sections))
      <4>1. Narrowest(i, routes, source)
        BY <3>1 DEF Narrowest
      <4> QED
        BY <4>1, Routed_answers
    <3>6. RoutedAt(routes[i], sections) \in SUBSET (1 .. Len(Pairs(sections)))
      BY DEF RoutedAt
    <3> QED
      BY <2>1, <3>3, <3>4, <3>5, <3>6 DEF IsAgreed
  <2> QED
    BY <2>3, <2>4, Longest_route DEF IsLongest
<1> QED
  BY <1>4, <1>5

\* No answer is a guess.
LEMMA Never_guesses ==
  ASSUME NEW source, NEW sections, AreSections(sections), NEW routes \in Seq([bits : Nat, net : Nat])
  PROVE  NeverGuesses(source, routes, sections)
<1> DEFINE answers == Supported(source, routes, sections)
           resolved == Resolve(source, routes, sections)
<1>1. CASE resolved = Nothing /\ answers = {}
  BY <1>1 DEF NeverGuesses
<1>2. CASE \E D \in SUBSET (1 .. Len(Pairs(sections))) :
             \E val \in {CandidateAt(sections), NodeAt(sections)} :
               Agreed(resolved, D, val) /\ answers = AnswersAt(D, val)
  <2>1. PICK D \in SUBSET (1 .. Len(Pairs(sections))), val \in {CandidateAt(sections), NodeAt(sections)} :
          Agreed(resolved, D, val) /\ answers = AnswersAt(D, val)
    BY <1>2
  <2>2. Len(Pairs(sections)) \in Nat
    BY Pairs_domain
  <2> HIDE DEF answers, resolved
  <2>3. /\ answers = {} => resolved = Nothing
        /\ answers # {} /\ Cardinality(answers) = 1 => resolved = Found(CHOOSE a \in answers : TRUE)
        /\ answers # {} /\ Cardinality(answers) # 1 => resolved = Ambiguous
    <3> DEFINE k == Len(Pairs(sections))
    <3>1. k \in Nat /\ D \in SUBSET (1 .. k) /\ Agreed(resolved, D, val) /\ answers = AnswersAt(D, val)
      BY <2>1, <2>2
    <3> HIDE DEF k
    <3>2. Says(resolved, answers)
      BY <3>1, Agreed_answers
    <3> QED
      BY <3>2 DEF Says
  <2> QED
    BY <2>3 DEF NeverGuesses, answers, resolved
<1>3. IsAgreed(resolved, answers, sections)
  BY Resolve_agrees
<1> HIDE DEF answers, resolved
<1> QED
  BY <1>1, <1>2, <1>3 DEF IsAgreed

\* The node that is named is listed, in lower case.
LEMMA Names_listed ==
  ASSUME NEW source, NEW sections, AreSections(sections), NEW routes \in Seq([bits : Nat, net : Nat])
  PROVE  NamesListedNodes(source, routes, sections)
<1> DEFINE resolved == Resolve(source, routes, sections)
           k == Len(Pairs(sections))
<1> SUFFICES ASSUME resolved.value.node # NoName PROVE Lower(resolved.value.node) \in ListedNodes(sections)
  BY DEF NamesListedNodes
<1>1. Nothing.value.node = NoName /\ Ambiguous.value.node = NoName /\ \A v : Found(v).value = v
  BY DEF Nothing, Ambiguous, Found, Nobody
<1>2. PICK D \in SUBSET (1 .. k), val \in {CandidateAt(sections), NodeAt(sections)} : Agreed(resolved, D, val)
  <2> DEFINE answers == Supported(source, routes, sections)
  <2>1. IsAgreed(resolved, answers, sections)
    BY Resolve_agrees
  <2> HIDE DEF answers, resolved
  <2> QED
    BY <1>1, <2>1 DEF IsAgreed
<1>3. PICK n \in 1 .. k : resolved = Found(val[n])
  <2> HIDE DEF resolved, k
  <2> QED
    BY <1>1, <1>2 DEF Agreed
<1>4. val[n].node = NodeOf(Pairs(sections)[n].of)
  <2> HIDE DEF resolved
  <2>1. CandidateAt(sections)[n].node = NodeOf(Pairs(sections)[n].of)
    BY DEF CandidateAt, Candidate
  <2>2. NodeAt(sections)[n].node = NodeOf(Pairs(sections)[n].of)
    BY DEF NodeAt
  <2>3. val = CandidateAt(sections) \/ val = NodeAt(sections)
    BY <1>2
  <2> QED
    BY <2>1, <2>2, <2>3
<1> DEFINE section == Pairs(sections)[n].of
<1>5. section \in Range(sections)
  BY Pairs_domain
<1>6. resolved.value.node = NodeOf(section)
  BY <1>1, <1>3, <1>4
<1> HIDE DEF section, resolved
<1>7. IsSequence(section.entries)
  BY <1>5 DEF AreSections, Range
<1>8. Lower(NodeOf(section)) \in FirstListed(section)
  BY <1>6, <1>7, Same_choice
<1>9. ListedNodes(sections) = UNION {FirstListed(s) : s \in Range(sections)}
  BY Zenon DEF ListedNodes, FirstListed
<1> QED
  BY <1>5, <1>6, <1>8, <1>9

\* The sections of a traced input.
LEMMA Records_are_sections ==
  ASSUME NEW sections \in Records
  PROVE  AreSections(sections)
BY RecordAssumption DEF AreSections

\* What the audit log says of the source is what the records agree on, and a
\* node of the list, for every host record, route and order of them (Resolve,
\* NodesFromHostRecords).
THEOREM SourcesAlwaysTrue == Spec => []SourcesAreTrue
<1>1. InputInv => SourcesAreTrue
  <2> SUFFICES ASSUME InputInv, input.of = "source"
               PROVE  /\ NeverGuesses(Source, input.routes, input.sections)
                      /\ NamesListedNodes(Source, input.routes, input.sections)
    BY DEF SourcesAreTrue, SourcesNeverGuessed, SourcesAreListed
  <2>1. input \in Traced
    BY DEF InputInv, Sized, Browsed
  <2>2. AreSections(input.sections) /\ input.routes \in Seq([bits : Nat, net : Nat])
    BY <2>1, RecordAssumption, Records_are_sections DEF Traced
  <2> QED
    BY <2>2, Never_guesses, Names_listed
<1> QED
  BY <1>1, Input_always, PTL

\* Whatever records, routes and leases say, a host is named only with its node.
LEMMA Never_blocks ==
  ASSUME NEW identity, NEW source, NEW routes, NEW sections, NEW leases
  PROVE  NeverBlocks(identity, source, routes, sections, leases)
<1> DEFINE found == SourceAttribution(Resolve(source, routes, sections))
           audit == AuditOf(identity, source, routes, sections, leases)
<1>1. found.host # NoName => found.node # NoName
  BY DEF SourceAttribution, Nobody
<1>2. \/ audit = found
      \/ \E host : audit = [node |-> found.node, host |-> host] /\ found.node # NoName
  BY DEF AuditOf
<1>3. audit.host # NoName => audit.node # NoName
  BY <1>1, <1>2
<1> QED
  BY <1>3 DEF NeverBlocks, AuditAccepted

\* The attribution of a change never makes the daemon refuse it, for any host
\* records, routes and leases (sourceAttribution, mutationAuditFromContext and
\* validateMutationAudit).
THEOREM AttributionNeverBlocks == Spec => []SourcesNeverBlock
<1>1. SourcesNeverBlock
  BY Never_blocks DEF SourcesNeverBlock
<1> QED
  BY <1>1, PTL

-----------------------------------------------------------------------------
(* What a listing shows. *)

\* A total order of a set, as the pairs of its elements.
IsOrder(L, S) ==
  /\ \A a, b \in S : <<a, b>> \in L \/ <<b, a>> \in L
  /\ \A a, b \in S : <<a, b>> \in L /\ <<b, a>> \in L => a = b
  /\ \A a, b, c \in S : <<a, b>> \in L /\ <<b, c>> \in L => <<a, c>> \in L

\* The sequences of a set's elements in which no two stand the wrong way round.
Orders(S, L) == {s \in SetToSeqs(S) : \A i, j \in DOMAIN s : i < j => <<s[i], s[j]>> \in L}

\* The elements that do not come after a.
UpTo(a, S, L) == {b \in S : <<b, a>> \in L}

\* The place of each element.
Place(S, L) == [a \in S |-> Cardinality(UpTo(a, S, L))]

\* Elements have different places, and an earlier one has the smaller number.
LEMMA Place_grows ==
  ASSUME NEW S, NEW L, IsOrder(L, S), IsFiniteSet(S)
  PROVE  /\ Place(S, L) \in [S -> 1 .. Cardinality(S)]
         /\ \A a, b \in S : <<a, b>> \in L /\ a # b => Place(S, L)[a] < Place(S, L)[b]
<1>1. ASSUME NEW a \in S
      PROVE  /\ IsFiniteSet(UpTo(a, S, L)) /\ Cardinality(UpTo(a, S, L)) \in 1 .. Cardinality(S)
  <2>1. UpTo(a, S, L) \in SUBSET S /\ a \in UpTo(a, S, L)
    BY DEF UpTo, IsOrder
  <2>2. IsFiniteSet(UpTo(a, S, L)) /\ Cardinality(UpTo(a, S, L)) <= Cardinality(S)
    BY <2>1, FS_Subset
  <2>3. Cardinality(UpTo(a, S, L)) \in Nat /\ Cardinality(S) \in Nat
    BY <2>2, FS_CardinalityType
  <2>4. Cardinality(UpTo(a, S, L)) # 0
    BY <2>1, <2>2, FS_EmptySet
  <2> QED
    BY <2>2, <2>3, <2>4
<1>2. ASSUME NEW a \in S, NEW b \in S, <<a, b>> \in L, a # b
      PROVE  Cardinality(UpTo(a, S, L)) < Cardinality(UpTo(b, S, L))
  <2> DEFINE A == UpTo(a, S, L)
             B == UpTo(b, S, L)
  <2>1. A \in SUBSET B /\ b \in B /\ b \notin A
    BY <1>2 DEF IsOrder, UpTo
  <2>2. IsFiniteSet(A) /\ IsFiniteSet(B) /\ Cardinality(A) \in Nat /\ Cardinality(B) \in Nat
    BY <1>1
  <2> HIDE DEF A, B
  <2>3. Cardinality(A) <= Cardinality(B) /\ Cardinality(A) # Cardinality(B)
    BY <2>1, <2>2, FS_Subset
  <2>4. Cardinality(A) < Cardinality(B)
    BY <2>2, <2>3
  <2> QED
    BY <2>4 DEF A, B
<1> QED
  BY <1>1, <1>2 DEF Place

\* Places are all the numbers up to the number of elements.
LEMMA Place_bijection ==
  ASSUME NEW S, NEW L, IsOrder(L, S), IsFiniteSet(S)
  PROVE  Place(S, L) \in Bijection(S, 1 .. Cardinality(S))
<1> DEFINE n == Cardinality(S)
           p == Place(S, L)
<1>1. n \in Nat
  BY FS_CardinalityType
<1>2. p \in [S -> 1 .. n] /\ \A a, b \in S : <<a, b>> \in L /\ a # b => p[a] < p[b]
  BY Place_grows
<1> HIDE DEF p, n
<1>3. ASSUME NEW a \in S, NEW b \in S, p[a] = p[b] PROVE a = b
  <2>1. p[a] \in Nat /\ ~(p[a] < p[b]) /\ ~(p[b] < p[a])
    BY <1>1, <1>2, <1>3
  <2> QED
    BY <1>2, <2>1 DEF IsOrder
<1>4. p \in Injection(S, 1 .. n)
  BY <1>2, <1>3 DEF Injection, IsInjective
<1>5. IsFiniteSet(1 .. n) /\ Cardinality(1 .. n) = n
  BY <1>1, FS_Interval
<1>6. Cardinality(S) = Cardinality(1 .. n)
  BY <1>5 DEF n
<1>7. p \in Surjection(S, 1 .. n)
  BY <1>4, <1>5, <1>6, FS_Injection
<1> QED
  BY <1>4, <1>7 DEF Bijection, p, n

\* In an order the place of an element is its index.
LEMMA Index_is_place ==
  ASSUME NEW S, NEW L, IsOrder(L, S), IsFiniteSet(S), NEW s \in Orders(S, L),
         NEW i \in 1 .. Cardinality(S)
  PROVE  s[i] \in S /\ Place(S, L)[s[i]] = i
<1> DEFINE n == Cardinality(S)
           U == UpTo(s[i], S, L)
           f == [j \in 1 .. i |-> s[j]]
<1>1. n \in Nat /\ i \in 1 .. n
  BY FS_CardinalityType
<1>2. /\ s \in [1 .. n -> S] /\ \A j, k \in 1 .. n : j # k => s[j] # s[k]
      /\ \A j, k \in 1 .. n : j < k => <<s[j], s[k]>> \in L
  BY DEF Orders, SetToSeqs
<1>3. IsFiniteSet(1 .. n) /\ Cardinality(1 .. n) = n /\ n = Cardinality(S)
  BY <1>1, FS_Interval
<1>4. \A a \in S : \E j \in 1 .. n : s[j] = a
  <2>1. s \in Injection(1 .. n, S)
    BY <1>2 DEF Injection, IsInjective
  <2> HIDE DEF n
  <2>2. s \in Surjection(1 .. n, S)
    BY <1>3, <2>1, FS_Injection
  <2> QED
    BY <2>2 DEF Surjection
<1> HIDE DEF n
<1>5. s[i] \in S
  BY <1>1, <1>2
<1>6. ASSUME NEW j \in 1 .. n PROVE s[j] \in U <=> j <= i
  <2>1. s[j] \in S
    BY <1>2
  <2>2. CASE j < i
    BY <1>1, <1>2, <2>1, <2>2 DEF UpTo
  <2>3. CASE j = i
    <3>1. <<s[i], s[i]>> \in L
      BY <1>5 DEF IsOrder
    <3> QED
      BY <1>1, <1>5, <2>3, <3>1 DEF UpTo
  <2>4. CASE j > i
    <3>1. <<s[i], s[j]>> \in L /\ s[i] # s[j]
      BY <1>1, <1>2, <2>4
    <3>2. <<s[j], s[i]>> \notin L
      BY <1>5, <2>1, <3>1 DEF IsOrder
    <3> QED
      BY <1>1, <2>4, <3>2 DEF UpTo
  <2> QED
    BY <1>1, <2>2, <2>3, <2>4
<1>7. U \subseteq S
  BY DEF UpTo
<1>8. f \in Bijection(1 .. i, U)
  <2> HIDE DEF U
  <2>1. \A j \in 1 .. i : j \in 1 .. n /\ j <= i
    BY <1>1
  <2>2. f \in [1 .. i -> U]
    BY <1>6, <2>1
  <2>3. \A j, k \in 1 .. i : f[j] = f[k] => j = k
    BY <1>2, <2>1
  <2>4. \A a \in U : \E j \in 1 .. i : f[j] = a
    <3> SUFFICES ASSUME NEW a \in U PROVE \E j \in 1 .. i : f[j] = a
      OBVIOUS
    <3>1. PICK j \in 1 .. n : s[j] = a
      BY <1>4, <1>7
    <3>2. j <= i
      BY <1>6, <3>1
    <3>3. j \in 1 .. i
      BY <1>1, <3>2
    <3> QED
      BY <3>1, <3>3
  <2> HIDE DEF f
  <2> QED
    BY <2>2, <2>3, <2>4 DEF Bijection, Injection, IsInjective, Surjection
<1>9. IsFiniteSet(1 .. i) /\ Cardinality(1 .. i) = i
  BY <1>1, FS_Interval
<1> HIDE DEF f, U
<1>10. Cardinality(U) = i
  BY <1>8, <1>9, FS_Bijection DEF ExistsBijection
<1> QED
  BY <1>5, <1>10 DEF Place, U

\* Functions are equal when their values are.
LEMMA Same_function ==
  ASSUME NEW D, NEW S, NEW f \in [D -> S], NEW g \in [D -> S], \A x \in D : f[x] = g[x]
  PROVE  f = g
OBVIOUS

\* A finite set has exactly one order.
LEMMA One_order ==
  ASSUME NEW S, NEW L, IsOrder(L, S), IsFiniteSet(S)
  PROVE  \E s : Orders(S, L) = {s}
<1> DEFINE n == Cardinality(S)
           p == Place(S, L)
           s == [i \in 1 .. n |-> CHOOSE a \in S : p[a] = i]
<1>1. n \in Nat
  BY FS_CardinalityType
<1>2. /\ p \in [S -> 1 .. n] /\ \A a, b \in S : p[a] = p[b] => a = b
      /\ \A i \in 1 .. n : \E a \in S : p[a] = i
  <2>1. p \in Bijection(S, 1 .. n)
    BY Place_bijection
  <2> HIDE DEF p, n
  <2> QED
    BY <2>1 DEF Bijection, Injection, IsInjective, Surjection
<1>3. \A a, b \in S : <<a, b>> \in L /\ a # b => p[a] < p[b]
  BY Place_grows
<1>4. ASSUME NEW i \in 1 .. n PROVE s[i] \in S /\ p[s[i]] = i
  <2> HIDE DEF p, n
  <2> QED
    BY <1>2
<1>5. s \in Orders(S, L)
  <2>1. s \in [1 .. n -> S] /\ DOMAIN s = 1 .. n
    BY <1>4
  <2> HIDE DEF p, s, n
  <2>2. \A i, j \in 1 .. n : i # j => s[i] # s[j]
    BY <1>4
  <2>3. ASSUME NEW i \in 1 .. n, NEW j \in 1 .. n, i < j PROVE <<s[i], s[j]>> \in L
    <3>1. ~(p[s[j]] < p[s[i]]) /\ s[i] # s[j]
      BY <1>1, <1>4, <2>3
    <3> QED
      BY <1>3, <1>4, <3>1 DEF IsOrder
  <2>4. s \in SetToSeqs(S)
    BY <2>1, <2>2 DEF SetToSeqs, n
  <2> QED
    BY <2>1, <2>3, <2>4 DEF Orders
<1>6. ASSUME NEW t \in Orders(S, L) PROVE t = s
  <2>1. t \in [1 .. n -> S]
    BY DEF Orders, SetToSeqs
  <2>2. ASSUME NEW i \in 1 .. n PROVE t[i] = s[i]
    <3>1. t[i] \in S /\ p[t[i]] = i
      BY Index_is_place
    <3> HIDE DEF p, s, n
    <3> QED
      BY <1>2, <1>4, <3>1
  <2>3. s \in [1 .. n -> S]
    BY <1>4
  <2> DEFINE D == 1 .. n
  <2>4. t \in [D -> S] /\ s \in [D -> S] /\ \A i \in D : t[i] = s[i]
    BY <2>1, <2>2, <2>3
  <2> HIDE DEF s, D
  <2> QED
    BY <2>4, Same_function
<1> HIDE DEF s
<1> QED
  BY <1>5, <1>6

\* The order in which issues are shown.
Shown(S) == {p \in S \X S : IssueBefore(p[1], p[2])}

\* Files of one listing that end in .txt.
TxtFiles == {name \in FileNames : name.txt}

\* The comparison of issues tells .txt files apart.
LEMMA Shown_order ==
  ASSUME NEW S \in SUBSET TxtFiles
  PROVE  IsOrder(Shown(S), S)
<1>1. \A a \in S : a.stem \in Nat /\ a.spelling \in Nat
  BY NameAssumption DEF TxtFiles, FileNames
<1>2. \A a, b \in S : <<a, b>> \in Shown(S) <=> IssueBefore(a, b)
  BY DEF Shown
<1>3. \A a, b \in S : a.stem = b.stem /\ a.spelling = b.spelling => a = b
  BY DEF TxtFiles, FileNames
<1>4. \A a, b \in S : IssueBefore(a, b) \/ IssueBefore(b, a)
  BY <1>1 DEF IssueBefore
<1>5. \A a, b \in S : IssueBefore(a, b) /\ IssueBefore(b, a) => a = b
  BY <1>1, <1>3 DEF IssueBefore
<1>6. \A a, b, c \in S : IssueBefore(a, b) /\ IssueBefore(b, c) => IssueBefore(a, c)
  BY <1>1 DEF IssueBefore
<1> QED
  BY <1>2, <1>4, <1>5, <1>6 DEF IsOrder

\* What a directory is.
IsDirectory(dir) ==
  IsFiniteSet(DOMAIN dir) /\ DOMAIN dir \subseteq FileNames /\ dir \in [DOMAIN dir -> Findings]

\* Entries and issues are the .txt files, each in one of the two.
LEMMA Txt_files ==
  ASSUME NEW dir, IsDirectory(dir)
  PROVE  /\ Entries(dir) \in SUBSET TxtFiles /\ IsFiniteSet(Entries(dir))
         /\ Issues(dir) \in SUBSET TxtFiles /\ IsFiniteSet(Issues(dir))
         /\ Entries(dir) \cup Issues(dir) = {name \in DOMAIN dir : name.txt}
         /\ Entries(dir) \cap Issues(dir) = {}
<1>1. \A name \in DOMAIN dir : dir[name] \in {"entry", "unsafe", "failed"} /\ name \in FileNames
  BY DEF IsDirectory, Findings
<1>2. \A name \in DOMAIN dir : name.txt \in BOOLEAN
  BY <1>1 DEF FileNames
<1>3. ASSUME NEW name \in DOMAIN dir
      PROVE  /\ ~name.txt => Classify(name, dir[name]) = "skipped"
             /\ name.txt => Classify(name, dir[name]) \in {"malformed", "entry", "unsafe", "failed"}
  BY <1>1 DEF Classify
<1>4. /\ Entries(dir) \in SUBSET DOMAIN dir /\ Issues(dir) \in SUBSET DOMAIN dir
      /\ \A name \in Entries(dir) \cup Issues(dir) : name.txt
  BY <1>3 DEF Entries, Issues
<1>5. Entries(dir) \cup Issues(dir) = {name \in DOMAIN dir : name.txt}
  BY <1>3 DEF Entries, Issues
<1>6. Entries(dir) \cap Issues(dir) = {}
  BY DEF Entries, Issues
<1>7. IsFiniteSet(Entries(dir)) /\ IsFiniteSet(Issues(dir))
  BY <1>4, FS_Subset DEF IsDirectory
<1> QED
  BY <1>1, <1>4, <1>5, <1>6, <1>7 DEF TxtFiles

\* An entry is a readable file with the name of a target.
LEMMA Entry_is_readable ==
  ASSUME NEW dir, IsDirectory(dir), NEW name
  PROVE  name \in Entries(dir) <=>
           /\ name \in DOMAIN dir /\ dir[name] = "entry"
           /\ name.txt /\ name.stem \in Valid /\ name.spelling = Canonical
BY DEF Entries, Classify

\* The orders that slices.SortFunc may leave.
LEMMA Sorted_orders ==
  ASSUME NEW dir, IsDirectory(dir)
  PROVE  /\ SortedEntries(dir) = Orders(Entries(dir), Shown(Entries(dir)))
         /\ SortedIssues(dir) = Orders(Issues(dir), Shown(Issues(dir)))
<1>1. ASSUME NEW S, NEW s \in SetToSeqs(S), NEW i \in DOMAIN s PROVE s[i] \in S
  BY DEF SetToSeqs
<1>2. ASSUME NEW S, NEW s \in SetToSeqs(S), NEW i \in DOMAIN s, NEW j \in DOMAIN s
      PROVE  <<s[i], s[j]>> \in Shown(S) <=> IssueBefore(s[i], s[j])
  BY <1>1 DEF Shown
<1>3. ASSUME NEW a \in Entries(dir), NEW b \in Entries(dir) PROVE EntryBefore(a, b) <=> IssueBefore(a, b)
  <2>1. a \in FileNames /\ b \in FileNames /\ a.spelling = Canonical /\ b.spelling = Canonical
    BY Entry_is_readable DEF IsDirectory
  <2>2. a.stem \in Nat /\ b.stem \in Nat /\ Canonical \in Nat
    BY <2>1, NameAssumption DEF FileNames
  <2> QED
    BY <2>1, <2>2 DEF EntryBefore, IssueBefore
<1>4. SortedIssues(dir) = Orders(Issues(dir), Shown(Issues(dir)))
  BY <1>2 DEF SortedIssues, Orders
<1>5. \A s \in SetToSeqs(Entries(dir)) : \A i, j \in DOMAIN s :
        EntryBefore(s[i], s[j]) <=> <<s[i], s[j]>> \in Shown(Entries(dir))
  BY <1>1, <1>2, <1>3
<1>6. SortedEntries(dir) = Orders(Entries(dir), Shown(Entries(dir)))
  BY <1>5 DEF SortedEntries, Orders
<1> QED
  BY <1>4, <1>6

\* A directory has one listing.
LEMMA One_listing ==
  ASSUME NEW dir, IsDirectory(dir)
  PROVE  ListsOneOrder(dir)
<1>1. PICK s : SortedEntries(dir) = {s}
  <2> DEFINE S == Entries(dir)
  <2>1. IsFiniteSet(S) /\ IsOrder(Shown(S), S) /\ SortedEntries(dir) = Orders(S, Shown(S))
    BY Txt_files, Sorted_orders, Shown_order
  <2> HIDE DEF S
  <2>2. \E s : Orders(S, Shown(S)) = {s}
    BY <2>1, One_order
  <2> QED
    BY <2>1, <2>2
<1>2. PICK t : SortedIssues(dir) = {t}
  <2> DEFINE S == Issues(dir)
  <2>1. IsFiniteSet(S) /\ IsOrder(Shown(S), S) /\ SortedIssues(dir) = Orders(S, Shown(S))
    BY Txt_files, Sorted_orders, Shown_order
  <2> HIDE DEF S
  <2>2. \E t : Orders(S, Shown(S)) = {t}
    BY <2>1, One_order
  <2> QED
    BY <2>1, <2>2
<1>3. Listings(dir) = {<<s, t>>}
  BY <1>1, <1>2 DEF Listings
<1> QED
  BY <1>3, FS_Singleton DEF ListsOneOrder

\* One order of a set has all its elements, once each.
LEMMA Sequence_of_set ==
  ASSUME NEW S, IsFiniteSet(S), NEW s \in SetToSeqs(S)
  PROVE  /\ Len(s) = Cardinality(S) /\ DOMAIN s = 1 .. Cardinality(S)
         /\ \A i \in DOMAIN s : s[i] \in S
         /\ \A i, j \in DOMAIN s : s[i] = s[j] => i = j
         /\ \A a \in S : \E i \in DOMAIN s : s[i] = a
<1> DEFINE n == Cardinality(S)
<1>1. n \in Nat
  BY FS_CardinalityType
<1>2. s \in [1 .. n -> S] /\ \A j, k \in 1 .. n : j # k => s[j] # s[k]
  BY DEF SetToSeqs
<1>3. IsFiniteSet(1 .. n) /\ Cardinality(1 .. n) = n /\ n = Cardinality(S)
  BY <1>1, FS_Interval
<1>4. s \in Injection(1 .. n, S)
  BY <1>2 DEF Injection, IsInjective
<1> HIDE DEF n
<1>5. s \in Surjection(1 .. n, S)
  BY <1>3, <1>4, FS_Injection
<1>6. Len(s) = n /\ DOMAIN s = 1 .. n
  BY <1>1, <1>2
<1> QED
  BY <1>2, <1>3, <1>5, <1>6 DEF Surjection

\* A listing shows what Read returns.
LEMMA Lists_what_reads ==
  ASSUME NEW dir, IsDirectory(dir)
  PROVE  ListsWhatReads(dir)
<1> SUFFICES ASSUME NEW listing \in Listings(dir)
    PROVE /\ \A t \in Valid :
               LET name == [stem |-> t, spelling |-> Canonical, txt |-> TRUE]
                   readable == name \in DOMAIN dir /\ dir[name] = "entry" IN
               Cardinality({i \in DOMAIN listing[1] : listing[1][i].stem = t}) = IF readable THEN 1 ELSE 0
          /\ Len(listing[1]) + Len(listing[2]) = Cardinality({name \in DOMAIN dir : name.txt})
  BY DEF ListsWhatReads
<1> DEFINE s == listing[1]
           u == listing[2]
<1>1. s \in SetToSeqs(Entries(dir)) /\ u \in SetToSeqs(Issues(dir))
  BY DEF Listings, SortedEntries, SortedIssues
<1>2. /\ Len(s) = Cardinality(Entries(dir)) /\ \A i \in DOMAIN s : s[i] \in Entries(dir)
      /\ \A i, j \in DOMAIN s : s[i] = s[j] => i = j
      /\ \A a \in Entries(dir) : \E i \in DOMAIN s : s[i] = a
  BY <1>1, Txt_files, Sequence_of_set
<1>3. Len(u) = Cardinality(Issues(dir))
  BY <1>1, Txt_files, Sequence_of_set
<1>4. Len(s) + Len(u) = Cardinality({name \in DOMAIN dir : name.txt})
  <2> DEFINE A == Entries(dir)
             B == Issues(dir)
             C == {name \in DOMAIN dir : name.txt}
  <2>1. IsFiniteSet(A) /\ IsFiniteSet(B) /\ A \cup B = C /\ A \cap B = {}
    BY Txt_files
  <2>2. Len(s) = Cardinality(A) /\ Len(u) = Cardinality(B)
    BY <1>2, <1>3
  <2> HIDE DEF A, B, C
  <2>3. Cardinality(A \cup B) = Cardinality(A) + Cardinality(B) - Cardinality(A \cap B)
    BY <2>1, FS_Union
  <2>4. Cardinality(A \cap B) = 0 /\ Cardinality(A) \in Nat /\ Cardinality(B) \in Nat
    BY <2>1, FS_EmptySet, FS_CardinalityType
  <2>5. Cardinality(C) = Cardinality(A) + Cardinality(B)
    <3>1. Cardinality(C) = Cardinality(A) + Cardinality(B) - 0
      BY <2>1, <2>3, <2>4
    <3> QED
      BY <2>4, <3>1
  <2> QED
    BY <2>2, <2>5 DEF C
<1>5. ASSUME NEW t \in Valid
      PROVE  LET name == [stem |-> t, spelling |-> Canonical, txt |-> TRUE]
                 readable == name \in DOMAIN dir /\ dir[name] = "entry" IN
             Cardinality({i \in DOMAIN s : s[i].stem = t}) = IF readable THEN 1 ELSE 0
  <2> DEFINE name == [stem |-> t, spelling |-> Canonical, txt |-> TRUE]
             readable == name \in DOMAIN dir /\ dir[name] = "entry"
             I == {i \in DOMAIN s : s[i].stem = t}
  <2>1. readable <=> name \in Entries(dir)
    BY Entry_is_readable
  <2>2. ASSUME NEW e \in Entries(dir), e.stem = t PROVE e = name
    <3>1. e \in FileNames /\ e.spelling = Canonical /\ e.txt
      BY Entry_is_readable DEF IsDirectory
    <3>2. e.txt = TRUE
      BY <3>1 DEF FileNames
    <3> QED
      BY <2>2, <3>1, <3>2 DEF FileNames
  <2>3. name.stem = t
    OBVIOUS
  <2> HIDE DEF s, name, readable
  <2>4. CASE readable
    <3>1. PICK i \in DOMAIN s : s[i] = name
      BY <1>2, <2>1, <2>4
    <3>2. I = {i}
      BY <1>2, <2>2, <2>3, <3>1
    <3> QED
      BY <2>4, <3>2, FS_Singleton DEF readable, name
  <2>5. CASE ~readable
    <3>1. I = {}
      BY <1>2, <2>1, <2>2, <2>5
    <3> QED
      BY <2>5, <3>1, FS_EmptySet DEF readable, name
  <2> QED
    BY <2>4, <2>5
<1> QED
  BY <1>4, <1>5

\* A directory has one listing, with every alert that Read returns and every other
\* .txt file as an issue, for every directory (Store.List).
THEOREM ListingsAlwaysExact == Spec => []ListingsAreExact
<1>1. InputInv => ListingsAreExact
  <2> SUFFICES ASSUME InputInv, input.of = "directory"
               PROVE  ListsWhatReads(input.directory) /\ ListsOneOrder(input.directory)
    BY DEF ListingsAreExact, ListingsAreComplete, ListingsAreOrdered
  <2>1. input \in Browsed
    BY DEF InputInv, Sized, Traced
  <2>2. IsDirectory(input.directory)
    BY <2>1, DirectoryAssumption DEF Browsed, IsDirectory
  <2> QED
    BY <2>2, Lists_what_reads, One_listing
<1> QED
  BY <1>1, Input_always, PTL
=============================================================================
