---------------------------- MODULE ResultsProofs ----------------------------
(***************************************************************************)
(* What an answer of the front page says, for any runs, filters and limit of  *)
(* rows.  Three steps: folding a configuration's runs into its accumulator     *)
(* counts them and collects their samples (Accumulated); of sorted samples,    *)
(* the first, the last and the middle are the least, the greatest and the      *)
(* median of the runs they are of (StatsSummarise); and what an answer has     *)
(* said stays so while runs go on being inserted (AnswerInv).                  *)
(***************************************************************************)
EXTENDS Results, RunListingProofs

\* The greatest of some numbers.
LEMMA MaxOf ==
  ASSUME NEW S \in SUBSET Nat, IsFiniteSet(S), S # {}
  PROVE  Max(S) \in S /\ \A k \in S : k <= Max(S)
  <1> DEFINE R == {p \in S \X S : p[1] < p[2]}
  <1>1. IsStrictOrder(R, S)
    BY DEF IsStrictOrder
  <1>2. PICK m \in S : Below(R, S, m) = S \ {m}
    BY <1>1, Greatest
  <1>3. ASSUME NEW k \in S PROVE m >= k
    <2>1. CASE k = m
      BY <2>1
    <2>2. CASE k # m
      <3>1. k \in Below(R, S, m)
        BY <1>2, <2>2
      <3> QED BY <3>1 DEF Below
    <2> QED BY <2>1, <2>2
  <1>4. Max(S) \in S /\ \A k \in S : Max(S) >= k
    BY <1>3 DEF Max
  <1> QED BY <1>4

\* FoldLeft as the prover sees it: a function of sets of indices.
IsFold(T, seq, g) ==
  g = [s \in SUBSET T |-> IF s = {} THEN Empty
                          ELSE Accumulate(g[s \ {Max(s)}], seq[Max(s)])]

FoldOn(T, seq, g) == IsFiniteSet(T) /\ T \subseteq Nat /\ IsFold(T, seq, g)

\* Indices up to n are finitely many numbers.
LEMMA UpTo ==
  ASSUME NEW n \in Nat, NEW s \in SUBSET (1..n)
  PROVE  IsFiniteSet(s) /\ s \in SUBSET Nat
  <1>1. IsFiniteSet(1..n)
    BY FS_Interval
  <1>2. IsFiniteSet(s)
    BY <1>1, FS_Subset
  <1> QED BY <1>2

\* The same where a fold needs it.
LEMMA MaxIn ==
  ASSUME NEW s, IsFiniteSet(s), s \subseteq Nat, s # {}
  PROVE  Max(s) \in s /\ s \ {Max(s)} \in SUBSET s /\ s \ {Max(s)} # s
  BY MaxOf

\* There is one such function at the most,
LEMMA FoldsAgree ==
  ASSUME NEW T, NEW seq, NEW g, FoldOn(T, seq, g),
         NEW U, U \subseteq T, NEW h, FoldOn(U, seq, h)
  PROVE  \A s \in SUBSET U : g[s] = h[s]
  <1> DEFINE Good == {s \in SUBSET U : g[s] = h[s]}
  <1>1. IsFiniteSet(U) /\ U \subseteq Nat
    BY DEF FoldOn, IsFold
  <1>2. ASSUME NEW s \in SUBSET U, \A w \in SUBSET s : w # s => w \in Good
        PROVE  s \in Good
    <2> IsFiniteSet(s) /\ s \subseteq Nat
      BY <1>1, FS_Subset
    <2>1. CASE s = {}
      BY <2>1 DEF FoldOn, IsFold
    <2>2. CASE s # {}
      <3>1. s \ {Max(s)} \in Good
        BY <1>2, <2>2, MaxIn
      <3>2. g[s] = Accumulate(g[s \ {Max(s)}], seq[Max(s)])
        BY <2>2 DEF FoldOn, IsFold
      <3>3. h[s] = Accumulate(h[s \ {Max(s)}], seq[Max(s)])
        BY <2>2 DEF FoldOn, IsFold
      <3> QED BY <3>1, <3>2, <3>3
    <2> QED BY <2>1, <2>2
  <1> HIDE DEF Good
  <1>3. \A s \in SUBSET U : s \in Good
    BY <1>1, <1>2, FiniteInduction
  <1> QED BY <1>3 DEF Good

\* and one on each finite set of indices: from that of the set without its
\* greatest.
LEMMA FoldExists ==
  ASSUME NEW n \in Nat, NEW seq
  PROVE  \E g : FoldOn(1..n, seq, g)
  <1> DEFINE S == 1..n
             Good == {T \in SUBSET S : \E g : FoldOn(T, seq, g)}
  <1>1. ASSUME NEW T \in SUBSET S, \A U \in SUBSET T : U # T => U \in Good
        PROVE  T \in Good
    <2> DEFINE of(U) == CHOOSE g : FoldOn(U, seq, g)
               rest(s) == s \ {Max(s)}
               all == [s \in SUBSET T |-> IF s = {} THEN Empty
                          ELSE Accumulate(of(rest(s))[rest(s)], seq[Max(s)])]
    <2>1. \A U \in SUBSET T : U # T => FoldOn(U, seq, of(U))
      BY <1>1
    <2>2. \A s \in SUBSET T : /\ IsFiniteSet(s) /\ s \subseteq Nat
                              /\ s # {} => rest(s) \in SUBSET s /\ rest(s) # s /\ rest(s) # T
      BY UpTo, MaxIn
    <2> HIDE DEF of, rest
    <2>3. ASSUME NEW s \in SUBSET T, s # T PROVE all[s] = of(s)[s]
      <3>1. CASE s = {}
        BY <2>1, <2>3, <3>1 DEF FoldOn, IsFold
      <3>2. CASE s # {}
        <4>1. rest(s) \in SUBSET s /\ FoldOn(rest(s), seq, of(rest(s))) /\ FoldOn(s, seq, of(s))
          BY <2>1, <2>2, <2>3, <3>2
        <4>2. of(s)[rest(s)] = of(rest(s))[rest(s)]
          <5> DEFINE u == rest(s)
                     g == of(s)
                     h == of(u)
          <5>1. u \subseteq s /\ FoldOn(s, seq, g) /\ FoldOn(u, seq, h)
            BY <4>1
          <5> HIDE DEF all, u, g, h, Good
          <5>2. g[u] = h[u]
            BY <5>1, FoldsAgree
          <5> QED BY <5>2 DEF u, g, h
        <4>3. of(s)[s] = Accumulate(of(s)[rest(s)], seq[Max(s)])
          BY <4>1, <3>2 DEF FoldOn, IsFold, rest
        <4> QED BY <4>2, <4>3, <3>2
      <3> QED BY <3>1, <3>2
    <2>4. \A s \in SUBSET T : s # {} => all[rest(s)] = of(rest(s))[rest(s)]
      BY <2>2, <2>3
    <2>5. all = [s \in SUBSET T |-> IF s = {} THEN Empty
                          ELSE Accumulate(all[rest(s)], seq[Max(s)])]
      BY <2>4
    <2> HIDE DEF all
    <2>6. FoldOn(T, seq, all)
      <3>1. IsFiniteSet(T) /\ T \subseteq Nat
        BY UpTo
      <3> QED BY <2>5, <3>1 DEF FoldOn, IsFold, rest
    <2> QED BY <2>6
  <1> HIDE DEF Good
  <1>2. S \in Good
    <2>1. IsFiniteSet(S)
      BY UpTo
    <2>2. \A T \in SUBSET S : (\A U \in SUBSET T : U # T => U \in Good) => T \in Good
      BY <1>1, Zenon
    <2>3. \A T \in SUBSET S : T \in Good
      <3> HIDE DEF S
      <3> QED BY <2>1, <2>2, FiniteInduction, Zenon
    <2> QED BY <2>3
  <1> QED BY <1>2 DEF Good

\* What folding over a sequence is: one step after the other.
LEMMA FoldSteps ==
  ASSUME NEW n \in Nat, NEW seq, DOMAIN seq = 1..n
  PROVE  \E acc : /\ acc[0] = Empty
                  /\ \A i \in 1..n : acc[i] = Accumulate(acc[i - 1], seq[i])
                  /\ FoldLeft(Accumulate, Empty, seq) = acc[n]
  <1> DEFINE g == CHOOSE g : IsFold(1..n, seq, g)
             acc == [i \in 0..n |-> g[1..i]]
  <1>1. FoldLeft(Accumulate, Empty, seq) = g[1..n]
    BY DEF FoldLeft, MapThenFoldSet, IsFold
  <1>2. IsFold(1..n, seq, g)
    BY FoldExists DEF FoldOn
  <1> HIDE DEF g
  <1>3. acc[0] = Empty
    BY <1>2 DEF FoldOn, IsFold
  <1>4. ASSUME NEW i \in 1..n PROVE acc[i] = Accumulate(acc[i - 1], seq[i])
    <2>1. Max(1..i) \in 1..i /\ \A k \in 1..i : k <= Max(1..i)
      <3>1. 1..i \in SUBSET (1..i) /\ i \in Nat
        OBVIOUS
      <3>2. IsFiniteSet(1..i) /\ 1..i \in SUBSET Nat
        BY ONLY <3>1, UpTo
      <3>3. 1..i # {}
        OBVIOUS
      <3> QED BY <3>2, <3>3, MaxOf
    <2>2. Max(1..i) = i
      BY <2>1
    <2>3. (1..i) \ {i} = 1..(i - 1)
      OBVIOUS
    <2>4. g[1..i] = Accumulate(g[(1..i) \ {Max(1..i)}], seq[Max(1..i)])
      <3>1. 1..i \in SUBSET (1..n) /\ 1..i # {}
        OBVIOUS
      <3> QED BY <3>1, <1>2 DEF FoldOn, IsFold
    <2>5. acc[i] = g[1..i] /\ acc[i - 1] = g[1..(i - 1)]
      OBVIOUS
    <2> QED BY <2>2, <2>3, <2>4, <2>5
  <1>5. acc[n] = g[1..n]
    OBVIOUS
  <1> HIDE DEF acc
  <1> QED BY <1>1, <1>3, <1>4, <1>5

-----------------------------------------------------------------------------
(* What arrives, and what is made of it *)

\* The rows of a query are the runs, each once, from the oldest to the newest.
LEMMA ArrivalIsSorted ==
  ASSUME TypeOK, NEW S \in SUBSET Table
  PROVE  LET seq == Arrival(S)
             n   == Cardinality(S)
         IN  /\ n \in Nat /\ DOMAIN seq = 1..n
             /\ \A i \in 1..n : seq[i] \in S
             /\ \A r \in S : \E i \in 1..n : seq[i] = r
             /\ \A i, j \in 1..n : i < j => Before(seq[j], seq[i])
  <1> DEFINE seq == Arrival(S)
             n   == Cardinality(S)
             R   == {p \in S \X S : Before(p[2], p[1])}
             rank(r) == Cardinality({q \in S : Before(r, q)})
  <1>1. IsFiniteSet(S) /\ n \in Nat
    BY RunsAssumption, FS_Subset, FS_CardinalityType DEF Table
  <1>2. IsStrictOrder(R, S)
    BY Order DEF IsStrictOrder
  <1>3. \A r \in S : Below(R, S, r) = {q \in S : Before(r, q)}
    BY DEF Below
  <1>4. \A q, r \in S : <<q, r>> \in R <=> Before(r, q)
    OBVIOUS
  <1> HIDE DEF R
  <1>5. ASSUME NEW i \in 1..n PROVE \E r \in S : rank(r) = i - 1
    <2>1. i - 1 \in 0..(n - 1)
      BY <1>1
    <2>2. PICK r \in S : Cardinality(Below(R, S, r)) = i - 1
      BY <2>1, <1>1, <1>2, Ranks
    <2> QED BY <2>2, <1>3
  <1>6. ASSUME NEW r \in S PROVE rank(r) \in Nat /\ rank(r) + 1 \in 1..n
    <2>1. rank(r) \in 0..(n - 1)
      BY <1>1, <1>2, <1>3, RanksIncrease
    <2> QED BY <2>1, <1>1
  <1>7. ASSUME NEW q \in S, NEW r \in S, Before(r, q) PROVE rank(q) < rank(r)
    BY <1>1, <1>2, <1>3, <1>4, <1>7, RanksIncrease
  <1>8. ASSUME NEW i \in 1..n PROVE seq[i] \in S /\ rank(seq[i]) = i - 1
    <2>1. seq[i] = CHOOSE r \in S : rank(r) = i - 1
      BY DEF Arrival
    <2> QED BY <2>1, <1>5
  <1>13. DOMAIN seq = 1..n
    BY DEF Arrival
  <1> HIDE DEF seq, n, rank
  <1>9. ASSUME NEW q \in S, NEW r \in S, rank(q) = rank(r) PROVE q = r
    <2>1. ~ (rank(q) < rank(r)) /\ ~ (rank(r) < rank(q))
      BY <1>6, <1>9
    <2>2. q = r \/ Before(q, r) \/ Before(r, q)
      BY Order
    <2> QED BY <2>1, <2>2, <1>7
  <1>10. ASSUME NEW r \in S PROVE \E i \in 1..n : seq[i] = r
    <2> DEFINE i == rank(r) + 1
    <2>1. i \in 1..n /\ i - 1 = rank(r)
      BY <1>6
    <2>2. seq[i] \in S /\ rank(seq[i]) = rank(r)
      BY <2>1, <1>8
    <2> QED BY <2>1, <2>2, <1>9
  <1>11. ASSUME NEW i \in 1..n, NEW j \in 1..n, i < j PROVE Before(seq[j], seq[i])
    <2>1. /\ seq[i] \in S /\ seq[j] \in S
          /\ rank(seq[i]) = i - 1 /\ rank(seq[j]) = j - 1
      BY <1>8
    <2>2. ~ (rank(seq[j]) < rank(seq[i])) /\ seq[i] # seq[j]
      BY <2>1, <1>1, <1>11
    <2>3. ~ Before(seq[i], seq[j])
      BY <2>1, <2>2, <1>7
    <2> QED BY <2>1, <2>2, <2>3, Order
  <1> QED BY <1>1, <1>8, <1>10, <1>11, <1>13 DEF seq, n

\* Counting one element more.
LEMMA CountOne ==
  ASSUME NEW S, IsFiniteSet(S), NEW r, r \notin S, NEW P
  PROVE  /\ Cardinality(S \cap P) \in Nat
         /\ Cardinality((S \cup {r}) \cap P) =
              Cardinality(S \cap P) + (IF r \in P THEN 1 ELSE 0)
  <1>1. IsFiniteSet(S \cap P) /\ r \notin S \cap P
    BY FS_Subset
  <1>2. Cardinality(S \cap P) \in Nat
    BY <1>1, FS_CardinalityType
  <1>3. CASE r \in P
    <2>1. (S \cup {r}) \cap P = (S \cap P) \cup {r}
      BY <1>3
    <2> QED BY <2>1, <1>1, <1>2, <1>3, FS_AddElement
  <1>4. CASE r \notin P
    <2>1. (S \cup {r}) \cap P = S \cap P
      BY <1>4
    <2>2. Cardinality(S \cap P) = Cardinality(S \cap P) + 0
      BY <1>2
    <2> QED BY <2>1, <2>2, <1>2, <1>4, Zenon
  <1> QED BY <1>2, <1>3, <1>4

\* A sequence has the values of a metric of some runs, each as often.
Samples(s, S, metric) ==
  /\ s \in Seq(Nat)
  /\ \A V \in SUBSET Nat :
       Cardinality({j \in DOMAIN s : s[j] \in V}) = Cardinality({r \in S : Attr[r][metric] \in V})

\* No runs, no samples.
LEMMA NoSamples == \A metric : Samples(<<>>, {}, metric)
  <1> SUFFICES ASSUME NEW metric, NEW V \in SUBSET Nat
               PROVE  Cardinality({j \in DOMAIN <<>> : <<>>[j] \in V})
                        = Cardinality({r \in {} : Attr[r][metric] \in V})
    BY DEF Samples
  <1>1. {j \in DOMAIN <<>> : <<>>[j] \in V} = {r \in {} : Attr[r][metric] \in V}
    OBVIOUS
  <1> QED BY <1>1

\* One sample more.
LEMMA OneSample ==
  ASSUME NEW s, NEW S, NEW metric, Samples(s, S, metric), IsFiniteSet(S),
         NEW r, r \notin S, Attr[r][metric] \in Nat
  PROVE  Samples(Append(s, Attr[r][metric]), S \cup {r}, metric)
  <1> DEFINE x == Attr[r][metric]
             t == Append(s, x)
  <1>1. /\ s \in Seq(Nat) /\ t \in Seq(Nat) /\ Len(s) \in Nat
        /\ DOMAIN s = 1..Len(s) /\ DOMAIN t = DOMAIN s \cup {Len(s) + 1}
        /\ Len(s) + 1 \notin DOMAIN s
        /\ \A j \in DOMAIN s : t[j] = s[j]
        /\ t[Len(s) + 1] = x
    BY DEF Samples
  <1> SUFFICES ASSUME NEW V \in SUBSET Nat
               PROVE  Cardinality({j \in DOMAIN t : t[j] \in V})
                        = Cardinality({q \in S \cup {r} : Attr[q][metric] \in V})
    BY <1>1 DEF Samples
  <1> HIDE DEF t
  <1> DEFINE P == {j \in DOMAIN t : t[j] \in V}
             Q == {q \in S \cup {r} : Attr[q][metric] \in V}
  <1>2. /\ DOMAIN s \cap P = {j \in DOMAIN s : s[j] \in V}
        /\ (DOMAIN s \cup {Len(s) + 1}) \cap P = P
        /\ Len(s) + 1 \in P <=> x \in V
    BY <1>1
  <1>3. /\ S \cap Q = {q \in S : Attr[q][metric] \in V}
        /\ (S \cup {r}) \cap Q = Q
        /\ r \in Q <=> x \in V
    OBVIOUS
  <1>4. Cardinality(DOMAIN s \cap P) = Cardinality(S \cap Q)
    BY <1>2, <1>3 DEF Samples
  <1>5. IsFiniteSet(DOMAIN s)
    BY <1>1, UpTo
  <1> HIDE DEF P, Q
  <1>6. Cardinality((DOMAIN s \cup {Len(s) + 1}) \cap P)
          = Cardinality(DOMAIN s \cap P) + (IF Len(s) + 1 \in P THEN 1 ELSE 0)
    <2> DEFINE D == DOMAIN s
               k == Len(s) + 1
    <2>1. IsFiniteSet(D) /\ k \notin D
      BY <1>1, <1>5
    <2> HIDE DEF D, k
    <2>2. Cardinality((D \cup {k}) \cap P) = Cardinality(D \cap P) + (IF k \in P THEN 1 ELSE 0)
      BY <2>1, CountOne
    <2> QED BY <2>2 DEF D, k
  <1>7. Cardinality((S \cup {r}) \cap Q)
          = Cardinality(S \cap Q) + (IF r \in Q THEN 1 ELSE 0)
    BY CountOne
  <1>8. Cardinality(P) = Cardinality(Q)
    BY <1>2, <1>3, <1>4, <1>6, <1>7, Zenon
  <1> QED BY <1>8 DEF P, Q

\* And a run without the metric, which adds none.
LEMMA NoSample ==
  ASSUME NEW s, NEW S, NEW metric, Samples(s, S, metric), NEW r, Attr[r][metric] \notin Nat
  PROVE  Samples(s, S \cup {r}, metric)
  <1> SUFFICES ASSUME NEW V \in SUBSET Nat
               PROVE  {q \in S \cup {r} : Attr[q][metric] \in V} = {q \in S : Attr[q][metric] \in V}
    BY DEF Samples
  <1> QED OBVIOUS
-----------------------------------------------------------------------------
(* What a row has accumulated *)

Ok(S) == {r \in S : Attr[r]["exit_status"] = "succeeded"}
FailedOf(S) == {r \in S : Attr[r]["correctness_result"] = "failed"}
ThrottledOf(S) == {r \in S : Attr[r]["thermal_throttling"] = 1}

CountInv(acc, S) ==
  /\ acc.total_runs = Cardinality(S)
  /\ acc.not_succeeded = Cardinality(S \ Ok(S))
  /\ acc.correctness_failed = Cardinality(FailedOf(Ok(S)))
  /\ acc.throttled = Cardinality(ThrottledOf(S))

TimeInv(acc, S) ==
  IF S = {} THEN acc.first_started_at = None
  ELSE /\ acc.first_started_at \in Nat
       /\ \A r \in S : acc.first_started_at <= started[r] /\ started[r] <= acc.last_started_at

KnownInv(acc, S) ==
  \A f \in KnownColumns :
    IF acc.known[f] = None THEN \A r \in S : Attr[r][f] = None
    ELSE \E r \in S : Attr[r][f] = acc.known[f]

SampleInv(acc, S) ==
  Samples(acc.prefill, Ok(S), "prefill") /\ Samples(acc.decode, Ok(S), "decode")

AccInv(acc, S) ==
  CountInv(acc, S) /\ TimeInv(acc, S) /\ KnownInv(acc, S) /\ SampleInv(acc, S)

\* Nothing yet.
LEMMA AccEmpty == AccInv(Empty, {})
  <1>1. Ok({}) = {} /\ FailedOf({}) = {} /\ ThrottledOf({}) = {} /\ {} \ {} = {}
    BY DEF Ok, FailedOf, ThrottledOf
  <1>2. Cardinality({}) = 0
    BY FS_EmptySet
  <1>3. CountInv(Empty, {})
    BY <1>1, <1>2 DEF CountInv, Empty
  <1>4. TimeInv(Empty, {}) /\ KnownInv(Empty, {})
    BY DEF TimeInv, KnownInv, Empty
  <1>5. SampleInv(Empty, {})
    BY <1>1, NoSamples DEF SampleInv, Empty
  <1> QED BY <1>3, <1>4, <1>5 DEF AccInv

\* One more run is counted in its classes.
LEMMA CountStep ==
  ASSUME NEW S, IsFiniteSet(S), NEW r, r \notin S, NEW acc, CountInv(acc, S)
  PROVE  CountInv(Accumulate(acc, r), S \cup {r})
  <1> DEFINE T == S \cup {r}
             next == Accumulate(acc, r)
             lost == {q \in T : Attr[q]["exit_status"] # "succeeded"}
             failed == {q \in T : /\ Attr[q]["exit_status"] = "succeeded"
                                  /\ Attr[q]["correctness_result"] = "failed"}
             throttled_ == {q \in T : Attr[q]["thermal_throttling"] = 1}
  <1>1. /\ S \cap T = S /\ T \cap T = T
        /\ S \cap lost = S \ Ok(S) /\ T \cap lost = T \ Ok(T)
        /\ S \cap failed = FailedOf(Ok(S)) /\ T \cap failed = FailedOf(Ok(T))
        /\ S \cap throttled_ = ThrottledOf(S) /\ T \cap throttled_ = ThrottledOf(T)
    BY DEF Ok, FailedOf, ThrottledOf
  <1>2. \A P : Cardinality(T \cap P) = Cardinality(S \cap P) + (IF r \in P THEN 1 ELSE 0)
    BY CountOne
  <1>3. /\ next.total_runs = acc.total_runs + (IF r \in T THEN 1 ELSE 0)
        /\ next.not_succeeded = acc.not_succeeded + (IF r \in lost THEN 1 ELSE 0)
        /\ next.correctness_failed = acc.correctness_failed + (IF r \in failed THEN 1 ELSE 0)
        /\ next.throttled = acc.throttled + (IF r \in throttled_ THEN 1 ELSE 0)
    BY DEF Accumulate
  <1> HIDE DEF T, next, lost, failed, throttled_
  <1>4. /\ next.total_runs = Cardinality(T)
        /\ next.not_succeeded = Cardinality(T \ Ok(T))
        /\ next.correctness_failed = Cardinality(FailedOf(Ok(T)))
        /\ next.throttled = Cardinality(ThrottledOf(T))
    <2>1. /\ acc.total_runs = Cardinality(S \cap T)
          /\ acc.not_succeeded = Cardinality(S \cap lost)
          /\ acc.correctness_failed = Cardinality(S \cap failed)
          /\ acc.throttled = Cardinality(S \cap throttled_)
      BY <1>1, Zenon DEF CountInv
    <2>2. next.total_runs = Cardinality(T)
      BY <1>1, <1>2, <1>3, <2>1, Zenon
    <2>3. next.not_succeeded = Cardinality(T \ Ok(T))
      BY <1>1, <1>2, <1>3, <2>1, Zenon
    <2>4. next.correctness_failed = Cardinality(FailedOf(Ok(T)))
      BY <1>1, <1>2, <1>3, <2>1, Zenon
    <2>5. next.throttled = Cardinality(ThrottledOf(T))
      BY <1>1, <1>2, <1>3, <2>1, Zenon
    <2> QED BY <2>2, <2>3, <2>4, <2>5
  <1> QED BY <1>4 DEF CountInv, T, next

\* It is the last so far, and the first where there was none.
LEMMA TimeStep ==
  ASSUME TypeOK, NEW S \in SUBSET Table, NEW r \in Table, \A q \in S : Before(r, q),
         NEW acc, TimeInv(acc, S)
  PROVE  TimeInv(Accumulate(acc, r), S \cup {r})
  <1>1. \A q \in S \cup {r} : started[q] \in Nat /\ started[q] <= started[r]
    <2>1. \A q \in Table : q \in Nat /\ started[q] \in Nat
      BY RunsAssumption, TimesAssumption DEF TypeOK, Table
    <2>2. \A q \in S : started[q] <= started[r]
      BY <2>1 DEF Before
    <2> QED BY <2>1, <2>2
  <1>2. /\ Accumulate(acc, r).last_started_at = started[r]
        /\ Accumulate(acc, r).first_started_at = IF acc.first_started_at = None
                                                 THEN started[r] ELSE acc.first_started_at
    BY DEF Accumulate
  <1>3. CASE S = {}
    BY <1>1, <1>2, <1>3 DEF TimeInv
  <1>4. CASE S # {}
    <2>1. acc.first_started_at # None
      BY NoneAssumption, <1>4 DEF TimeInv
    <2>2. acc.first_started_at <= started[r]
      BY <1>1, <1>4 DEF TimeInv
    <2> QED BY <1>1, <1>2, <1>4, <2>1, <2>2 DEF TimeInv
  <1> QED BY <1>3, <1>4

\* What is known stays known.
LEMMA KnownStep ==
  ASSUME NEW S, NEW r, NEW acc, KnownInv(acc, S)
  PROVE  KnownInv(Accumulate(acc, r), S \cup {r})
  <1> SUFFICES ASSUME NEW f \in KnownColumns
               PROVE  LET known == Accumulate(acc, r).known[f]
                      IN  IF known = None THEN \A q \in S \cup {r} : Attr[q][f] = None
                          ELSE \E q \in S \cup {r} : Attr[q][f] = known
    BY DEF KnownInv
  <1>1. Accumulate(acc, r).known[f] = IF acc.known[f] = None THEN Attr[r][f] ELSE acc.known[f]
    BY DEF Accumulate
  <1> QED BY <1>1 DEF KnownInv

\* A run that succeeded adds a sample of each metric that it has.
LEMMA SampleStep ==
  ASSUME NEW S \in SUBSET Runs, NEW r \in Runs \ S, NEW acc, SampleInv(acc, S)
  PROVE  SampleInv(Accumulate(acc, r), S \cup {r})
  <1> DEFINE next == Accumulate(acc, r)
             ok == Attr[r]["exit_status"] = "succeeded"
  <1>1. /\ next.prefill = IF ok THEN Append(acc.prefill, Attr[r]["prefill"]) ELSE acc.prefill
        /\ next.decode = IF ok /\ Attr[r]["decode"] # None
                         THEN Append(acc.decode, Attr[r]["decode"]) ELSE acc.decode
    BY DEF Accumulate
  <1>2. Attr[r]["prefill"] \in Nat /\ Attr[r]["decode"] \in Nat \cup {None}
    BY AttrAssumption
  <1>3. IsFiniteSet(Ok(S)) /\ r \notin Ok(S)
    BY RunsAssumption, FS_Subset DEF Ok
  <1> HIDE DEF next
  <1>4. CASE ~ ok
    <2>1. Ok(S \cup {r}) = Ok(S)
      BY <1>4 DEF Ok
    <2> QED BY <1>1, <1>4, <2>1 DEF SampleInv, next
  <1>5. CASE ok
    <2>1. Ok(S \cup {r}) = Ok(S) \cup {r}
      BY <1>5 DEF Ok
    <2>2. Samples(next.prefill, Ok(S) \cup {r}, "prefill")
      <3>1. Samples(acc.prefill, Ok(S), "prefill")
        BY DEF SampleInv
      <3>2. Samples(Append(acc.prefill, Attr[r]["prefill"]), Ok(S) \cup {r}, "prefill")
        BY <1>2, <1>3, <3>1, OneSample
      <3> QED BY <1>1, <1>5, <3>2
    <2>3. Samples(next.decode, Ok(S) \cup {r}, "decode")
      <3>1. CASE Attr[r]["decode"] = None
        <4>1. Samples(acc.decode, Ok(S), "decode")
          BY DEF SampleInv
        <4>2. Attr[r]["decode"] \notin Nat
          BY <3>1, NoneAssumption
        <4>3. Samples(acc.decode, Ok(S) \cup {r}, "decode")
          BY <4>1, <4>2, NoSample
        <4> QED BY <1>1, <3>1, <4>3
      <3>2. CASE Attr[r]["decode"] # None
        <4>1. Samples(acc.decode, Ok(S), "decode")
          BY DEF SampleInv
        <4>2. Samples(Append(acc.decode, Attr[r]["decode"]), Ok(S) \cup {r}, "decode")
          BY <1>2, <1>3, <3>2, <4>1, OneSample
        <4> QED BY <1>1, <1>5, <3>2, <4>2
      <3> QED BY <3>1, <3>2
    <2> QED BY <2>1, <2>2, <2>3 DEF SampleInv, next
  <1> QED BY <1>4, <1>5

\* Folding over the runs of a set, oldest first, accumulates what the set says.
LEMMA Accumulated ==
  ASSUME TypeOK, NEW S \in SUBSET Table
  PROVE  AccInv(FoldLeft(Accumulate, Empty, Arrival(S)), S)
  <1> DEFINE seq == Arrival(S)
             n   == Cardinality(S)
             before(i) == {seq[j] : j \in 1..i}
  <1>1. /\ n \in Nat /\ DOMAIN seq = 1..n
        /\ \A i \in 1..n : seq[i] \in S
        /\ \A r \in S : \E i \in 1..n : seq[i] = r
        /\ \A i, j \in 1..n : i < j => Before(seq[j], seq[i])
    BY ArrivalIsSorted
  <1> HIDE DEF seq, n
  <1>2. PICK acc : /\ acc[0] = Empty
                   /\ \A i \in 1..n : acc[i] = Accumulate(acc[i - 1], seq[i])
                   /\ FoldLeft(Accumulate, Empty, seq) = acc[n]
    BY <1>1, FoldSteps
  <1>3. AccInv(acc[0], before(0))
    BY <1>2, AccEmpty
  <1>4. ASSUME NEW i \in 1..n, AccInv(acc[i - 1], before(i - 1))
        PROVE  AccInv(acc[i], before(i))
    <2> DEFINE T == before(i - 1)
               r == seq[i]
               a == acc[i - 1]
    <2>1. T \in SUBSET Table /\ r \in Table /\ \A q \in T : Before(r, q)
      BY <1>1
    <2>2. before(i) = T \cup {r}
      BY <1>1
    <2>3. acc[i] = Accumulate(a, r) /\ AccInv(a, T)
      BY <1>2, <1>4
    <2> HIDE DEF before, T, r, a
    <2>4. r \notin T
      BY <2>1, Order
    <2>5. IsFiniteSet(T) /\ T \in SUBSET Runs /\ r \in Runs \ T
      BY <2>1, <2>4, RunsAssumption, FS_Subset DEF Table
    <2>6. /\ CountInv(Accumulate(a, r), T \cup {r}) /\ TimeInv(Accumulate(a, r), T \cup {r})
          /\ KnownInv(Accumulate(a, r), T \cup {r}) /\ SampleInv(Accumulate(a, r), T \cup {r})
      BY <2>1, <2>3, <2>4, <2>5, CountStep, TimeStep, KnownStep, SampleStep DEF AccInv
    <2> QED BY <2>2, <2>3, <2>6 DEF AccInv
  <1> DEFINE Good == {T \in SUBSET (1..n) : \A i \in 0..n : T = 1..i => AccInv(acc[i], before(i))}
  <1>5. ASSUME NEW T \in SUBSET (1..n), \A U \in SUBSET T : U # T => U \in Good
        PROVE  T \in Good
    <2> SUFFICES ASSUME NEW i \in 0..n, T = 1..i PROVE AccInv(acc[i], before(i))
      BY DEF Good
    <2>1. CASE i = 0
      BY <1>3, <2>1
    <2>2. CASE i # 0
      <3>1. i \in 1..n /\ i - 1 \in 0..n /\ 1..(i - 1) \in SUBSET T /\ 1..(i - 1) # T
        BY <1>1, <2>2
      <3>2. 1..(i - 1) \in Good
        BY <1>5, <3>1
      <3>3. AccInv(acc[i - 1], before(i - 1))
        BY <3>1, <3>2 DEF Good
      <3> QED BY <1>4, <3>1, <3>3
    <2> QED BY <2>1, <2>2
  <1> HIDE DEF Good
  <1>6. 1..n \in Good
    <2> DEFINE All == 1..n
    <2>1. IsFiniteSet(All)
      BY <1>1, UpTo
    <2>2. \A T \in SUBSET All : (\A U \in SUBSET T : U # T => U \in Good) => T \in Good
      BY <1>5, Zenon
    <2>3. \A T \in SUBSET All : T \in Good
      <3> HIDE DEF All
      <3> QED BY <2>1, <2>2, FiniteInduction, Zenon
    <2> QED BY <2>3
  <1>7. before(n) = S
    BY <1>1
  <1> HIDE DEF before
  <1>8. AccInv(acc[n], before(n))
    BY <1>1, <1>6 DEF Good
  <1> QED BY <1>2, <1>7, <1>8 DEF seq

-----------------------------------------------------------------------------
(* Order statistics *)

LessThan(K, val, x) == {k \in K : val[k] < x}
AtMost(K, val, x) == {k \in K : val[k] <= x}
MoreThan(K, val, x) == {k \in K : val[k] > x}
EqualTo(K, val, x) == {k \in K : val[k] = x}

\* x is the i-th of the values, the least first.
IsNth(K, val, i, x) ==
  Cardinality(LessThan(K, val, x)) < i /\ Cardinality(AtMost(K, val, x)) >= i

Values(K, val) == IsFiniteSet(K) /\ \A k \in K : val[k] \in Nat

\* What the sets on either side of a value have to do with each other.
LEMMA Sides ==
  ASSUME NEW K, NEW val, Values(K, val), NEW x \in Nat
  PROVE  /\ Cardinality(K) \in Nat
         /\ Cardinality(LessThan(K, val, x)) \in Nat
         /\ Cardinality(AtMost(K, val, x)) \in Nat
         /\ Cardinality(AtMost(K, val, x)) <= Cardinality(K)
         /\ Cardinality(K) <= Cardinality(AtMost(K, val, x)) => AtMost(K, val, x) = K
         /\ Cardinality(MoreThan(K, val, x)) =
              Cardinality(K) - Cardinality(AtMost(K, val, x))
         /\ Cardinality(EqualTo(K, val, x)) =
              Cardinality(AtMost(K, val, x)) - Cardinality(LessThan(K, val, x))
  <1> DEFINE L == LessThan(K, val, x)
             M == AtMost(K, val, x)
             G == MoreThan(K, val, x)
             E == EqualTo(K, val, x)
  <1>1. /\ L \in SUBSET M /\ M \in SUBSET K /\ G = K \ M /\ E = M \ L
        /\ L = M \cap L /\ M = K \cap M
    BY DEF LessThan, AtMost, MoreThan, EqualTo, Values
  <1> HIDE DEF L, M, G, E
  <1>2. IsFiniteSet(K) /\ IsFiniteSet(M) /\ IsFiniteSet(L)
    BY <1>1, FS_Subset DEF Values
  <1>3. Cardinality(K) \in Nat /\ Cardinality(M) \in Nat /\ Cardinality(L) \in Nat
    BY <1>2, FS_CardinalityType
  <1>4. Cardinality(M) <= Cardinality(K) /\ (Cardinality(K) <= Cardinality(M) => M = K)
    BY <1>1, <1>2, <1>3, FS_Subset
  <1>5. Cardinality(K \ M) = Cardinality(K) - Cardinality(K \cap M)
    BY <1>2, FS_Difference
  <1>6. Cardinality(M \ L) = Cardinality(M) - Cardinality(M \cap L)
    BY <1>2, FS_Difference
  <1>7. Cardinality(G) = Cardinality(K) - Cardinality(M)
    BY <1>1, <1>5, Zenon
  <1>8. Cardinality(E) = Cardinality(M) - Cardinality(L)
    BY <1>1, <1>6, Zenon
  <1> QED BY <1>3, <1>4, <1>7, <1>8 DEF L, M, G, E

\* The first numbers are as many as they say.
LEMMA SizeUpTo == \A n \in Nat : IsFiniteSet(1..n) /\ Cardinality(1..n) = n
  BY FS_Interval

\* Every place of a sequence's order is taken by one of its values.
LEMMA NthExists ==
  ASSUME NEW n \in Nat, NEW s, Values(1..n, s), NEW i \in 1..n
  PROVE  \E k \in 1..n : IsNth(1..n, s, i, s[k])
  <1> DEFINE K == 1..n
             R == {p \in K \X K : s[p[1]] < s[p[2]] \/ (s[p[1]] = s[p[2]] /\ p[1] < p[2])}
  <1>1. \A j, k \in K : <<j, k>> \in R <=> s[j] < s[k] \/ (s[j] = s[k] /\ j < k)
    OBVIOUS
  <1>2. \A j \in K : s[j] \in Nat /\ j \in Nat
    BY DEF Values
  <1>3. IsFiniteSet(K) /\ Cardinality(K) = n
    BY FS_Interval
  <1> HIDE DEF R, K
  <1>4. IsStrictOrder(R, K)
    BY <1>1, <1>2 DEF IsStrictOrder
  <1>5. i - 1 \in 0..(Cardinality(K) - 1)
    BY <1>3
  <1>6. PICK k \in K : Cardinality(Below(R, K, k)) = i - 1
    BY <1>3, <1>4, <1>5, Ranks
  <1> DEFINE B == Below(R, K, k)
             L == LessThan(K, s, s[k])
             M == AtMost(K, s, s[k])
  <1>7. B \in SUBSET K /\ k \notin B /\ L \in SUBSET B /\ B \cup {k} \in SUBSET M /\ M \in SUBSET K
    BY <1>1, <1>2, <1>6 DEF Below, LessThan, AtMost
  <1> HIDE DEF B, L, M
  <1>8. IsFiniteSet(B) /\ IsFiniteSet(M)
    BY <1>3, <1>7, FS_Subset
  <1>9. Cardinality(B \cup {k}) = Cardinality(B) + 1
    BY <1>7, <1>8, FS_AddElement
  <1>10. Cardinality(L) <= Cardinality(B) /\ Cardinality(B \cup {k}) <= Cardinality(M)
    BY <1>7, <1>8, FS_Subset
  <1>11. IsFiniteSet(L) /\ Cardinality(L) \in Nat /\ Cardinality(M) \in Nat
    BY <1>7, <1>8, FS_Subset, FS_CardinalityType
  <1>12. Cardinality(B) = i - 1
    BY <1>6 DEF B
  <1>13. Cardinality(L) < i /\ Cardinality(M) >= i
    BY <1>9, <1>10, <1>11, <1>12
  <1> QED BY <1>13 DEF IsNth, L, M, K

\* Later places have values no less,
LEMMA NthOrdered ==
  ASSUME NEW K, NEW val, Values(K, val), NEW i \in Nat, NEW x \in Nat, NEW y \in Nat,
         IsNth(K, val, i, x), IsNth(K, val, i + 1, y)
  PROVE  x <= y
  <1> SUFFICES ASSUME y < x PROVE FALSE
    OBVIOUS
  <1> DEFINE M == AtMost(K, val, y)
             L == LessThan(K, val, x)
  <1>1. M \in SUBSET L /\ L \in SUBSET K
    BY DEF AtMost, LessThan, Values
  <1>2. Cardinality(M) \in Nat /\ Cardinality(L) \in Nat
    BY Sides
  <1>3. Cardinality(L) < i /\ Cardinality(M) >= i + 1
    BY DEF IsNth
  <1> HIDE DEF M, L
  <1>4. Cardinality(M) <= Cardinality(L)
    BY <1>1, FS_Subset DEF Values
  <1> QED BY <1>2, <1>3, <1>4

\* and a value at two places is that of two.
LEMMA NthTwice ==
  ASSUME NEW K, NEW val, Values(K, val), NEW i \in Nat, NEW x \in Nat,
         IsNth(K, val, i, x), IsNth(K, val, i + 1, x)
  PROVE  \E j, k \in K : j # k /\ val[j] = x /\ val[k] = x
  <1> DEFINE E == EqualTo(K, val, x)
             a == Cardinality(AtMost(K, val, x))
             l == Cardinality(LessThan(K, val, x))
  <1>1. Cardinality(E) = a - l /\ a \in Nat /\ l \in Nat
    BY Sides
  <1>2. Cardinality(E) \in Nat /\ Cardinality(E) >= 2
    BY <1>1 DEF IsNth
  <1>3. IsFiniteSet(E)
    BY FS_Subset DEF Values, EqualTo
  <1> HIDE DEF E
  <1>4. PICK j \in E : TRUE
    BY <1>2, FS_EmptySet
  <1>5. Cardinality(E \ {j}) = Cardinality(E) - 1
    BY <1>3, FS_RemoveElement
  <1>6. PICK k \in E \ {j} : TRUE
    BY <1>2, <1>5, FS_EmptySet
  <1> QED BY <1>4, <1>6 DEF E, EqualTo

\* What sorting the samples gives is their order,
LEMMA SortedInOrder ==
  ASSUME NEW s \in Seq(Nat)
  PROVE  LET t == Sorted(s)
         IN  /\ Values(1..Len(s), s) /\ t \in Seq(Nat) /\ Len(t) = Len(s)
             /\ \A i \in 1..Len(s) : /\ IsNth(1..Len(s), s, i, t[i])
                                     /\ \E k \in 1..Len(s) : t[i] = s[k]
  <1> DEFINE n == Len(s)
             K == 1..n
             t == Sorted(s)
  <1>1. n \in Nat /\ DOMAIN s = K /\ \A k \in K : s[k] \in Nat
    OBVIOUS
  <1>2. Values(K, s)
    BY <1>1, FS_Interval DEF Values
  <1>3. t = [i \in K |-> CHOOSE x \in Range(s) : IsNth(K, s, i, x)]
    BY <1>1 DEF Sorted, IsNth, LessThan, AtMost
  <1>4. Range(s) = {s[k] : k \in K}
    BY <1>1 DEF Range
  <1> HIDE DEF K
  <1>5. ASSUME NEW i \in K PROVE t[i] \in Range(s) /\ IsNth(K, s, i, t[i])
    <2>1. \E k \in K : IsNth(K, s, i, s[k])
      BY <1>1, <1>2, NthExists DEF K
    <2>2. \E x \in Range(s) : IsNth(K, s, i, x)
      BY <1>4, <2>1
    <2>3. t[i] = CHOOSE x \in Range(s) : IsNth(K, s, i, x)
      BY <1>3
    <2> QED BY <2>2, <2>3
  <1>6. ASSUME NEW i \in K PROVE t[i] \in Nat /\ \E k \in K : t[i] = s[k]
    BY <1>1, <1>4, <1>5
  <1>7. t \in [1..n -> Nat]
    BY <1>3, <1>6 DEF K
  <1> HIDE DEF t
  <1>8. t \in Seq(Nat) /\ Len(t) = n
    <2> HIDE DEF n
    <2> QED BY <1>1, <1>7
  <1> QED BY <1>2, <1>5, <1>6, <1>8 DEF K, t

Known(S, metric) == {r \in S : Attr[r][metric] # None}
ValueOf(S, metric) == [r \in Known(S, metric) |-> Attr[r][metric]]

\* which is the order of the runs that they are of.
LEMMA PlaceAmongRuns ==
  ASSUME NEW S \in SUBSET Runs, NEW metric, \A r \in S : Attr[r][metric] \in Nat \cup {None},
         NEW s, Samples(s, S, metric)
  PROVE  LET K   == Known(S, metric)
             val == ValueOf(S, metric)
         IN  /\ Values(K, val) /\ Cardinality(K) = Len(s)
             /\ \A i, x \in Nat : IsNth(1..Len(s), s, i, x) => IsNth(K, val, i, x)
             /\ \A k \in 1..Len(s) : \E r \in K : val[r] = s[k]
  <1> DEFINE K   == Known(S, metric)
             val == ValueOf(S, metric)
             D   == 1..Len(s)
  <1>1. D = DOMAIN s /\ Len(s) \in Nat /\ \A k \in D : s[k] \in Nat
    BY DEF Samples
  <1>2. IsFiniteSet(K)
    BY RunsAssumption, FS_Subset DEF Known
  <1>3. \A r \in K : r \in S /\ val[r] = Attr[r][metric] /\ val[r] \in Nat
    BY DEF Known, ValueOf
  <1>4. ASSUME NEW V \in SUBSET Nat
        PROVE  Cardinality({k \in D : s[k] \in V}) = Cardinality({r \in K : val[r] \in V})
    <2>1. {r \in S : Attr[r][metric] \in V} = {r \in K : val[r] \in V}
      BY NoneAssumption DEF Known, ValueOf
    <2>2. {k \in D : s[k] \in V} = {k \in DOMAIN s : s[k] \in V}
      BY <1>1
    <2> QED BY <2>1, <2>2, Zenon DEF Samples
  <1> HIDE DEF K, val
  <1>5. Cardinality(K) = Len(s)
    <2>1. {k \in D : s[k] \in Nat} = D /\ {r \in K : val[r] \in Nat} = K
      BY <1>1, <1>3
    <2>2. Cardinality(D) = Cardinality(K)
      <3>1. Cardinality({k \in D : s[k] \in Nat}) = Cardinality({r \in K : val[r] \in Nat})
        BY <1>4
      <3> QED BY <2>1, <3>1, Zenon
    <2>3. Cardinality(D) = Len(s)
      BY <1>1, SizeUpTo
    <2> QED BY <2>2, <2>3
  <1>6. ASSUME NEW i \in Nat, NEW x \in Nat, IsNth(D, s, i, x) PROVE IsNth(K, val, i, x)
    <2> DEFINE V == {v \in Nat : v < x}
               W == {v \in Nat : v <= x}
    <2>1. Cardinality({k \in D : s[k] \in V}) = Cardinality({r \in K : val[r] \in V})
      <3> V \in SUBSET Nat
        OBVIOUS
      <3> HIDE DEF V
      <3> QED BY <1>4
    <2>2. Cardinality({k \in D : s[k] \in W}) = Cardinality({r \in K : val[r] \in W})
      <3> W \in SUBSET Nat
        OBVIOUS
      <3> HIDE DEF W
      <3> QED BY <1>4
    <2>3. /\ {k \in D : s[k] \in V} = LessThan(D, s, x)
          /\ {k \in D : s[k] \in W} = AtMost(D, s, x)
      BY <1>1 DEF LessThan, AtMost
    <2>4. /\ {r \in K : val[r] \in V} = LessThan(K, val, x)
          /\ {r \in K : val[r] \in W} = AtMost(K, val, x)
      BY <1>3 DEF LessThan, AtMost
    <2> HIDE DEF V, W, D
    <2>5. Cardinality(LessThan(D, s, x)) = Cardinality(LessThan(K, val, x))
      BY <2>1, <2>3, <2>4, Zenon
    <2>6. Cardinality(AtMost(D, s, x)) = Cardinality(AtMost(K, val, x))
      BY <2>2, <2>3, <2>4, Zenon
    <2> QED BY <1>6, <2>5, <2>6, Zenon DEF IsNth
  <1>7. ASSUME NEW k \in D PROVE \E r \in K : val[r] = s[k]
    <2> DEFINE V == {s[k]}
               P == {j \in D : s[j] \in V}
               Q == {r \in K : val[r] \in V}
    <2>1. Cardinality(P) = Cardinality(Q)
      BY <1>1, <1>4
    <2>2. IsFiniteSet(P) /\ IsFiniteSet(Q) /\ P # {}
      <3>1. IsFiniteSet(D) /\ P \in SUBSET D /\ Q \in SUBSET K /\ k \in P
        BY <1>1, SizeUpTo
      <3> HIDE DEF P, Q, D
      <3> QED BY <1>2, <3>1, FS_Subset
    <2>3. Q # {}
      <3> HIDE DEF P, Q
      <3> QED BY <2>1, <2>2, FS_EmptySet
    <2> QED BY <2>3
  <1>8. Values(K, val)
    BY <1>2, <1>3 DEF Values
  <1> QED BY <1>5, <1>6, <1>7, <1>8 DEF K, val

\* A number is even or odd.
LEMMA Halving ==
  \A n \in Nat : /\ n \div 2 \in Nat
                 /\ n = 2 * (n \div 2) \/ n = 2 * (n \div 2) + 1
                 /\ n % 2 = 1 <=> n = 2 * (n \div 2) + 1
  OBVIOUS

Under(K, val, m) == {r \in K : 2 * val[r] < m}
Over(K, val, m) == {r \in K : 2 * val[r] > m}

\* A median has no more than half of the values on either side, and is one of
\* them, or the mean of two.
LEMMA MedianOf ==
  ASSUME NEW K, NEW val, Values(K, val), NEW n \in Nat \ {0}, Cardinality(K) = n,
         NEW t \in Seq(Nat), Len(t) = n,
         \A i \in 1..n : IsNth(K, val, i, t[i]) /\ \E r \in K : val[r] = t[i]
  PROVE  /\ Cardinality(Under(K, val, TwiceMedian(t))) <= n \div 2
         /\ Cardinality(Over(K, val, TwiceMedian(t))) <= n \div 2
         /\ \E q, r \in K : /\ (q = r) = (n % 2 = 1)
                            /\ val[q] + val[r] = TwiceMedian(t)
  <1> DEFINE h == n \div 2
             lo == Under(K, val, TwiceMedian(t))
             hi == Over(K, val, TwiceMedian(t))
  <1>1. h \in Nat /\ (n = 2 * h \/ n = 2 * h + 1) /\ (n % 2 = 1 <=> n = 2 * h + 1)
    BY Halving
  <1>2. \A r \in K : val[r] \in Nat
    BY DEF Values
  <1>3. \A i \in 1..n : t[i] \in Nat
    OBVIOUS
  <1>4. TwiceMedian(t) = IF n % 2 = 1 THEN 2 * t[h + 1] ELSE t[h] + t[h + 1]
    BY DEF TwiceMedian
  <1>5. h + 1 \in Nat /\ h + 1 >= 1 /\ (n = 2 * h + 1 => h + 1 \in 1..n)
        /\ (n = 2 * h => h \in 1..n /\ h + 1 \in 1..n)
    BY <1>1
  <1> HIDE DEF h
  <1>6. CASE n = 2 * h + 1
    <2> DEFINE x == t[h + 1]
    <2>1. x \in Nat /\ IsNth(K, val, h + 1, x) /\ TwiceMedian(t) = 2 * x
      BY <1>1, <1>3, <1>4, <1>5, <1>6
    <2>2. lo = LessThan(K, val, x) /\ hi = MoreThan(K, val, x)
      BY <1>2, <2>1 DEF LessThan, MoreThan, Under, Over
    <2> HIDE DEF x
    <2>3. /\ Cardinality(LessThan(K, val, x)) < h + 1
          /\ Cardinality(AtMost(K, val, x)) >= h + 1
      BY <2>1 DEF IsNth
    <2>4. /\ Cardinality(LessThan(K, val, x)) \in Nat
          /\ Cardinality(AtMost(K, val, x)) \in Nat
          /\ Cardinality(MoreThan(K, val, x)) = n - Cardinality(AtMost(K, val, x))
      BY <2>1, Sides
    <2>5. /\ Cardinality(LessThan(K, val, x)) <= h
          /\ Cardinality(MoreThan(K, val, x)) <= h
      BY <1>1, <1>6, <2>3, <2>4
    <2>6. PICK r \in K : val[r] = x
      BY <1>5, <1>6 DEF x
    <2>7. val[r] + val[r] = TwiceMedian(t) /\ (r = r) = (n % 2 = 1)
      BY <1>1, <1>6, <2>1, <2>6
    <2>8. Cardinality(lo) <= h /\ Cardinality(hi) <= h
      BY <2>2, <2>5, Zenon
    <2> QED BY <2>7, <2>8 DEF h
  <1>7. CASE n = 2 * h
    <2> DEFINE x == t[h]
               y == t[h + 1]
    <2>1. /\ x \in Nat /\ IsNth(K, val, h, x)
          /\ y \in Nat /\ IsNth(K, val, h + 1, y)
          /\ TwiceMedian(t) = x + y
      BY <1>1, <1>3, <1>4, <1>5, <1>7
    <2> HIDE DEF x, y
    <2>2. x <= y
      BY <1>1, <2>1, NthOrdered
    <2>3. lo \in SUBSET LessThan(K, val, y) /\ hi \in SUBSET MoreThan(K, val, x)
      BY <1>2, <2>1, <2>2 DEF LessThan, MoreThan, Under, Over
    <2>4. IsFiniteSet(LessThan(K, val, y)) /\ IsFiniteSet(MoreThan(K, val, x))
      BY FS_Subset DEF Values, LessThan, MoreThan
    <2> HIDE DEF lo, hi
    <2>5. /\ Cardinality(lo) <= Cardinality(LessThan(K, val, y))
          /\ Cardinality(hi) <= Cardinality(MoreThan(K, val, x))
          /\ Cardinality(lo) \in Nat /\ Cardinality(hi) \in Nat
      BY <2>3, <2>4, FS_Subset, FS_CardinalityType
    <2>6. /\ Cardinality(LessThan(K, val, y)) < h + 1
          /\ Cardinality(AtMost(K, val, x)) >= h
      BY <2>1 DEF IsNth
    <2>7. /\ Cardinality(LessThan(K, val, y)) \in Nat
          /\ Cardinality(AtMost(K, val, x)) \in Nat
          /\ Cardinality(MoreThan(K, val, x)) = n - Cardinality(AtMost(K, val, x))
      BY <2>1, Sides
    <2>8. Cardinality(lo) <= h /\ Cardinality(hi) <= h
      BY <1>1, <1>7, <2>5, <2>6, <2>7
    <2>9. \E q, r \in K : q # r /\ val[q] + val[r] = TwiceMedian(t)
      <3>1. CASE x = y
        <4>1. PICK q, r \in K : q # r /\ val[q] = x /\ val[r] = x
          BY <1>1, <2>1, <3>1, NthTwice
        <4> QED BY <2>1, <3>1, <4>1
      <3>2. CASE x # y
        <4>1. PICK q \in K, r \in K : val[q] = x /\ val[r] = y
          BY <1>5, <1>7 DEF x, y
        <4> QED BY <2>1, <3>2, <4>1
      <3> QED BY <3>1, <3>2
    <2>10. ~ (n % 2 = 1)
      BY <1>1, <1>7
    <2> QED BY <2>8, <2>9, <2>10 DEF h, lo, hi
  <1> QED BY <1>1, <1>6, <1>7

\* The statistics of the samples are those of the runs.
THEOREM StatsSummarise ==
  ASSUME NEW S \in SUBSET Runs, NEW metric, \A r \in S : Attr[r][metric] \in Nat \cup {None},
         NEW s, Samples(s, S, metric)
  PROVE  Summarises(Stats(s), S, metric)
  <1> DEFINE K   == Known(S, metric)
             val == ValueOf(S, metric)
             n   == Len(s)
             t   == Sorted(s)
  <1>1. /\ Values(K, val) /\ Cardinality(K) = n
        /\ \A i, x \in Nat : IsNth(1..n, s, i, x) => IsNth(K, val, i, x)
        /\ \A k \in 1..n : \E r \in K : val[r] = s[k]
    BY PlaceAmongRuns
  <1>2. \A r \in K : val[r] = Attr[r][metric]
    BY DEF ValueOf
  <1>3. s \in Seq(Nat) /\ n \in Nat
    BY DEF Samples
  <1>4. /\ t \in Seq(Nat) /\ Len(t) = n
        /\ \A i \in 1..n : IsNth(1..n, s, i, t[i]) /\ \E k \in 1..n : t[i] = s[k]
    BY <1>3, SortedInOrder
  <1>5. K = {r \in S : Attr[r][metric] # None}
    BY DEF Known
  <1> HIDE DEF t, K, val
  <1>6. \A i \in 1..n : /\ t[i] \in Nat /\ IsNth(K, val, i, t[i])
                        /\ \E r \in K : val[r] = t[i]
    <2> TAKE i \in 1..n
    <2>1. t[i] \in Nat /\ i \in Nat
      <3>1. t \in Seq(Nat) /\ Len(t) = n /\ n \in Nat
        BY <1>3, <1>4
      <3> HIDE DEF n
      <3> QED BY <3>1
    <2>2. IsNth(K, val, i, t[i])
      BY <1>1, <1>4, <2>1
    <2> QED BY <1>1, <1>4, <2>1, <2>2
  <1>7. CASE n = 0
    <2>1. K = {}
      BY <1>1, <1>7, FS_EmptySet DEF Values
    <2>2. Stats(s) = None
      BY <1>3, <1>7 DEF Stats
    <2> QED BY <1>5, <2>1, <2>2 DEF Summarises
  <1>8. CASE n # 0
    <2>1. n \in Nat \ {0} /\ 1 \in 1..n /\ n \in 1..n /\ s # <<>>
      BY <1>3, <1>8
    <2>2. Stats(s) = [twice_median |-> TwiceMedian(t), min |-> t[1], max |-> t[n], n |-> n]
      BY <1>4, <2>1 DEF Stats, t
    <2>3. K # {}
      BY <1>6, <2>1
    <2>4. (\E r \in K : val[r] = t[1]) /\ \E r \in K : val[r] = t[n]
      BY <1>6, <2>1
    <2>5. ASSUME NEW r \in K PROVE t[1] <= val[r] /\ val[r] <= t[n]
      <3>1. /\ t[1] \in Nat /\ t[n] \in Nat /\ val[r] \in Nat
            /\ IsNth(K, val, 1, t[1]) /\ IsNth(K, val, n, t[n])
        BY <1>1, <1>6, <2>1 DEF Values
      <3>2. LessThan(K, val, t[1]) = {}
        <4>1. /\ Cardinality(LessThan(K, val, t[1])) < 1
              /\ Cardinality(LessThan(K, val, t[1])) \in Nat
          BY <1>1, <3>1, Sides DEF IsNth
        <4>2. IsFiniteSet(LessThan(K, val, t[1]))
          BY <1>1, FS_Subset DEF Values, LessThan
        <4>3. Cardinality(LessThan(K, val, t[1])) = 0
          BY <4>1
        <4> QED BY <4>2, <4>3, FS_EmptySet
      <3>3. AtMost(K, val, t[n]) = K
        <4>1. Cardinality(K) = n /\ Values(K, val)
          BY <1>1
        <4>2. Cardinality(K) <= Cardinality(AtMost(K, val, t[n]))
          <5>1. Cardinality(AtMost(K, val, t[n])) \in Nat
            BY <3>1, <4>1, Sides
          <5> HIDE DEF n
          <5> QED BY <1>3, <3>1, <4>1, <5>1 DEF IsNth
        <4> DEFINE x == t[n]
        <4>3. x \in Nat /\ Cardinality(K) <= Cardinality(AtMost(K, val, x))
          BY <3>1, <4>2
        <4> HIDE DEF x
        <4>4. AtMost(K, val, x) = K
          BY ONLY <4>1, <4>3, Sides
        <4> QED BY <4>4 DEF x
      <3> QED BY <3>1, <3>2, <3>3 DEF LessThan, AtMost
    <2>6. /\ Cardinality(Under(K, val, TwiceMedian(t))) <= n \div 2
          /\ Cardinality(Over(K, val, TwiceMedian(t))) <= n \div 2
          /\ \E q, r \in K : /\ (q = r) = (n % 2 = 1)
                             /\ val[q] + val[r] = TwiceMedian(t)
      <3>1. \A i \in 1..n : IsNth(K, val, i, t[i]) /\ \E r \in K : val[r] = t[i]
        BY <1>6
      <3>2. Values(K, val) /\ Cardinality(K) = n /\ t \in Seq(Nat) /\ Len(t) = n
        BY <1>1, <1>4
      <3> HIDE DEF n
      <3> QED BY <2>1, <3>1, <3>2, MedianOf
    <2> DEFINE m == TwiceMedian(t)
               known == {r \in S : Attr[r][metric] # None}
    <2>7. /\ Under(K, val, m) = {r \in known : 2 * Attr[r][metric] < m}
          /\ Over(K, val, m) = {r \in known : 2 * Attr[r][metric] > m}
      BY <1>2, <1>5 DEF Under, Over
    <2>8. /\ Stats(s).n = n /\ Stats(s).min = t[1] /\ Stats(s).max = t[n]
          /\ Stats(s).twice_median = m
      BY <2>2
    <2>9. known = K
      BY <1>5
    <2>0. Summarises(Stats(s), S, metric) =
            IF known = {} THEN Stats(s) = None
            ELSE /\ Stats(s).n = Cardinality(known)
                 /\ \E r \in known : Attr[r][metric] = Stats(s).min
                 /\ \E r \in known : Attr[r][metric] = Stats(s).max
                 /\ \A r \in known : /\ Stats(s).min <= Attr[r][metric]
                                     /\ Attr[r][metric] <= Stats(s).max
                 /\ Cardinality({r \in known : 2 * Attr[r][metric] < Stats(s).twice_median})
                      <= Cardinality(known) \div 2
                 /\ Cardinality({r \in known : 2 * Attr[r][metric] > Stats(s).twice_median})
                      <= Cardinality(known) \div 2
                 /\ \E q, r \in known :
                      /\ (q = r) = (Cardinality(known) % 2 = 1)
                      /\ Attr[q][metric] + Attr[r][metric] = Stats(s).twice_median
      BY Zenon DEF Summarises
    <2> HIDE DEF m, known, n
    <2>10. Cardinality(known) = n
      BY <1>1, <2>9
    <2>11. /\ Cardinality({r \in known : 2 * Attr[r][metric] < m}) <= n \div 2
           /\ Cardinality({r \in known : 2 * Attr[r][metric] > m}) <= n \div 2
      BY <2>6, <2>7, Zenon DEF m
    <2>12. \E q, r \in known : /\ (q = r) = (n % 2 = 1)
                               /\ Attr[q][metric] + Attr[r][metric] = m
      BY <1>2, <2>6, <2>9 DEF m
    <2>13. /\ \E r \in known : Attr[r][metric] = t[1]
           /\ \E r \in known : Attr[r][metric] = t[n]
           /\ \A r \in known : t[1] <= Attr[r][metric] /\ Attr[r][metric] <= t[n]
      BY <1>2, <2>4, <2>5, <2>9
    <2>14. known # {}
      BY <2>3, <2>9
    <2>15. /\ Stats(s).n = Cardinality(known)
           /\ \E r \in known : Attr[r][metric] = Stats(s).min
           /\ \E r \in known : Attr[r][metric] = Stats(s).max
           /\ \A r \in known : /\ Stats(s).min <= Attr[r][metric]
                               /\ Attr[r][metric] <= Stats(s).max
      BY <2>8, <2>10, <2>13, Zenon
    <2>16. Cardinality({r \in known : 2 * Attr[r][metric] < Stats(s).twice_median})
             <= Cardinality(known) \div 2
      BY <2>8, <2>10, <2>11, Zenon
    <2>17. Cardinality({r \in known : 2 * Attr[r][metric] > Stats(s).twice_median})
             <= Cardinality(known) \div 2
      BY <2>8, <2>10, <2>11, Zenon
    <2>18. \E q, r \in known :
             /\ (q = r) = (Cardinality(known) % 2 = 1)
             /\ Attr[q][metric] + Attr[r][metric] = Stats(s).twice_median
      BY <2>8, <2>10, <2>12, Zenon
    <2> QED BY <2>0, <2>14, <2>15, <2>16, <2>17, <2>18, Zenon
  <1> QED BY <1>7, <1>8

-----------------------------------------------------------------------------
(* The rows of an answer *)

RowOf(S, key) ==
  Row(key, FoldLeft(Accumulate, Empty, Arrival({r \in S : KeyOf(r) = key})))

\* What RowsSummariseTheirRuns says of a row and its runs
Says(row, S) ==
  /\ row.total_runs = Cardinality(S) /\ S # {}
  /\ row.not_succeeded = Cardinality(S \ Ok(S))
  /\ row.correctness_failed = Cardinality(FailedOf(Ok(S)))
  /\ row.throttled = Cardinality(ThrottledOf(S))
  /\ \A r \in S : row.first_started_at <= started[r] /\ started[r] <= row.last_started_at
  /\ KnownInv(row, S)
  /\ Summarises(row.prefill, Ok(S), "prefill")
  /\ Summarises(row.decode, Ok(S), "decode")

\* The property of the runs, in these terms.
LEMMA RowsSay ==
  RowsSummariseTheirRuns =
    /\ \A row \in rows : Says(row, Of(row))
    /\ \A row, other \in rows : row.key = other.key => row = other
    /\ ~ truncated => \A r \in counted : \E row \in rows : row.key = KeyOf(r)
  <1>1. \A row : Succeeded(row) = Ok(Of(row))
    BY DEF Succeeded, Ok
  <1> QED BY <1>1, Zenon DEF RowsSummariseTheirRuns, Says, FailedOf, ThrottledOf, KnownInv

\* (The same of the next state.)
LEMMA RowsSayNext ==
  RowsSummariseTheirRuns' =
    /\ \A row \in rows' : Says(row, Of(row))'
    /\ \A row, other \in rows' : row.key = other.key => row = other
    /\ ~ truncated' => \A r \in counted' : \E row \in rows' : row.key = KeyOf(r)
  <1>1. \A row : Succeeded(row)' = Ok(Of(row)')
    BY DEF Succeeded, Ok
  <1> QED BY <1>1, Zenon DEF RowsSummariseTheirRuns, Says, FailedOf, ThrottledOf, KnownInv

\* It says so as long as the start times of those runs stay.
LEMMA RowsKept ==
  ASSUME RowsSummariseTheirRuns, rows' = rows, counted' = counted, truncated' = truncated,
         \A r \in counted : started'[r] = started[r]
  PROVE  RowsSummariseTheirRuns'
  <1>1. \A row : Of(row)' = Of(row) /\ \A r \in Of(row) : started'[r] = started[r]
    BY DEF Of
  <1>2. ASSUME NEW row \in rows, Says(row, Of(row)) PROVE Says(row, Of(row))'
    BY <1>1, <1>2, Zenon DEF Says
  <1>3. \A row \in rows : Says(row, Of(row))
    BY RowsSay, Zenon
  <1>4. /\ \A row, other \in rows' : row.key = other.key => row = other
        /\ ~ truncated' => \A r \in counted' : \E row \in rows' : row.key = KeyOf(r)
    BY RowsSay, Zenon
  <1> QED BY <1>2, <1>3, <1>4, RowsSayNext, Zenon

\* A row says what its runs say.
LEMMA RowSays ==
  ASSUME TypeOK, NEW S \in SUBSET Table, NEW key \in {KeyOf(r) : r \in S}
  PROVE  Says(RowOf(S, key), {r \in S : KeyOf(r) = key}) /\ RowOf(S, key).key = key
  <1> DEFINE T   == {r \in S : KeyOf(r) = key}
             acc == FoldLeft(Accumulate, Empty, Arrival(T))
             row == RowOf(S, key)
  <1>1. T \in SUBSET Table /\ T # {}
    OBVIOUS
  <1>2. row = Row(key, acc)
    BY DEF RowOf
  <1> HIDE DEF T, row
  <1>3. AccInv(acc, T)
    BY <1>1, Accumulated
  <1> HIDE DEF acc
  <1>4. /\ row.key = key /\ row.known = acc.known
        /\ row.prefill = Stats(acc.prefill) /\ row.decode = Stats(acc.decode)
        /\ row.total_runs = acc.total_runs /\ row.not_succeeded = acc.not_succeeded
        /\ row.correctness_failed = acc.correctness_failed /\ row.throttled = acc.throttled
        /\ row.first_started_at = acc.first_started_at
        /\ row.last_started_at = acc.last_started_at
    BY <1>2 DEF Row
  <1>5. /\ row.total_runs = Cardinality(T)
        /\ row.not_succeeded = Cardinality(T \ Ok(T))
        /\ row.correctness_failed = Cardinality(FailedOf(Ok(T)))
        /\ row.throttled = Cardinality(ThrottledOf(T))
    BY <1>3, <1>4, Zenon DEF AccInv, CountInv
  <1>6. \A r \in T : row.first_started_at <= started[r] /\ started[r] <= row.last_started_at
    BY <1>1, <1>3, <1>4, Zenon DEF AccInv, TimeInv
  <1>7. KnownInv(row, T)
    BY <1>3, <1>4, Zenon DEF AccInv, KnownInv
  <1>8. Ok(T) \in SUBSET Runs
    BY <1>1 DEF Ok, Table
  <1>9. \A r \in Ok(T) : /\ Attr[r]["prefill"] \in Nat \cup {None}
                         /\ Attr[r]["decode"] \in Nat \cup {None}
    BY <1>8, AttrAssumption
  <1>10. Summarises(row.prefill, Ok(T), "prefill")
    <2>1. Samples(acc.prefill, Ok(T), "prefill")
      BY <1>3, Zenon DEF AccInv, SampleInv
    <2>2. Summarises(Stats(acc.prefill), Ok(T), "prefill")
      BY <1>8, <1>9, <2>1, StatsSummarise
    <2> QED BY <1>4, <2>2, Zenon
  <1>11. Summarises(row.decode, Ok(T), "decode")
    <2>1. Samples(acc.decode, Ok(T), "decode")
      BY <1>3, Zenon DEF AccInv, SampleInv
    <2>2. Summarises(Stats(acc.decode), Ok(T), "decode")
      BY <1>8, <1>9, <2>1, StatsSummarise
    <2> QED BY <1>4, <2>2, Zenon
  <1>12. Says(row, T)
    BY <1>1, <1>5, <1>6, <1>7, <1>10, <1>11, Zenon DEF Says
  <1> QED BY <1>4, <1>12 DEF T, row

\* There are finitely many configurations.
LEMMA GroupedFinite ==
  ASSUME NEW S, IsFiniteSet(S)
  PROVE  Grouped(S) = {RowOf(S, key) : key \in {KeyOf(r) : r \in S}} /\ IsFiniteSet(Grouped(S))
  <1>1. Grouped(S) = {RowOf(S, key) : key \in {KeyOf(r) : r \in S}}
    BY DEF Grouped, RowOf
  <1> DEFINE of == [r \in S |-> RowOf(S, KeyOf(r))]
  <1>2. of \in Surjection(S, Grouped(S))
    BY <1>1 DEF Surjection
  <1> HIDE DEF of
  <1>3. IsFiniteSet(Grouped(S))
    BY <1>2, FS_Surjection
  <1> QED BY <1>1, <1>3

-----------------------------------------------------------------------------
(* The answer *)

\* What the filters offer covers the runs that were counted, column by column
\* as the queries of one answer go: no run is ever taken out of the table.
FacetsCoverCounted ==
  /\ DOMAIN facets = FacetColumns \cup {"model_asset_id"}
  /\ stage \in {"facets", "answered"} =>
       \A r \in counted : Attr[r]["model_asset_id"] \in facets["model_asset_id"]
  /\ stage = "answered" =>
       \A r \in counted : \A f \in FacetColumns :
         Attr[r][f] # None => Attr[r][f] \in facets[f]

\* The strengthening: the rows and the facets of any answer, with the paging that
\* it shares the table with.
AnswerInv ==
  TypeOK /\ counted \subseteq Table /\ FacetsCoverCounted /\ RowsSummariseTheirRuns

\* There is no answer yet.
LEMMA InitAnswer == Init /\ ResultsInit => AnswerInv
  <1> SUFFICES ASSUME Init, ResultsInit PROVE AnswerInv
    OBVIOUS
  <1>1. TypeOK
    BY DEF Init, TypeOK
  <1>2. counted \subseteq Table /\ FacetsCoverCounted
    BY DEF ResultsInit, FacetsCoverCounted
  <1>3. RowsSummariseTheirRuns
    BY DEF ResultsInit, RowsSummariseTheirRuns
  <1> QED BY <1>1, <1>2, <1>3 DEF AnswerInv

\* A refused request leaves no rows.
LEMMA RefuseAnswer ==
  ASSUME AnswerInv, UNCHANGED vars, NEW filter, Refuse(filter)
  PROVE  AnswerInv'
  <1>1. TypeOK' /\ (counted \subseteq Table)'
    BY DEF AnswerInv, TypeOK, vars, reader, Refuse, Table
  <1>2. FacetsCoverCounted'
    BY DEF AnswerInv, FacetsCoverCounted, Refuse
  <1>3. RowsSummariseTheirRuns'
    BY DEF Refuse, RowsSummariseTheirRuns
  <1> QED BY <1>1, <1>2, <1>3 DEF AnswerInv

\* The rows that are asked for say what their runs say, and none is left out
\* but by the limit.
LEMMA AskRowsAnswer ==
  ASSUME AnswerInv, UNCHANGED vars, NEW filter, AskRows(filter)
  PROVE  AnswerInv'
  <1> DEFINE S == counted'
             all == Grouped(S)
  <1>1. started' = started /\ TypeOK /\ TypeOK' /\ S \in SUBSET Table /\ (counted \subseteq Table)'
    BY DEF AnswerInv, TypeOK, vars, reader, AskRows, Table
  <1>2. FacetsCoverCounted'
    BY DEF AnswerInv, FacetsCoverCounted, AskRows
  <1>3. IsFiniteSet(S)
    BY <1>1, RunsAssumption, FS_Subset DEF Table
  <1> HIDE DEF S
  <1>4. all = {RowOf(S, key) : key \in {KeyOf(r) : r \in S}} /\ IsFiniteSet(all)
    BY <1>3, GroupedFinite
  <1>5. /\ rows' \in SUBSET all
        /\ truncated' = (Cardinality(all) > MaxRows)
        /\ Cardinality(rows') = IF truncated' THEN MaxRows ELSE Cardinality(all)
    BY Zenon DEF AskRows, S
  <1>6. \A row \in rows' : /\ row.key \in {KeyOf(r) : r \in S} /\ row = RowOf(S, row.key)
                           /\ Says(row, {r \in S : KeyOf(r) = row.key})
    <2> TAKE row \in rows'
    <2>1. PICK key \in {KeyOf(r) : r \in S} : row = RowOf(S, key)
      BY <1>4, <1>5
    <2>2. Says(RowOf(S, key), {r \in S : KeyOf(r) = key}) /\ RowOf(S, key).key = key
      BY <1>1, RowSays
    <2> QED BY <2>1, <2>2, Zenon
  <1>7. \A row \in rows' : Says(row, Of(row))'
    <2> TAKE row \in rows'
    <2>1. Of(row)' = {r \in S : KeyOf(r) = row.key}
      BY Zenon DEF Of, S
    <2>2. Says(row, Of(row)')
      BY <1>6, <2>1, Zenon
    <2>3. Says(row, Of(row))' <=> Says(row, Of(row)')
      BY <1>1, Zenon DEF Says
    <2> QED BY <2>2, <2>3
  <1>8. \A row, other \in rows' : row.key = other.key => row = other
    BY <1>6, Zenon
  <1>9. ASSUME ~ truncated', NEW r \in S PROVE \E row \in rows' : row.key = KeyOf(r)
    <2>1. rows' = all
      <3> HIDE DEF all
      <3> QED BY <1>4, <1>5, <1>9, FS_Subset
    <2>2. RowOf(S, KeyOf(r)) \in rows'
      BY <1>4, <2>1
    <2>3. RowOf(S, KeyOf(r)).key = KeyOf(r)
      BY <1>1, RowSays
    <2> QED BY <2>2, <2>3
  <1>10. RowsSummariseTheirRuns'
    <2>1. ~ truncated' => \A r \in counted' : \E row \in rows' : row.key = KeyOf(r)
      BY <1>9 DEF S
    <2> QED BY <1>7, <1>8, <2>1, RowsSayNext, Zenon
  <1> QED BY <1>1, <1>2, <1>10 DEF AnswerInv

\* The models of all runs in the table cover those that were counted before.
LEMMA AskModelsAnswer ==
  ASSUME AnswerInv, UNCHANGED vars, AskModels
  PROVE  AnswerInv'
  <1>1. TypeOK' /\ (counted \subseteq Table)'
    BY DEF AnswerInv, TypeOK, vars, reader, AskModels, Table
  <1>2. FacetsCoverCounted'
    BY DEF AnswerInv, FacetsCoverCounted, AskModels, FacetColumns
  <1>3. RowsSummariseTheirRuns'
    BY RowsKept DEF AnswerInv, AskModels, vars
  <1> QED BY <1>1, <1>2, <1>3 DEF AnswerInv

\* And so do the values of the other columns.
LEMMA AskFacetsAnswer ==
  ASSUME AnswerInv, UNCHANGED vars, AskFacets
  PROVE  AnswerInv'
  <1>1. TypeOK' /\ (counted \subseteq Table)'
    BY DEF AnswerInv, TypeOK, vars, reader, AskFacets, Table
  <1>2. FacetsCoverCounted'
    BY DEF AnswerInv, FacetsCoverCounted, AskFacets, FacetColumns
  <1>3. RowsSummariseTheirRuns'
    BY RowsKept DEF AnswerInv, AskFacets, vars
  <1> QED BY <1>1, <1>2, <1>3 DEF AnswerInv

\* A run that is inserted is not one of those that were counted.
LEMMA InsertAnswer ==
  ASSUME AnswerInv, UNCHANGED results, NEW r \in Runs, NEW at \in Times, Insert(r, at)
  PROVE  AnswerInv'
  <1>1. TypeOK'
    BY DEF AnswerInv, TypeOK, Insert, reader
  <1>2. (counted \subseteq Table)' /\ \A q \in counted : started'[q] = started[q]
    BY TimesAssumption, NoneAssumption DEF AnswerInv, TypeOK, Insert, Table, results
  <1>3. FacetsCoverCounted'
    BY DEF AnswerInv, FacetsCoverCounted, results
  <1>4. RowsSummariseTheirRuns'
    BY <1>2, RowsKept DEF AnswerInv, results
  <1> QED BY <1>1, <1>2, <1>3, <1>4 DEF AnswerInv

\* AnswerInv is inductive.
LEMMA NextAnswer ==
  AnswerInv /\ [ResultsNext]_<<vars, results>> => AnswerInv'
  <1> SUFFICES ASSUME AnswerInv, [ResultsNext]_<<vars, results>> PROVE AnswerInv'
    OBVIOUS
  <1>1. CASE UNCHANGED reader /\ UNCHANGED started /\ Ask
    <2>1. UNCHANGED vars
      BY <1>1 DEF vars
    <2> QED BY <1>1, <2>1, RefuseAnswer, AskRowsAnswer, AskModelsAnswer, AskFacetsAnswer DEF Ask
  <1>2. CASE UNCHANGED results /\ \E r \in Runs, at \in Times : Insert(r, at)
    BY <1>2, InsertAnswer
  <1>3. CASE UNCHANGED <<vars, results>>
    <2>1. TypeOK' /\ (counted \subseteq Table)' /\ FacetsCoverCounted'
      BY <1>3 DEF AnswerInv, TypeOK, Table, FacetsCoverCounted, vars, reader, results
    <2>2. RowsSummariseTheirRuns'
      BY <1>3, RowsKept DEF AnswerInv, vars, results
    <2> QED BY <2>1, <2>2 DEF AnswerInv
  <1> QED BY <1>1, <1>2, <1>3 DEF ResultsNext

\* The inductive invariant of the front page.
THEOREM AnswerInductive == ResultsSpec => []AnswerInv
  BY InitAnswer, NextAnswer, PTL DEF ResultsSpec

\* Every row of the front page says what its runs say: their number in each
\* class, the first and the last, and the order statistics of their samples; no
\* configuration has two rows, or none unless the answer is truncated.
THEOREM RowsAreRight == ResultsSpec => []RowsSummariseTheirRuns
  <1>1. AnswerInv => RowsSummariseTheirRuns
    BY DEF AnswerInv
  <1> QED BY <1>1, AnswerInductive, PTL

\* A row shows nothing that the filters above it do not offer, whatever is
\* recorded between the three queries.
THEOREM FacetsAlwaysCover == ResultsSpec => []FacetsCoverRows
  <1>1. AnswerInv => FacetsCoverRows
    <2> SUFFICES ASSUME AnswerInv, stage = "answered", NEW row \in rows,
                        NEW f \in DOMAIN facets, Shown(row, f) # None
                 PROVE  Shown(row, f) \in facets[f]
      BY DEF FacetsCoverRows
    <2>1. Says(row, Of(row))
      BY RowsSay, Zenon DEF AnswerInv
    <2>2. \E r \in Of(row) : Attr[r][f] = Shown(row, f)
      <3>1. CASE f \in KnownColumns
        BY <2>1, <3>1, Zenon DEF Says, KnownInv, Shown
      <3>2. CASE f \notin KnownColumns
        <4>1. f \in KeyColumns
          BY <3>2 DEF AnswerInv, FacetsCoverCounted, FacetColumns, KnownColumns, KeyColumns
        <4>2. PICK r \in Of(row) : TRUE
          BY <2>1, Zenon DEF Says
        <4>3. row.key = KeyOf(r)
          BY <4>2 DEF Of
        <4>4. row.key[f] = Attr[r][f]
          BY <4>1, <4>3 DEF KeyOf
        <4> QED BY <3>2, <4>4 DEF Shown
      <3> QED BY <3>1, <3>2
    <2>3. PICK r \in counted : Attr[r][f] = Shown(row, f)
      BY <2>2 DEF Of
    <2> QED BY <2>3 DEF AnswerInv, FacetsCoverCounted
  <1> QED BY <1>1, AnswerInductive, PTL

\* The list that a row of the front page links to is never refused and has
\* every run that the row was made of.
THEOREM LinksListEveryRun == ResultsSpec => []LinkListsEveryRun
  <1>1. AnswerInv => LinkListsEveryRun
    <2> SUFFICES ASSUME AnswerInv, NEW row \in rows
                 PROVE  Parses(Link(row.key)) /\ Of(row) \subseteq Linked(row)
      BY DEF LinkListsEveryRun
    <2>1. Of(row) # {}
      BY RowsSay, Zenon DEF AnswerInv, Says
    <2>2. /\ DOMAIN Link(row.key) = {f \in KeyColumns \ {"device_class"} : row.key[f] # None}
          /\ \A f \in DOMAIN Link(row.key) : Link(row.key)[f] = row.key[f]
      BY DEF Link, IfSet
    <2>3. \A r \in Of(row) : /\ r \in Table /\ r \in Runs
                             /\ \A f \in KeyColumns : row.key[f] = Attr[r][f]
      BY DEF Of, KeyOf, AnswerInv, Table
    <2>4. Parses(Link(row.key))
      <3>1. PICK r \in Of(row) : TRUE
        BY <2>1
      <3>2. /\ Attr[r]["platform"] \in {"android", "linux"}
            /\ Attr[r]["prompt_sha256"] # "no_digest"
        BY <2>3, <3>1, AttrAssumption
      <3> QED BY <2>2, <2>3, <3>1, <3>2 DEF Parses
    <2>5. \A r \in Of(row) : Matches(Link(row.key), r)
      BY <2>2, <2>3 DEF Matches
    <2> QED BY <2>3, <2>4, <2>5 DEF Linked
  <1> QED BY <1>1, AnswerInductive, PTL
==============================================================================
