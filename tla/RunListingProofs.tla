-------------------------- MODULE RunListingProofs --------------------------
(***************************************************************************)
(* Paging through RunListing skips and repeats nothing, for any number of    *)
(* runs, readers and concurrent insertions and any page size.                *)
(***************************************************************************)
EXTENDS RunListing, FiniteSetTheorems, TLAPS

-----------------------------------------------------------------------------
(* Counting finite sets *)

\* The prover has no induction over data, but a finite set has no infinite chain
\* of smaller and smaller subsets.  For the members of a set of good subsets that
\* is enough.
LEMMA SmallestSubset ==
  ASSUME NEW S, IsFiniteSet(S), NEW Bad \in SUBSET SUBSET S, Bad # {}
  PROVE  \E T \in Bad : \A U \in Bad : U \subseteq T => U = T
  <1>1. IsWellFoundedOn(StrictSubsetOrdering(S), SUBSET S)
    BY FS_StrictSubsetOrderingWellFounded, FS_FiniteSubsetsOfFinite
  <1>2. PICK T \in Bad : \A U \in Bad : <<U, T>> \notin StrictSubsetOrdering(S)
    BY <1>1, WFMin, Zenon
  <1>3. \A U \in Bad : U \subseteq T => U = T
    BY <1>2 DEF StrictSubsetOrdering
  <1> QED BY <1>3

\* What holds of a subset whenever it holds of all that are smaller holds of
\* every subset.
LEMMA FiniteInduction ==
  ASSUME NEW S, IsFiniteSet(S), NEW Good,
         \A T \in SUBSET S : (\A U \in SUBSET T : U # T => U \in Good) => T \in Good
  PROVE  \A T \in SUBSET S : T \in Good
  <1> DEFINE Bad == {T \in SUBSET S : T \notin Good}
  <1>1. SUFFICES ASSUME Bad # {} PROVE FALSE
    OBVIOUS
  <1>2. Bad \in SUBSET SUBSET S
    OBVIOUS
  <1> HIDE DEF Bad
  <1>3. PICK T \in Bad : \A U \in Bad : U \subseteq T => U = T
    BY <1>1, <1>2, SmallestSubset
  <1> QED BY <1>3 DEF Bad

IsStrictOrder(R, S) ==
  /\ \A a \in S : <<a, a>> \notin R
  /\ \A a, b, c \in S : <<a, b>> \in R /\ <<b, c>> \in R => <<a, c>> \in R
  /\ \A a, b \in S : a = b \/ <<a, b>> \in R \/ <<b, a>> \in R

Below(R, S, a) == {b \in S : <<b, a>> \in R}

\* A finite set that is not empty has a greatest element.
LEMMA Greatest ==
  ASSUME NEW S, IsFiniteSet(S), NEW R, IsStrictOrder(R, S), S # {}
  PROVE  \E m \in S : Below(R, S, m) = S \ {m}
  <1> DEFINE Good == {T \in SUBSET S : T = {} \/ \E m \in T : \A b \in T \ {m} : <<b, m>> \in R}
  <1>1. ASSUME NEW T \in SUBSET S, \A U \in SUBSET T : U # T => U \in Good
        PROVE  T \in Good
    <2> SUFFICES ASSUME NEW x \in T PROVE \E m \in T : \A b \in T \ {m} : <<b, m>> \in R
      BY DEF Good
    <2>1. T \ {x} \in Good
      BY <1>1
    <2>2. CASE T \ {x} = {}
      BY <2>2
    <2>3. CASE T \ {x} # {}
      <3>1. PICK m \in T \ {x} : \A b \in (T \ {x}) \ {m} : <<b, m>> \in R
        BY <2>1, <2>3
      <3>2. <<x, m>> \in R \/ <<m, x>> \in R
        BY <3>1 DEF IsStrictOrder
      <3>3. CASE <<x, m>> \in R
        BY <3>1, <3>3
      <3>4. CASE <<m, x>> \in R
        BY <3>1, <3>4 DEF IsStrictOrder
      <3> QED BY <3>2, <3>3, <3>4
    <2> QED BY <2>2, <2>3
  <1> HIDE DEF Good
  <1>2. S \in Good
    BY <1>1, FiniteInduction
  <1>3. PICK m \in S : \A b \in S \ {m} : <<b, m>> \in R
    BY <1>2 DEF Good
  <1> QED BY <1>3 DEF Below, IsStrictOrder

\* There is one with any number of others below it that the set can hold.
LEMMA Ranks ==
  ASSUME NEW S, IsFiniteSet(S), NEW R, IsStrictOrder(R, S)
  PROVE  \A k \in 0..(Cardinality(S) - 1) : \E a \in S : Cardinality(Below(R, S, a)) = k
  <1> DEFINE Good == {T \in SUBSET S :
                        \A k \in 0..(Cardinality(T) - 1) :
                          \E a \in T : Cardinality(Below(R, T, a)) = k}
  <1>1. ASSUME NEW T \in SUBSET S, \A U \in SUBSET T : U # T => U \in Good
        PROVE  T \in Good
    <2> SUFFICES ASSUME NEW k \in 0..(Cardinality(T) - 1)
                 PROVE  \E a \in T : Cardinality(Below(R, T, a)) = k
      BY DEF Good
    <2>1. IsFiniteSet(T) /\ Cardinality(T) \in Nat /\ T # {}
      BY FS_Subset, FS_CardinalityType, FS_EmptySet
    <2>2. IsStrictOrder(R, T)
      BY DEF IsStrictOrder
    <2>3. PICK m \in T : Below(R, T, m) = T \ {m}
      BY <2>1, <2>2, Greatest
    <2>4. Cardinality(T \ {m}) = Cardinality(T) - 1
      BY <2>1, FS_RemoveElement
    <2>5. CASE k = Cardinality(T) - 1
      BY <2>3, <2>4, <2>5
    <2>6. CASE k # Cardinality(T) - 1
      <3>1. T \ {m} \in Good /\ k \in 0..(Cardinality(T \ {m}) - 1)
        <4>1. T \ {m} \in Good
          BY <1>1
        <4>2. k \in 0..(Cardinality(T \ {m}) - 1)
          BY <2>1, <2>4, <2>6
        <4> QED BY <4>1, <4>2
      <3>2. PICK a \in T \ {m} : Cardinality(Below(R, T \ {m}, a)) = k
        BY <3>1 DEF Good
      <3>3. <<a, m>> \in R
        BY <2>3 DEF Below
      <3>4. Below(R, T, a) = Below(R, T \ {m}, a)
        BY <2>2, <3>3 DEF Below, IsStrictOrder
      <3> QED BY <3>2, <3>4
    <2> QED BY <2>5, <2>6
  <1> HIDE DEF Good
  <1>2. S \in Good
    BY <1>1, FiniteInduction
  <1> QED BY <1>2 DEF Good

\* And what is below has less below it.
LEMMA RanksIncrease ==
  ASSUME NEW S, IsFiniteSet(S), NEW R, IsStrictOrder(R, S), NEW a \in S, NEW b \in S
  PROVE  /\ Cardinality(Below(R, S, a)) \in 0..(Cardinality(S) - 1)
         /\ <<a, b>> \in R => Cardinality(Below(R, S, a)) < Cardinality(Below(R, S, b))
  <1>1. Below(R, S, a) \in SUBSET (S \ {a}) /\ Below(R, S, b) \in SUBSET S
    BY DEF Below, IsStrictOrder
  <1>2. /\ IsFiniteSet(S \ {a}) /\ Cardinality(S \ {a}) = Cardinality(S) - 1
        /\ Cardinality(S) \in Nat
    BY FS_RemoveElement, FS_CardinalityType
  <1>3. /\ IsFiniteSet(Below(R, S, a)) /\ Cardinality(Below(R, S, a)) <= Cardinality(S \ {a})
        /\ IsFiniteSet(Below(R, S, b))
    BY <1>1, <1>2, FS_Subset
  <1>4. Cardinality(Below(R, S, a)) \in Nat /\ Cardinality(Below(R, S, b)) \in Nat
    BY <1>3, FS_CardinalityType
  <1>5. ASSUME <<a, b>> \in R
        PROVE  Cardinality(Below(R, S, a)) < Cardinality(Below(R, S, b))
    <2>1. Below(R, S, a) \in SUBSET Below(R, S, b) /\ Below(R, S, a) # Below(R, S, b)
      BY <1>5 DEF Below, IsStrictOrder
    <2> QED BY <2>1, <1>3, <1>4, FS_Subset
  <1> QED BY <1>2, <1>3, <1>4, <1>5

-----------------------------------------------------------------------------

USE RunsAssumption, TimesAssumption, LimitAssumption, NoneAssumption

\* The listing order is a strict total order of the runs in the table.
LEMMA Order ==
  ASSUME TypeOK, NEW a \in Table, NEW b \in Table, NEW d \in Table
  PROVE  /\ ~ Before(a, a)
         /\ Before(a, b) => ~ Before(b, a)
         /\ Before(a, b) /\ Before(b, d) => Before(a, d)
         /\ a = b \/ Before(a, b) \/ Before(b, a)
  <1>1. ASSUME NEW r \in Table PROVE r \in Nat /\ started[r] \in Nat
    BY DEF TypeOK, Table
  <1> QED BY <1>1 DEF Before

\* The first n runs of a set have all that comes before one of them.
LEMMA FirstAreFirst ==
  ASSUME TypeOK, NEW S \in SUBSET Table, NEW n \in Nat,
         NEW r \in FirstOf(S, n), NEW q \in S, Before(q, r)
  PROVE  q \in FirstOf(S, n)
  <1> DEFINE above(x) == {y \in S : Before(y, x)}
  <1>1. IsFiniteSet(S)
    BY FS_Subset DEF Table
  <1>2. IsFiniteSet(above(r)) /\ IsFiniteSet(above(q))
    BY <1>1, FS_Subset
  <1>3. above(q) \subseteq above(r)
    BY Order DEF FirstOf
  <1>4. Cardinality(above(q)) <= Cardinality(above(r))
    BY <1>2, <1>3, FS_Subset
  <1>5. Cardinality(above(q)) \in Nat /\ Cardinality(above(r)) \in Nat
    BY <1>2, FS_CardinalityType
  <1> QED BY <1>4, <1>5 DEF FirstOf

\* A set of runs has at most n first ones, and n if there are more.
LEMMA FirstOfSize ==
  ASSUME TypeOK, NEW S \in SUBSET Table, NEW n \in Nat
  PROVE  /\ Cardinality(FirstOf(S, n)) \in 0..n
         /\ S \ FirstOf(S, n) # {} => Cardinality(FirstOf(S, n)) = n
  <1> DEFINE R == {p \in S \X S : Before(p[1], p[2])}
  <1>1. IsFiniteSet(S) /\ IsFiniteSet(FirstOf(S, n)) /\ FirstOf(S, n) \subseteq S
    BY FS_Subset DEF Table, FirstOf
  <1>2. IsStrictOrder(R, S)
    BY Order DEF IsStrictOrder
  <1>3. \A r \in S : Below(R, S, r) = {q \in S : Before(q, r)}
    BY DEF Below
  <1> HIDE DEF R
  <1>4. Cardinality(S) \in Nat /\ Cardinality(FirstOf(S, n)) \in Nat
    BY <1>1, FS_CardinalityType
  <1>5. \A q \in S : Cardinality(Below(R, S, q)) \in 0..(Cardinality(S) - 1)
    BY <1>1, <1>2, RanksIncrease
  <1>6. CASE n < Cardinality(S)
    <2> n \in 0..(Cardinality(S) - 1)
      BY <1>4, <1>6
    <2>1. PICK r \in S : Cardinality(Below(R, S, r)) = n
      BY <1>1, <1>2, Ranks
    <2>2. \A q \in S : Cardinality(Below(R, S, q)) < n <=> q \in Below(R, S, r)
      <3> TAKE q \in S
      <3>1. <<q, r>> \in R => Cardinality(Below(R, S, q)) < n
        BY <1>1, <1>2, <2>1, RanksIncrease
      <3>2. <<r, q>> \in R => n < Cardinality(Below(R, S, q))
        BY <1>1, <1>2, <2>1, RanksIncrease
      <3>3. q = r \/ <<q, r>> \in R \/ <<r, q>> \in R
        BY <1>2 DEF IsStrictOrder
      <3>4. r \notin Below(R, S, r)
        BY <1>2 DEF Below, IsStrictOrder
      <3>5. q \in Below(R, S, r) <=> <<q, r>> \in R
        BY DEF Below
      <3>6. Cardinality(Below(R, S, q)) \in Int /\ ~ (n < n)
        BY <1>5
      <3>7. CASE q = r
        BY <3>4, <3>6, <3>7, <2>1
      <3>8. CASE <<q, r>> \in R
        BY <3>1, <3>5, <3>8
      <3>9. CASE <<r, q>> \in R
        <4>1. <<q, r>> \notin R
          BY <3>9, <1>2 DEF IsStrictOrder
        <4> QED BY <4>1, <3>2, <3>5, <3>6, <3>9
      <3> QED BY <3>3, <3>7, <3>8, <3>9
    <2>3. FirstOf(S, n) = Below(R, S, r)
      BY <1>3, <2>2 DEF FirstOf, Below
    <2> QED BY <2>1, <2>3
  <1>7. CASE ~ (n < Cardinality(S))
    <2>1. Cardinality(FirstOf(S, n)) <= Cardinality(S)
      BY <1>1, FS_Subset
    <2>2. S \ FirstOf(S, n) = {}
      BY <1>3, <1>4, <1>5, <1>7 DEF FirstOf
    <2> QED BY <2>1, <2>2, <1>4, <1>7
  <1> QED BY <1>6, <1>7

LEMMA InitIInv == Init => IInv
  BY DEF Init, IInv, TypeOK, CursorInv, NoneSkipped, PagesContinue, PagesAreFull, Seen, Table

\* The rows of pages are in the table.
LEMMA SeenAreInTable ==
  ASSUME IInv, NEW c \in Readers, NEW i \in DOMAIN pages[c]
  PROVE  pages[c][i] \subseteq Table
  BY DEF IInv, CursorInv, Seen

\* An inserted run moves no other, and no reader has had it.
LEMMA InsertIInv ==
  ASSUME IInv, NEW r \in Runs, NEW at \in Times, Insert(r, at) PROVE IInv'
  <1> USE DEF IInv, Insert, reader
  <1>1. TypeOK'
    BY DEF TypeOK
  <1>2. Table \subseteq Table' /\ \A a, b \in Table : Before(a, b)' <=> Before(a, b)
    BY DEF TypeOK, Table, Before
  <1>3. \A c : Seen(c)' = Seen(c)
    BY DEF Seen
  <1>4. CursorInv'
    <2> SUFFICES ASSUME NEW c \in Readers
                 PROVE  CursorInv!(c)'
      BY DEF CursorInv
    <2>1. CursorInv!(c)
      BY DEF CursorInv
    <2>2. Seen(c) \subseteq Table /\ first[c] \subseteq Table
          /\ (cursor[c] # None => cursor[c] \in Table)
      BY <2>1
    <2>3. cursor[c] # None => Behind(c) \subseteq Behind(c)'
      BY <1>2, <2>2 DEF Behind
    <2>4. Seen(c)' = Seen(c) /\ UNCHANGED <<cursor, ended, pages, first>>
      BY <1>3
    <2>5. ~ ended[c] => \A b \in first[c] \ Seen(c) : cursor[c] # None /\ Before(cursor[c], b)'
      BY <1>2, <2>1, <2>2
    <2>6. ~ ended[c] => \A b \in Seen(c) : b = cursor[c] \/ Before(b, cursor[c])'
      <3> SUFFICES ASSUME ~ ended[c], NEW b \in Seen(c), b # cursor[c]
                   PROVE  Before(b, cursor[c])'
        OBVIOUS
      <3>1. Before(b, cursor[c]) /\ cursor[c] # None
        BY <2>1 DEF Seen
      <3> QED BY <3>1, <1>2, <2>2
    <2>7. (Seen(c) \cup first[c] \subseteq Table)'
      BY <1>2, <2>2, <2>4
    <2> HIDE DEF Insert
    <2> QED BY <2>1, <2>3, <2>4, <2>5, <2>6, <2>7
  <1>5. NoneSkipped'
    BY <1>3 DEF NoneSkipped
  <1>6. PagesContinue'
    <2> SUFFICES ASSUME NEW c \in Readers, NEW i \in DOMAIN pages[c], NEW j \in DOMAIN pages[c],
                        i < j, NEW q \in pages[c][i], NEW b \in pages[c][j]
                 PROVE  Before(q, b)'
      BY DEF PagesContinue
    <2>1. Before(q, b)
      BY DEF PagesContinue
    <2> QED BY <1>2, <2>1, SeenAreInTable
  <1>7. PagesAreFull'
    BY DEF PagesAreFull
  <1> QED BY <1>1, <1>4, <1>5, <1>6, <1>7

\* A page goes from the reader's cursor down to its new one.
LEMMA ListIInv ==
  ASSUME IInv, NEW c \in Readers, List(c) PROVE IInv'
  <1> USE DEF IInv
  <1> DEFINE S == Behind(c)
             page == FirstOf(S, Limit)
  <1>1. /\ page \subseteq S /\ S \subseteq Table
        /\ \A r \in page, q \in S : Before(q, r) => q \in page
    BY FirstAreFirst DEF Behind, FirstOf
  <1>2. /\ pages' = [pages EXCEPT ![c] = Append(@, page)]
        /\ ended' = [ended EXCEPT ![c] = ~ (S \ page # {})]
        /\ ~ ended[c] /\ started' = started
        /\ first' = IF cursor[c] = None THEN [first EXCEPT ![c] = Table] ELSE first
    BY DEF List
  <1>3. \/ S \ page # {} /\ \E last \in page : /\ \A r \in page : ~ Before(last, r)
                                               /\ cursor' = [cursor EXCEPT ![c] = last]
        \/ S \ page = {} /\ cursor' = cursor
    BY DEF List
  <1>4. Cardinality(page) \in 0..Limit /\ (S \ page # {} => Cardinality(page) = Limit)
    BY <1>1, FirstOfSize
  <1>5. page = {} => S = {}
    BY <1>4, FS_EmptySet
  <1> HIDE DEF S, page
  <1>6. Table \subseteq Runs /\ Table' = Table /\ \A a, b : Before(a, b)' <=> Before(a, b)
    BY <1>2 DEF Table, Before
  \* The answers so far, and this one.
  <1>7. /\ pages[c] \in Seq(SUBSET Runs) /\ page \in SUBSET Runs
        /\ pages'[c] = Append(pages[c], page)
        /\ \A d \in Readers \ {c} : pages'[d] = pages[d]
    BY <1>1, <1>2, <1>6 DEF TypeOK
  <1>8. /\ Len(pages'[c]) = Len(pages[c]) + 1 /\ Len(pages[c]) \in Nat
        /\ DOMAIN pages[c] = 1..Len(pages[c]) /\ DOMAIN pages'[c] = 1..(Len(pages[c]) + 1)
        /\ \A i \in DOMAIN pages[c] : pages'[c][i] = pages[c][i]
        /\ pages'[c][Len(pages[c]) + 1] = page
    BY <1>7
  <1>9. Seen(c)' = Seen(c) \cup page /\ \A d \in Readers \ {c} : Seen(d)' = Seen(d)
    BY <1>7, <1>8 DEF Seen
  <1>10. TypeOK'
    <2>1. pages' \in [Readers -> Seq(SUBSET Runs)]
      BY <1>2, <1>7 DEF TypeOK
    <2>2. /\ started' \in [Runs -> Times \cup {None}]
          /\ ended' \in [Readers -> BOOLEAN]
          /\ first' \in [Readers -> SUBSET Runs]
      BY <1>2, <1>6 DEF TypeOK
    <2>3. cursor' \in [Readers -> Runs \cup {None}]
      BY <1>3, <1>7 DEF TypeOK
    <2> QED BY <2>1, <2>2, <2>3 DEF TypeOK
  \* What was there at first and has not been on a page is behind the cursor.
  <1>11. \A r \in first'[c] \ Seen(c)' : r \in S \ page
    BY <1>1, <1>2, <1>6, <1>9 DEF TypeOK, CursorInv, S, Behind
  <1>12. \A q \in Seen(c), r \in S : Before(q, r)
    <2> SUFFICES ASSUME NEW q \in Seen(c), NEW r \in S PROVE Before(q, r)
      OBVIOUS
    <2>1. /\ Seen(c) \subseteq Table
          /\ cursor[c] # None => cursor[c] \in Seen(c)
          /\ cursor[c] = None => pages[c] = <<>>
          /\ q = cursor[c] \/ Before(q, cursor[c])
      BY <1>2 DEF CursorInv
    <2>2. cursor[c] # None
      BY <2>1 DEF Seen
    <2>3. r \in Table /\ Before(cursor[c], r)
      BY <2>2 DEF S, Behind
    <2>4. q \in Table /\ cursor[c] \in Table
      BY <2>1, <2>2
    <2> QED BY <2>1, <2>3, <2>4, Order
  <1>13. CursorInv'
    <2> SUFFICES ASSUME NEW d \in Readers PROVE CursorInv!(d)'
      BY DEF CursorInv
    <2>1. CursorInv!(d) /\ CursorInv!(c)
      BY DEF CursorInv
    <2>2. CASE d # c
      <3>1. /\ pages'[d] = pages[d] /\ first'[d] = first[d] /\ Seen(d)' = Seen(d)
            /\ cursor'[d] = cursor[d] /\ ended'[d] = ended[d]
        BY <2>2, <1>2, <1>3, <1>7, <1>9 DEF TypeOK
      <3>2. Behind(d)' = Behind(d)
        BY <3>1, <1>6 DEF Behind
      <3> QED BY <3>1, <3>2, <2>1, <1>6
    <2>3. CASE d = c
      <3>1. Seen(c)' = Seen(c) \cup page /\ first'[c] \subseteq Table
        BY <1>2, <1>9, <2>1 DEF TypeOK
      <3>2. CASE S \ page = {}
        <4>1. ended'[c] /\ cursor'[c] = cursor[c]
          BY <1>2, <1>3, <3>2 DEF TypeOK
        <4> QED BY <4>1, <3>1, <2>1, <2>3, <1>1, <1>6
      <3>3. CASE S \ page # {}
        <4>1. PICK last \in page : /\ \A r \in page : ~ Before(last, r)
                                   /\ cursor'[c] = last /\ ~ ended'[c]
          BY <1>2, <1>3, <3>3 DEF TypeOK
        <4>2. last \in Table /\ last # None
          BY <4>1, <1>1 DEF Table
        <4>3. \A r \in S \ page : Before(last, r)
          BY <4>1, <4>2, <1>1, Order
        <4>4. \A r \in Seen(c)' : r = last \/ Before(r, last)
          BY <4>1, <4>2, <3>1, <1>1, <1>12, Order
        <4>5. Behind(c)' # {}
          BY <4>1, <4>2, <4>3, <3>3, <1>1, <1>6 DEF Behind
        <4> QED BY <4>1, <4>2, <4>3, <4>4, <4>5, <3>1, <2>1, <2>3, <1>1, <1>6, <1>11
      <3> QED BY <3>2, <3>3
    <2> QED BY <2>2, <2>3
  <1>14. NoneSkipped'
    <2> SUFFICES ASSUME NEW d \in Readers, ended'[d] PROVE first'[d] \subseteq Seen(d)'
      BY DEF NoneSkipped
    <2>1. CASE d # c
      BY <2>1, <1>2, <1>9 DEF TypeOK, NoneSkipped
    <2>2. CASE d = c
      BY <2>2, <1>2, <1>11 DEF TypeOK
    <2> QED BY <2>1, <2>2
  <1>15. PagesContinue'
    <2> SUFFICES ASSUME NEW d \in Readers, NEW i \in DOMAIN pages'[d], NEW j \in DOMAIN pages'[d],
                        i < j, NEW q \in pages'[d][i], NEW r \in pages'[d][j]
                 PROVE  Before(q, r)
      BY <1>6 DEF PagesContinue
    <2>1. CASE d # c
      BY <2>1, <1>7 DEF PagesContinue
    <2>2. CASE d = c /\ j \in DOMAIN pages[c]
      <3>1. i \in DOMAIN pages[c]
        BY <2>2, <1>8
      <3> QED BY <2>2, <3>1, <1>8 DEF PagesContinue
    <2>3. CASE d = c /\ j \notin DOMAIN pages[c]
      <3>1. i \in DOMAIN pages[c] /\ j = Len(pages[c]) + 1
        BY <2>3, <1>8
      <3>2. q \in Seen(c) /\ r \in S
        BY <2>3, <3>1, <1>1, <1>8 DEF Seen
      <3> QED BY <3>2, <1>12
    <2> QED BY <2>1, <2>2, <2>3
  <1>16. PagesAreFull'
    <2> SUFFICES ASSUME NEW d \in Readers, NEW i \in DOMAIN pages'[d]
                 PROVE  PagesAreFull!(d)!(i)'
      BY DEF PagesAreFull
    <2>1. CASE d # c
      <3>1. pages'[d] = pages[d] /\ ended'[d] = ended[d]
        BY <2>1, <1>2, <1>7 DEF TypeOK
      <3> QED BY <3>1 DEF PagesAreFull
    <2>2. CASE d = c /\ i \in DOMAIN pages[c]
      BY <2>2, <1>2, <1>8 DEF PagesAreFull
    <2>3. CASE d = c /\ i \notin DOMAIN pages[c]
      <3>1. i = Len(pages'[c]) /\ pages'[c][i] = page
        BY <2>3, <1>8
      <3>2. Cardinality(page) <= Limit /\ (Cardinality(page) # Limit => ended'[c])
        <4>1. ended'[c] <=> S \ page = {}
          BY <1>2 DEF TypeOK
        <4> QED BY <4>1, <1>4
      <3>3. page = {} => i = 1
        <4> SUFFICES ASSUME page = {} PROVE pages[c] = <<>>
          BY <3>1, <1>8
        <4> QED BY <1>2, <1>5 DEF CursorInv, S
      <3> QED BY <2>3, <3>1, <3>2, <3>3
    <2> QED BY <2>1, <2>2, <2>3
  <1> QED BY <1>10, <1>13, <1>14, <1>15, <1>16

LEMMA NextIInv == IInv /\ [Next]_vars => IInv'
  <1> SUFFICES ASSUME IInv, [Next]_vars PROVE IInv'
    OBVIOUS
  <1>1. CASE UNCHANGED vars
    BY <1>1 DEF vars, reader, IInv, TypeOK, CursorInv, NoneSkipped, PagesContinue,
       PagesAreFull, Seen, Behind, Table, Before
  <1> QED BY <1>1, InsertIInv, ListIInv DEF Next

-----------------------------------------------------------------------------

\* The inductive invariant.
THEOREM Inductive == Spec => []IInv
  BY InitIInv, NextIInv, PTL DEF Spec

\* A reader who pages to the end has had every run there was at its first page.
THEOREM NothingIsSkipped == Spec => []NoneSkipped
  <1>1. IInv => NoneSkipped
    BY DEF IInv
  <1> QED BY <1>1, Inductive, PTL

\* No page, the last included, repeats a run of an earlier one or steps back in
\* the order of the list.
THEOREM PagesAlwaysContinue == Spec => []PagesContinue
  <1>1. IInv => PagesContinue
    BY DEF IInv
  <1> QED BY <1>1, Inductive, PTL

\* Each page but the last has Limit runs, the last no more, and none that was
\* announced by a next_cursor is empty.
THEOREM PagesAreAlwaysFull == Spec => []PagesAreFull
  <1>1. IInv => PagesAreFull
    BY DEF IInv
  <1> QED BY <1>1, Inductive, PTL
=============================================================================
