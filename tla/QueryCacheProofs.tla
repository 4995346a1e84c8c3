-------------------------- MODULE QueryCacheProofs --------------------------
(***************************************************************************)
(* Facts about the query cache that do not depend on what is cached: the    *)
(* rows of a sequence of pages, the types of entries, and what becomes of   *)
(* an entry that agrees with the server, or is not trusted, as it is        *)
(* fetched, invalidated and cancelled.                                      *)
(***************************************************************************)
EXTENDS QueryCache, SequenceTheorems, FiniteSetTheorems, WellFoundedInduction, TLAPS

-----------------------------------------------------------------------------
(* Induction, for sets of numbers: the least number outside of the set.     *)

LEMMA LeastNumber ==
  ASSUME NEW S, S \subseteq Nat, S # {}
  PROVE  \E n \in S : \A m \in S : n <= m
<1>1. PICK R : R = {ss \in Nat \X Nat : ss[1] < ss[2]}
  OBVIOUS
<1>2. IsWellFoundedOn(R, Nat)
  BY <1>1, NatLessThanWellFounded DEF OpToRel
<1>3. PICK n \in S : \A m \in S : ~ (<<m, n>> \in R)
  BY <1>2, WFMin
<1>4. \A m \in S : ~ (m < n)
  BY <1>1, <1>3
<1> QED  BY <1>4

LEMMA InductiveSet ==
  ASSUME NEW S, 0 \in S, \A n \in Nat : n \in S => n + 1 \in S
  PROVE  Nat \subseteq S
<1> SUFFICES ASSUME Nat \ S # {} PROVE FALSE
  OBVIOUS
<1>1. PICK n \in Nat \ S : \A m \in Nat \ S : n <= m
  BY LeastNumber
<1>2. n - 1 \in Nat /\ n - 1 \in S
  BY <1>1
<1> QED  BY <1>1, <1>2

\* A finite set of numbers has an element with j elements below it.
LEMMA NthElement ==
  ASSUME NEW L, L \subseteq Nat, IsFiniteSet(L), NEW j \in Nat, j < Cardinality(L)
  PROVE  \E n \in L : Cardinality({o \in L : o < n}) = j
<1> DEFINE Below(n) == {o \in L : o < n}
           S == {k \in Nat : k < Cardinality(L) => \E n \in L : Cardinality(Below(n)) = k}
<1>1. Cardinality(L) \in Nat
  BY FS_CardinalityType
<1>2. 0 \in S
  <2> SUFFICES ASSUME 0 < Cardinality(L) PROVE \E n \in L : Cardinality(Below(n)) = 0
    OBVIOUS
  <2>1. L # {}
    BY FS_EmptySet
  <2>2. PICK n \in L : \A m \in L : n <= m
    BY <2>1, LeastNumber
  <2>3. Below(n) = {}
    <3>1. ASSUME NEW o \in L PROVE ~(o < n)
      <4>1. n <= o /\ o \in Nat /\ n \in Nat
        BY <2>2
      <4> QED  BY <4>1
    <3> QED  BY <3>1
  <2> QED  BY <2>3, FS_EmptySet
<1>3. ASSUME NEW k \in Nat, k \in S PROVE k + 1 \in S
  <2> SUFFICES ASSUME k + 1 < Cardinality(L) PROVE \E n \in L : Cardinality(Below(n)) = k + 1
    OBVIOUS
  <2>1. PICK n \in L : Cardinality(Below(n)) = k
    BY <1>1, <1>3
  <2>2. PICK Upto : Upto = Below(n) \union {n}
    OBVIOUS
  <2>3. IsFiniteSet(Below(n)) /\ n \notin Below(n)
    BY FS_Subset
  <2>4. Cardinality(Upto) = k + 1
    BY <2>1, <2>2, <2>3, FS_AddElement
  <2>5. PICK Rest : Rest = {o \in L : o > n}
    OBVIOUS
  <2>6. Rest # {}
    <3>1. ASSUME Rest = {} PROVE L = Upto
      <4>1. ASSUME NEW o \in L PROVE o \in Upto
        <5>1. ~(o > n) /\ o \in Nat /\ n \in Nat
          BY <2>5, <3>1
        <5>2. o < n \/ o = n
          BY <5>1
        <5> QED  BY <2>2, <5>2
      <4> QED  BY <2>2, <4>1
    <3> QED  BY <1>1, <2>4, <3>1
  <2>7. PICK m \in Rest : \A o \in Rest : m <= o
    BY <2>5, <2>6, LeastNumber
  <2>8. Below(m) = Upto
    <3>1. m \in Nat /\ n \in Nat /\ n < m
      BY <2>5, <2>7
    <3>2. ASSUME NEW o \in L PROVE o < m <=> o \in Upto
      <4>1. o \in Nat
        OBVIOUS
      <4>2. CASE o > n
        BY <2>2, <2>5, <2>7, <3>1, <4>1, <4>2
      <4>3. CASE ~(o > n)
        <5>1. (o < n \/ o = n) /\ o < m
          BY <3>1, <4>1, <4>3
        <5> QED  BY <2>2, <5>1
      <4> QED  BY <4>2, <4>3
    <3> QED  BY <2>2, <3>2
  <2>9. m \in L
    BY <2>5, <2>7
  <2> QED  BY <2>4, <2>8, <2>9
<1> HIDE DEF S
<1>4. Nat \subseteq S
  BY <1>2, <1>3, InductiveSet
<1> QED  BY <1>4 DEF S

\* And the same from the greatest down.
LEMMA NthFromAbove ==
  ASSUME NEW L, L \subseteq Nat, IsFiniteSet(L), NEW j \in Nat, j < Cardinality(L)
  PROVE  \E n \in L : Cardinality({o \in L : o > n}) = j
<1>1. PICK c \in Nat : c = Cardinality(L)
  BY FS_CardinalityType
<1>2. PICK i \in Nat : i = c - 1 - j
  BY <1>1
<1>3. i < Cardinality(L)
  BY <1>1, <1>2
<1>4. PICK n \in L : Cardinality({o \in L : o < n}) = i
  BY <1>3, NthElement
<1>5. PICK A, B : A = {o \in L : o > n} /\ B = {o \in L : o < n}
  OBVIOUS
<1>6. IsFiniteSet(A) /\ IsFiniteSet(B) /\ IsFiniteSet(B \union {n}) /\ n \notin B
  <2>1. IsFiniteSet(A) /\ IsFiniteSet(B) /\ n \notin B
    BY <1>5, FS_Subset
  <2> QED  BY <2>1, FS_AddElement
<1>7. Cardinality(B \union {n}) = i + 1
  BY <1>4, <1>5, <1>6, FS_AddElement
<1>8. A \cap (B \union {n}) = {} /\ A \union (B \union {n}) = L
  <2>1. ASSUME NEW o \in L PROVE (o > n) <=> ~(o < n \/ o = n)
    OBVIOUS
  <2> QED  BY <1>5, <2>1
<1>9. Cardinality(A \cap (B \union {n})) = 0 /\ Cardinality(A) \in Nat
  BY <1>6, <1>8, FS_EmptySet, FS_CardinalityType
<1>10. Cardinality(L) = Cardinality(A) + Cardinality(B \union {n}) - Cardinality(A \cap (B \union {n}))
  BY <1>6, <1>8, FS_Union
<1>11. Cardinality(A) = j
  BY <1>1, <1>2, <1>7, <1>9, <1>10
<1> QED  BY <1>5, <1>11

-----------------------------------------------------------------------------
(* FlattenSeq is defined by recursion: it satisfies its equation.           *)

\* The first n sequences of Q, flattened one after another.
IsFlat(F, Q, n) == F = [i \in 1..n |-> IF i = 1 THEN Q[i] ELSE F[i-1] \o Q[i]]

LEMMA FlatStep ==
  ASSUME NEW Q, NEW n \in Nat, NEW F, IsFlat(F, Q, n), NEW i \in 1..n
  PROVE  F[i] = IF i = 1 THEN Q[i] ELSE F[i-1] \o Q[i]
BY DEF IsFlat

LEMMA FlatExists ==
  ASSUME NEW Q, NEW k \in Nat
  PROVE  \E F : IsFlat(F, Q, k)
<1> DEFINE S == {n \in Nat : \E F : IsFlat(F, Q, n)}
<1>1. 0 \in S
  <2>1. IsFlat(<<>>, Q, 0)
    BY DEF IsFlat
  <2> QED  BY <2>1
<1>2. ASSUME NEW n \in Nat, n \in S PROVE n + 1 \in S
  <2>1. PICK F : IsFlat(F, Q, n)
    BY <1>2
  <2>2. PICK G : G = [i \in 1..(n+1) |-> IF i = 1 THEN Q[i] ELSE F[i-1] \o Q[i]]
    OBVIOUS
  <2>3. ASSUME NEW i \in 1..n PROVE G[i] = F[i]
    BY <2>1, <2>2, FlatStep
  <2>4. ASSUME NEW i \in 1..(n+1), i # 1 PROVE G[i-1] = F[i-1]
    BY <2>3, <2>4
  <2>5. G = [i \in 1..(n+1) |-> IF i = 1 THEN Q[i] ELSE G[i-1] \o Q[i]]
    BY <2>2, <2>4
  <2>6. IsFlat(G, Q, n + 1)
    BY <2>5 DEF IsFlat
  <2> QED  BY <2>6
<1>3. Nat \subseteq S
  BY <1>1, <1>2, InductiveSet
<1> QED  BY <1>3

LEMMA FlattenIsFlat ==
  ASSUME NEW Q, Len(Q) \in Nat \ {0}
  PROVE  \E F : IsFlat(F, Q, Len(Q)) /\ FlattenSeq(Q) = F[Len(Q)]
<1> DEFINE F == CHOOSE f : f = [i \in 1..Len(Q) |-> IF i = 1 THEN Q[i] ELSE f[i-1] \o Q[i]]
<1>1. FlattenSeq(Q) = F[Len(Q)]
  BY DEF FlattenSeq
<1>2. \E f : f = [i \in 1..Len(Q) |-> IF i = 1 THEN Q[i] ELSE f[i-1] \o Q[i]]
  BY FlatExists DEF IsFlat
<1>3. F = [i \in 1..Len(Q) |-> IF i = 1 THEN Q[i] ELSE F[i-1] \o Q[i]]
  BY <1>2
<1> QED  BY <1>1, <1>3 DEF IsFlat
-----------------------------------------------------------------------------
(* The rows of a sequence of pages.                                        *)

Items(pages) == [n \in DOMAIN pages |-> pages[n].items]

LEMMA ItemsOf ==
  ASSUME NEW T, NEW pages \in Seq(Page(T))
  PROVE  /\ Len(Items(pages)) = Len(pages)
         /\ \A n \in 1..Len(pages) : Items(pages)[n] = pages[n].items /\ pages[n].items \in Seq(T)
<1>1. DOMAIN pages = 1..Len(pages) /\ Len(pages) \in Nat /\ \A n \in 1..Len(pages) : pages[n] \in Page(T)
  OBVIOUS
<1>2. Items(pages) = [n \in 1..Len(pages) |-> pages[n].items]
  BY <1>1 DEF Items
<1>3. \A n \in 1..Len(pages) : pages[n].items \in Seq(T)
  BY <1>1 DEF Page
<1>4. Items(pages) \in [1..Len(pages) -> Seq(T)]
  BY <1>2, <1>3
<1>5. Len(Items(pages)) = Len(pages)
  BY <1>1, <1>4, LenProperties, IsASeq
<1> QED  BY <1>2, <1>3, <1>5

LEMMA NoRows == Rows(<<>>) = <<>>
<1>1. Items(<<>>) = <<>>
  BY DEF Items
<1>2. FlattenSeq(<<>>) = <<>>
  BY DEF FlattenSeq
<1> QED  BY <1>1, <1>2 DEF Rows, Items

\* The flattening of the first pages, typed.
LEMMA FlatType ==
  ASSUME NEW T, NEW pages \in Seq(Page(T)), NEW n \in Nat, n <= Len(pages),
         NEW F, IsFlat(F, Items(pages), n)
  PROVE  \A i \in 1..n : F[i] \in Seq(T)
<1> DEFINE S == {i \in Nat : i \in 1..n => F[i] \in Seq(T)}
<1>1. 0 \in S
  OBVIOUS
<1>2. ASSUME NEW i \in Nat, i \in S PROVE i + 1 \in S
  <2>1. SUFFICES ASSUME i + 1 \in 1..n PROVE F[i+1] \in Seq(T)
    OBVIOUS
  <2>2. F[i+1] = IF i+1 = 1 THEN Items(pages)[i+1] ELSE F[(i+1)-1] \o Items(pages)[i+1]
    BY <2>1, FlatStep
  <2>3. Items(pages)[i+1] \in Seq(T)
    BY <2>1, ItemsOf
  <2>4. (i+1)-1 = i /\ (i+1 # 1 => F[i] \in Seq(T))
    BY <1>2, <2>1
  <2> QED  BY <2>2, <2>3, <2>4, ConcatProperties
<1>3. Nat \subseteq S
  BY <1>1, <1>2, InductiveSet
<1> QED  BY <1>3

LEMMA RowsAreFlat ==
  ASSUME NEW T, NEW pages \in Seq(Page(T)), pages # <<>>
  PROVE  \E F : IsFlat(F, Items(pages), Len(pages)) /\ Rows(pages) = F[Len(pages)]
<1>1. Len(Items(pages)) = Len(pages) /\ Len(pages) \in Nat \ {0}
  BY ItemsOf
<1>2. Rows(pages) = FlattenSeq(Items(pages))
  BY DEF Rows, Items
<1> QED  BY <1>1, <1>2, FlattenIsFlat

LEMMA RowsType ==
  ASSUME NEW T, NEW pages \in Seq(Page(T))
  PROVE  Rows(pages) \in Seq(T) /\ Loaded(pages) \in Nat
<1>1. pages = <<>> => Rows(pages) = <<>>
  BY NoRows
<1>2. ASSUME pages # <<>> PROVE Rows(pages) \in Seq(T)
  <2>1. PICK F : IsFlat(F, Items(pages), Len(pages)) /\ Rows(pages) = F[Len(pages)]
    BY <1>2, RowsAreFlat
  <2>2. Len(pages) \in Nat /\ Len(pages) <= Len(pages) /\ Len(pages) \in 1..Len(pages)
    BY <1>2
  <2> QED  BY <2>1, <2>2, FlatType
<1>3. Rows(pages) \in Seq(T)
  <2>1. <<>> \in Seq(T)
    OBVIOUS
  <2> QED  BY <1>1, <1>2, <2>1
<1> QED  BY <1>3, LenProperties DEF Loaded

LEMMA RowsAppend ==
  ASSUME NEW T, NEW pages \in Seq(Page(T)), NEW p \in Page(T)
  PROVE  Rows(Append(pages, p)) = Rows(pages) \o p.items
<1>a. PICK more : more = Append(pages, p)
  OBVIOUS
<1>b. PICK n \in Nat : n = Len(pages)
  BY LenProperties
<1>c. PICK l \in Nat : l = n + 1
  OBVIOUS
<1>1. /\ more \in Seq(Page(T)) /\ Len(more) = l /\ more # <<>> /\ n \in Nat
      /\ more[l] = p /\ \A i \in 1..n : more[i] = pages[i]
  BY <1>a, <1>b, <1>c, AppendProperties
<1>2. PICK G : IsFlat(G, Items(more), l) /\ Rows(more) = G[l]
  BY <1>1, RowsAreFlat
<1>3. Items(more)[l] = p.items /\ \A i \in 1..n : Items(more)[i] = Items(pages)[i]
  <2>1. \A i \in 1..l : Items(more)[i] = more[i].items
    BY <1>1, ItemsOf
  <2>2. \A i \in 1..n : Items(pages)[i] = pages[i].items
    BY <1>b, ItemsOf
  <2>3. l \in 1..l /\ \A i \in 1..n : i \in 1..l
    BY <1>c
  <2> QED  BY <1>1, <2>1, <2>2, <2>3
<1>4. G[l] = IF l = 1 THEN Items(more)[l] ELSE G[l-1] \o Items(more)[l]
  <2>1. l \in 1..l
    BY <1>c
  <2> QED  BY <1>2, <2>1, FlatStep
<1>5. CASE pages = <<>>
  <2>1. Rows(pages) = <<>> /\ p.items \in Seq(T)
    BY <1>5, NoRows DEF Page
  <2>2. <<>> \o p.items = p.items
    BY <2>1, ConcatEmptySeq
  <2>3. l = 1
    BY <1>b, <1>c, <1>5
  <2> QED  BY <1>a, <1>2, <1>3, <1>4, <2>1, <2>2, <2>3
<1>6. CASE pages # <<>>
  <2>1. PICK F : IsFlat(F, Items(pages), n) /\ Rows(pages) = F[n]
    BY <1>b, <1>6, RowsAreFlat
  <2>2. n \in 1..n /\ l - 1 = n /\ l # 1
    BY <1>b, <1>c, <1>6
  <2>4. \A i \in 1..n : F[i] = G[i]
    <3> DEFINE S == {i \in Nat : i \in 1..n => F[i] = G[i]}
    <3>1. 0 \in S
      OBVIOUS
    <3>2. ASSUME NEW i \in Nat, i \in S PROVE i + 1 \in S
      <4>1. SUFFICES ASSUME i + 1 \in 1..n PROVE F[i+1] = G[i+1]
        OBVIOUS
      <4>2. PICK k \in Nat : k = i + 1
        OBVIOUS
      <4>3. k \in 1..n /\ k \in 1..l /\ (k # 1 => k - 1 = i /\ i \in 1..n)
        BY <1>c, <4>1, <4>2
      <4>4. F[k] = IF k = 1 THEN Items(pages)[k] ELSE F[k-1] \o Items(pages)[k]
        BY <2>1, <4>3, FlatStep
      <4>5. G[k] = IF k = 1 THEN Items(more)[k] ELSE G[k-1] \o Items(more)[k]
        BY <1>2, <4>3, FlatStep
      <4> QED  BY <1>3, <3>2, <4>2, <4>3, <4>4, <4>5
    <3>3. Nat \subseteq S
      BY <3>1, <3>2, InductiveSet
    <3> QED  BY <3>3
  <2>5. F[n] = G[n]
    BY <2>2, <2>4
  <2> QED  BY <1>a, <1>2, <1>3, <1>4, <2>1, <2>2, <2>5
<1> QED  BY <1>5, <1>6

-----------------------------------------------------------------------------
(* Entries: what each operation makes of one.                              *)

LEMMA NoFetchIsNone == ASSUME NEW P, NEW x \in Fetches(P) PROVE x # NoFetch
<1>1. x = [more |-> x.more, got |-> x.got, fail |-> x.fail, late |-> x.late, back |-> x.back]
  BY DEF Fetches
<1>2. "more" \in DOMAIN x
  BY <1>1
<1> QED  BY <1>2 DEF NoFetch

LEMMA EntryFields ==
  ASSUME NEW P, NEW e \in Entries(P)
  PROVE  /\ e.data \in Seq(P) /\ e.err \in Errors /\ e.invalid \in BOOLEAN /\ e.missed \in BOOLEAN
         /\ Fetching(e) => e.fetch \in Fetches(P)
         /\ ~Fetching(e) => e.fetch = NoFetch
BY DEF Entries, Fetching

LEMMA FetchFields ==
  ASSUME NEW P, NEW x \in Fetches(P)
  PROVE  /\ x.more \in BOOLEAN /\ x.got \in Seq(P) /\ x.fail \in Errors /\ x.late \in BOOLEAN
         /\ x.back.err \in Errors /\ x.back.invalid \in BOOLEAN
BY DEF Fetches

LEMMA EmptyEntry == ASSUME NEW P PROVE Empty \in Entries(P) /\ Empty.data = <<>> /\ ~Fetching(Empty)
BY DEF Empty, Entries, Errors, Fetching

LEMMA BeginEntry ==
  ASSUME NEW P, NEW e \in Entries(P), NEW more \in BOOLEAN
  PROVE  LET n == Begin(e, more)
         IN /\ n \in Entries(P) /\ n.data = e.data /\ n.invalid = e.invalid /\ n.missed = e.missed
            /\ Fetching(n) /\ n.fetch.got = <<>> /\ n.fetch.more = more
<1>1. PICK x : x = NewFetch(e, more)
  OBVIOUS
<1>2. x \in Fetches(P) /\ x.got = <<>> /\ x.more = more
  BY <1>1, EntryFields DEF NewFetch, Fetches, Errors
<1>3. PICK err \in Errors : err = IF HasData(e) THEN e.err ELSE "none"
  BY EntryFields DEF Errors
<1>4. PICK n : n = [e EXCEPT !.fetch = x, !.err = err]
  OBVIOUS
<1>5. n \in Entries(P) /\ n.fetch = x /\ n.data = e.data /\ n.invalid = e.invalid /\ n.missed = e.missed
  BY <1>2, <1>4 DEF Entries
<1>6. Begin(e, more) = n
  BY <1>1, <1>3, <1>4 DEF Begin, Entries
<1> QED  BY <1>2, <1>5, <1>6, NoFetchIsNone DEF Fetching

LEMMA LateFetch ==
  ASSUME NEW P, NEW x \in Fetches(P)
  PROVE  LET n == [x EXCEPT !.late = TRUE]
         IN n \in Fetches(P) /\ n.late /\ n.more = x.more /\ n.got = x.got
BY DEF Fetches

LEMMA InvalidateEntry ==
  ASSUME NEW P, NEW e \in Entries(P), NEW active \in BOOLEAN
  PROVE  LET n == Invalidate(e, active)
         IN /\ n \in Entries(P) /\ n.data = e.data /\ (HasData(e) => n.invalid)
            /\ Fetching(n) => \/ n.fetch.got = <<>> /\ ~n.fetch.more
                              \/ Fetching(e) /\ n.fetch.late /\ n.fetch.more = e.fetch.more
                                 /\ n.fetch.got = e.fetch.got
<1>1. CASE Fetching(e) /\ ~(active /\ HasData(e))
  <2>1. PICK x : x = [e.fetch EXCEPT !.late = TRUE]
    OBVIOUS
  <2>2. x \in Fetches(P) /\ x.late /\ x.more = e.fetch.more /\ x.got = e.fetch.got
    BY <1>1, <2>1, EntryFields, LateFetch
  <2>3. PICK n : n = [e EXCEPT !.invalid = TRUE, !.fetch = x]
    OBVIOUS
  <2>4. n \in Entries(P) /\ n.fetch = x /\ n.invalid /\ n.data = e.data
    BY <2>2, <2>3 DEF Entries
  <2>5. Invalidate(e, active) = n
    BY <1>1, <2>1, <2>3 DEF Invalidate, Entries
  <2> QED  BY <1>1, <2>2, <2>4, <2>5
<1>2. CASE ~(Fetching(e) /\ ~(active /\ HasData(e))) /\ active
  <2>1. PICK m : m = [e EXCEPT !.invalid = TRUE]
    OBVIOUS
  <2>2. m \in Entries(P) /\ m.invalid /\ m.data = e.data
    BY <2>1 DEF Entries
  <2>3. Invalidate(e, active) = Begin(m, FALSE)
    BY <1>2, <2>1 DEF Invalidate
  <2>4. PICK more \in BOOLEAN : more = FALSE
    OBVIOUS
  <2>5. PICK n : n = Begin(m, more)
    OBVIOUS
  <2>6. n \in Entries(P) /\ n.data = m.data /\ n.invalid = m.invalid /\ n.fetch.got = <<>> /\ ~n.fetch.more
    BY <2>2, <2>4, <2>5, BeginEntry
  <2> QED  BY <2>2, <2>3, <2>4, <2>5, <2>6
<1>3. CASE ~Fetching(e) /\ ~active
  <2>1. PICK v \in BOOLEAN : v = HasData(e)
    BY DEF HasData
  <2>2. PICK n : n = [e EXCEPT !.invalid = v]
    OBVIOUS
  <2>3. n \in Entries(P) /\ n.fetch = e.fetch /\ n.data = e.data /\ n.invalid = v
    BY <2>2 DEF Entries
  <2>4. Invalidate(e, active) = n
    BY <1>3, <2>1, <2>2 DEF Invalidate
  <2> QED  BY <1>3, <2>1, <2>3, <2>4 DEF Fetching
<1> QED  BY <1>1, <1>2, <1>3

LEMMA CancelEntry ==
  ASSUME NEW P, NEW e \in Entries(P)
  PROVE  LET n == Cancel(e)
         IN /\ n \in Entries(P) /\ n.data = e.data /\ ~Fetching(n)
            /\ ~n.invalid /\ ~n.missed => ~e.invalid /\ ~e.missed
<1>1. CASE ~Fetching(e)
  BY <1>1 DEF Cancel
<1>2. CASE Fetching(e)
  <2>1. PICK missed \in BOOLEAN : missed = (e.missed \/ (e.invalid /\ ~e.fetch.back.invalid))
    BY <1>2, EntryFields, FetchFields
  <2>2. PICK err \in Errors, invalid \in BOOLEAN : err = e.fetch.back.err /\ invalid = e.fetch.back.invalid
    BY <1>2, EntryFields, FetchFields
  <2>3. PICK n : n = [e EXCEPT !.err = err, !.invalid = invalid, !.missed = missed, !.fetch = NoFetch]
    OBVIOUS
  <2>4. n \in Entries(P) /\ n.data = e.data /\ n.fetch = NoFetch /\ n.invalid = invalid /\ n.missed = missed
    BY <2>3 DEF Entries
  <2>5. Cancel(e) = n
    BY <1>2, <2>1, <2>2, <2>3 DEF Cancel, Entries
  <2> QED  BY <2>1, <2>2, <2>4, <2>5 DEF Fetching
<1> QED  BY <1>1, <1>2

LEMMA SetDataEntry ==
  ASSUME NEW P, NEW e \in Entries(P), NEW pages \in Seq(P)
  PROVE  LET n == SetData(e, pages)
         IN /\ n \in Entries(P) /\ n.data = pages /\ ~n.invalid /\ n.missed = e.missed
            /\ Fetching(n) => Fetching(e) /\ n.fetch.more = e.fetch.more /\ n.fetch.got = e.fetch.got
<1>1. PICK x : x = IF e.fetch = NoFetch THEN e.fetch
                   ELSE [e.fetch EXCEPT !.back = [err |-> "none", invalid |-> FALSE]]
  OBVIOUS
<1>2. e.fetch = NoFetch => x = NoFetch
  BY <1>1
<1>3. e.fetch # NoFetch => x \in Fetches(P) /\ x.more = e.fetch.more /\ x.got = e.fetch.got
  BY <1>1 DEF Entries, Fetches, Errors
<1>4. PICK n : n = [e EXCEPT !.data = pages, !.err = "none", !.invalid = FALSE, !.fetch = x]
  OBVIOUS
<1>5. /\ n \in Entries(P) /\ n.data = pages /\ n.invalid = FALSE /\ n.missed = e.missed /\ n.fetch = x
  BY <1>2, <1>3, <1>4 DEF Entries, Errors
<1>6. SetData(e, pages) = n
  BY <1>1, <1>4 DEF SetData, Entries
<1> QED  BY <1>2, <1>3, <1>5, <1>6 DEF Fetching

LEMMA OverlookedEntry ==
  ASSUME NEW P, NEW e \in Entries(P)
  PROVE  LET n == Overlooked(e)
         IN /\ n \in Entries(P) /\ n.data = e.data /\ (HasData(e) => n.missed)
            /\ Fetching(n) => /\ Fetching(e) /\ n.fetch.late /\ n.fetch.more = e.fetch.more
                              /\ n.fetch.got = e.fetch.got
<1>1. PICK x : x = IF e.fetch = NoFetch THEN e.fetch ELSE [e.fetch EXCEPT !.late = TRUE]
  OBVIOUS
<1>2. e.fetch = NoFetch => x = NoFetch
  BY <1>1
<1>3. e.fetch # NoFetch => x \in Fetches(P) /\ x.late /\ x.more = e.fetch.more /\ x.got = e.fetch.got
  BY <1>1, EntryFields, LateFetch DEF Fetching
<1>4. PICK v \in BOOLEAN : v = HasData(e)
  BY DEF HasData
<1>5. PICK n : n = [e EXCEPT !.missed = v, !.fetch = x]
  OBVIOUS
<1>6. n \in Entries(P) /\ n.data = e.data /\ n.missed = v /\ n.fetch = x
  BY <1>2, <1>3, <1>5 DEF Entries
<1>7. Overlooked(e) = n
  BY <1>1, <1>4, <1>5 DEF Overlooked, Entries
<1> QED  BY <1>2, <1>3, <1>4, <1>6, <1>7 DEF Fetching

LEMMA AnswerEntry ==
  ASSUME NEW P, NEW e \in Entries(P), Fetching(e), NEW page \in P
  PROVE  LET n == Answer(e, page)
         IN /\ n \in Entries(P) /\ n.data = e.data /\ n.invalid = e.invalid /\ n.missed = e.missed
            /\ Fetching(n) /\ n.fetch.got = Append(e.fetch.got, page)
            /\ n.fetch.more = e.fetch.more /\ n.fetch.late = e.fetch.late
<1>0. e.fetch.got \in Seq(P)
  BY EntryFields, FetchFields
<1>1. PICK got \in Seq(P) : got = Append(e.fetch.got, page)
  BY <1>0, AppendProperties
<1>2. PICK x : x = [e.fetch EXCEPT !.got = got]
  OBVIOUS
<1>3. x \in Fetches(P) /\ x.got = got /\ x.more = e.fetch.more /\ x.late = e.fetch.late
  BY <1>2, EntryFields DEF Fetches
<1>4. PICK n : n = [e EXCEPT !.fetch = x]
  OBVIOUS
<1>5. n \in Entries(P) /\ n.data = e.data /\ n.invalid = e.invalid /\ n.missed = e.missed /\ n.fetch = x
  BY <1>3, <1>4 DEF Entries
<1>6. Answer(e, page) = n
  BY <1>1, <1>2, <1>4 DEF Answer, Entries
<1> QED  BY <1>1, <1>3, <1>5, <1>6, NoFetchIsNone DEF Fetching

LEMMA RefuseEntry ==
  ASSUME NEW P, NEW e \in Entries(P), Fetching(e), NEW err \in Errors
  PROVE  LET n == Refuse(e, err)
         IN /\ n \in Entries(P) /\ n.data = e.data /\ n.invalid = e.invalid /\ n.missed = e.missed
            /\ Fetching(n) /\ n.fetch.got = e.fetch.got
            /\ n.fetch.more = e.fetch.more /\ n.fetch.late = e.fetch.late
<1>2. PICK x : x = [e.fetch EXCEPT !.fail = err]
  OBVIOUS
<1>3. x \in Fetches(P) /\ x.got = e.fetch.got /\ x.more = e.fetch.more /\ x.late = e.fetch.late
  BY <1>2, EntryFields DEF Fetches
<1>4. PICK n : n = [e EXCEPT !.fetch = x]
  OBVIOUS
<1>5. n \in Entries(P) /\ n.data = e.data /\ n.invalid = e.invalid /\ n.missed = e.missed /\ n.fetch = x
  BY <1>3, <1>4 DEF Entries
<1>6. Refuse(e, err) = n
  BY <1>2, <1>4 DEF Refuse, Entries
<1> QED  BY <1>3, <1>5, <1>6, NoFetchIsNone DEF Fetching

LEMMA LandEntry ==
  ASSUME NEW P, NEW e \in Entries(P), Fetching(e)
  PROVE  LET n == Land(e)
         IN /\ n \in Entries(P) /\ ~Fetching(n)
            /\ e.fetch.fail # "none" => n.invalid /\ n.data = e.data
            /\ e.fetch.fail = "none" =>
                 /\ n.data = IF e.fetch.more THEN e.data \o e.fetch.got ELSE e.fetch.got
                 /\ ~n.missed => ~e.fetch.late /\ (e.fetch.more => ~e.invalid /\ ~e.missed)
<1>1. e.fetch \in Fetches(P)
  BY EntryFields
<1>2. CASE e.fetch.fail # "none"
  <2>1. PICK fail \in Errors : fail = e.fetch.fail
    BY <1>1, FetchFields
  <2>2. PICK n : n = [e EXCEPT !.err = fail, !.invalid = TRUE, !.fetch = NoFetch]
    OBVIOUS
  <2>3. n \in Entries(P) /\ n.invalid /\ n.fetch = NoFetch /\ n.data = e.data
    BY <2>2 DEF Entries
  <2>4. Land(e) = n
    BY <1>2, <2>1, <2>2 DEF Land
  <2> QED  BY <1>2, <2>3, <2>4 DEF Fetching
<1>3. CASE e.fetch.fail = "none"
  <2>1. PICK data : data = IF e.fetch.more THEN e.data \o e.fetch.got ELSE e.fetch.got
    OBVIOUS
  <2>2. data \in Seq(P)
    BY <1>1, <2>1, EntryFields, FetchFields, ConcatProperties
  <2>3. PICK missed \in BOOLEAN : missed = (e.fetch.late \/ (e.fetch.more /\ (e.invalid \/ e.missed)))
    BY <1>1, EntryFields, FetchFields
  <2>4. PICK n : n = [data |-> data, err |-> "none", invalid |-> FALSE, missed |-> missed, fetch |-> NoFetch]
    OBVIOUS
  <2>5. n \in Entries(P) /\ n.data = data /\ n.missed = missed /\ n.fetch = NoFetch
    BY <2>2, <2>4 DEF Entries, Errors
  <2>6. Land(e) = n
    BY <1>3, <2>1, <2>3, <2>4 DEF Land
  <2> QED  BY <1>3, <2>1, <2>3, <2>5, <2>6 DEF Fetching
<1> QED  BY <1>2, <1>3

-----------------------------------------------------------------------------
(* Freshness: G is the set of what an entry may hold for what the server    *)
(* would answer now.                                                       *)

Kept(e) == HasData(e) /\ ~e.invalid /\ ~e.missed

\* What the entry is taken to be, and what it will be once its fetch has landed.
Agrees(e, G) ==
  /\ Kept(e) => e.data \in G
  /\ Fetching(e) /\ ~e.fetch.late /\ e.fetch.got # <<>> =>
       IF e.fetch.more THEN Kept(e) => e.data \o e.fetch.got \in G ELSE e.fetch.got \in G

\* It is not trusted, and its fetch has yet to ask or will not be trusted either.
Distrusted(e) == ~Kept(e) /\ (Fetching(e) => e.fetch.late \/ e.fetch.got = <<>>)

\* A page is added only to what has one.
Paged(e) == Fetching(e) /\ e.fetch.more => HasData(e)

LEMMA DistrustedAgrees == ASSUME NEW e, Distrusted(e), NEW G PROVE Agrees(e, G)
BY DEF Distrusted, Agrees

LEMMA TrustedIsKept == ASSUME NEW e, Trusted(e) PROVE Kept(e)
BY DEF Trusted, Kept

LEMMA EmptyDistrusted == ASSUME NEW P PROVE Distrusted(Empty) /\ Paged(Empty)
BY EmptyEntry DEF Distrusted, Kept, HasData, Paged

LEMMA BeginAgrees ==
  ASSUME NEW P, NEW e \in Entries(P), NEW more \in BOOLEAN, NEW G, Paged(e), more => HasData(e)
  PROVE  LET n == Begin(e, more)
         IN /\ n \in Entries(P) /\ Paged(n)
            /\ Agrees(e, G) => Agrees(n, G)
            /\ Distrusted(e) => Distrusted(n)
BY BeginEntry DEF Agrees, Distrusted, Kept, HasData, Paged

LEMMA MountAgrees ==
  ASSUME NEW P, NEW e \in Entries(P), NEW expired, NEW G, Paged(e)
  PROVE  LET n == Mount(e, expired)
         IN /\ n \in Entries(P) /\ Paged(n)
            /\ Agrees(e, G) => Agrees(n, G)
            /\ Distrusted(e) => Distrusted(n)
<1>1. PICK more \in BOOLEAN : more = FALSE
  OBVIOUS
<1>2. Mount(e, expired) = e \/ Mount(e, expired) = Begin(e, more)
  BY <1>1 DEF Mount
<1> QED  BY <1>1, <1>2, BeginAgrees

LEMMA RefetchAgrees ==
  ASSUME NEW P, NEW e \in Entries(P), NEW G, Paged(e)
  PROVE  LET n == Refetch(e)
         IN /\ n \in Entries(P) /\ Paged(n)
            /\ Agrees(e, G) => Agrees(n, G)
            /\ Distrusted(e) => Distrusted(n)
<1>1. PICK more \in BOOLEAN : more = FALSE
  OBVIOUS
<1>2. Refetch(e) = e \/ Refetch(e) = Begin(e, more)
  BY <1>1 DEF Refetch
<1> QED  BY <1>1, <1>2, BeginAgrees

LEMMA FetchNextPageAgrees ==
  ASSUME NEW P, NEW e \in Entries(P), NEW G, Paged(e), HasData(e)
  PROVE  LET n == FetchNextPage(e)
         IN /\ n \in Entries(P) /\ Paged(n)
            /\ Agrees(e, G) => Agrees(n, G)
            /\ Distrusted(e) => Distrusted(n)
<1>1. PICK more \in BOOLEAN : more = TRUE
  OBVIOUS
<1>2. FetchNextPage(e) = Begin(e, more)
  BY <1>1 DEF FetchNextPage
<1> QED  BY <1>1, <1>2, BeginAgrees

LEMMA InvalidateDistrusts ==
  ASSUME NEW P, NEW e \in Entries(P), NEW active \in BOOLEAN, Paged(e)
  PROVE  LET n == Invalidate(e, active) IN n \in Entries(P) /\ Paged(n) /\ Distrusted(n)
BY InvalidateEntry DEF Distrusted, Kept, HasData, Paged

LEMMA OverlookedDistrusts ==
  ASSUME NEW P, NEW e \in Entries(P), Paged(e)
  PROVE  LET n == Overlooked(e) IN n \in Entries(P) /\ Paged(n) /\ Distrusted(n)
BY OverlookedEntry DEF Distrusted, Kept, HasData, Paged

LEMMA CancelAgrees ==
  ASSUME NEW P, NEW e \in Entries(P), NEW G
  PROVE  LET n == Cancel(e)
         IN /\ n \in Entries(P) /\ Paged(n)
            /\ Agrees(e, G) => Agrees(n, G)
            /\ Distrusted(e) => Distrusted(n)
BY CancelEntry DEF Agrees, Distrusted, Kept, HasData, Paged

LEMMA SetDataPaged ==
  ASSUME NEW P, NEW e \in Entries(P), NEW pages \in Seq(P), Paged(e), HasData(e) => pages # <<>>
  PROVE  SetData(e, pages) \in Entries(P) /\ Paged(SetData(e, pages))
<1>1. /\ SetData(e, pages) \in Entries(P) /\ SetData(e, pages).data = pages
      /\ Fetching(SetData(e, pages)) => Fetching(e) /\ SetData(e, pages).fetch.more = e.fetch.more
  BY SetDataEntry
<1> QED  BY <1>1 DEF HasData, Paged

LEMMA RefuseAgrees ==
  ASSUME NEW P, NEW e \in Entries(P), NEW G, Paged(e), Fetching(e), NEW err \in Errors
  PROVE  LET n == Refuse(e, err)
         IN /\ n \in Entries(P) /\ Paged(n)
            /\ Agrees(e, G) => Agrees(n, G)
BY RefuseEntry DEF Agrees, Kept, HasData, Paged

LEMMA LandAgrees ==
  ASSUME NEW P, NEW e \in Entries(P), NEW G, Paged(e), Fetching(e), Answered(e)
  PROVE  LET n == Land(e)
         IN /\ n \in Entries(P) /\ Paged(n)
            /\ Agrees(e, G) => Agrees(n, G)
<1>1. PICK n : n = Land(e)
  OBVIOUS
<1>2. /\ n \in Entries(P) /\ ~Fetching(n)
      /\ e.fetch.fail # "none" => n.invalid /\ n.data = e.data
      /\ e.fetch.fail = "none" =>
           /\ n.data = IF e.fetch.more THEN e.data \o e.fetch.got ELSE e.fetch.got
           /\ ~n.missed => ~e.fetch.late /\ (e.fetch.more => ~e.invalid /\ ~e.missed)
  BY <1>1, LandEntry
<1>3. e.fetch.fail = "none" => e.fetch.got # <<>>
  BY DEF Answered
<1>4. Agrees(e, G) => Agrees(n, G)
  BY <1>2, <1>3 DEF Agrees, Kept, HasData, Paged
<1> QED  BY <1>1, <1>2, <1>4 DEF Paged

-----------------------------------------------------------------------------
(* A list, as the server lists V now: the pages loaded are its beginning.   *)

Beginning(pages, V) ==
  /\ Loaded(pages) <= Len(V)
  /\ Rows(pages) = SubSeq(V, 1, Loaded(pages))
FreshPages(T, V) ==
  {pages \in Seq(Page(T)) : pages # <<>> /\ Beginning(pages, V) /\ Last(pages).total = Len(V)}

\* The next page the server answers continues what has been loaded.
LEMMA NextPageBegins ==
  ASSUME NEW T, NEW V \in Seq(T), NEW pages \in Seq(Page(T)), Beginning(pages, V),
         NEW to \in Nat, Loaded(pages) <= to, to <= Len(V)
  PROVE  LET next == [items |-> SubSeq(V, Loaded(pages) + 1, to), total |-> Len(V)]
         IN next \in Page(T) /\ Append(pages, next) \in FreshPages(T, V)
<1>1. PICK n \in Nat : n = Loaded(pages)
  BY RowsType
<1>2. n <= to /\ n <= Len(V) /\ Len(V) \in Nat /\ Rows(pages) = SubSeq(V, 1, n)
  BY <1>1, LenProperties DEF Beginning
<1>3. PICK items : items = SubSeq(V, n + 1, to)
  OBVIOUS
<1>4. items \in Seq(T)
  <2>1. \A i \in (n+1)..to : V[i] \in T
    BY <1>2, ElementOfSeq
  <2> QED  BY <1>3, <2>1, SubSeqProperties
<1>5. PICK next : next = [items |-> items, total |-> Len(V)]
  OBVIOUS
<1>6. next \in Page(T) /\ next.items = items /\ next.total = Len(V)
  BY <1>2, <1>4, <1>5 DEF Page
<1>7. PICK more : more = Append(pages, next)
  OBVIOUS
<1>8. more \in Seq(Page(T)) /\ more # <<>> /\ Last(more) = next
  BY <1>6, <1>7, AppendProperties DEF Last
<1>9. Rows(more) = SubSeq(V, 1, to)
  <2>1. Rows(more) = SubSeq(V, 1, n) \o SubSeq(V, n + 1, to)
    BY <1>2, <1>3, <1>6, <1>7, RowsAppend
  <2>2. PICK m \in 1..(Len(V)+1) : m = 1
    BY <1>2
  <2>3. n \in (m-1)..Len(V) /\ to \in n..Len(V)
    BY <1>2, <2>2
  <2>4. SubSeq(V, m, n) \o SubSeq(V, n + 1, to) = SubSeq(V, m, to)
    BY <2>3, ConcatAdjacentSubSeq
  <2> QED  BY <2>1, <2>2, <2>4
<1>10. Loaded(more) = to
  <2>1. \A i \in 1..to : V[i] \in T
    BY <1>2, ElementOfSeq
  <2>2. Len(SubSeq(V, 1, to)) = to
    BY <2>1, SubSeqProperties
  <2> QED  BY <1>9, <2>2 DEF Loaded
<1>11. more \in FreshPages(T, V)
  BY <1>6, <1>8, <1>9, <1>10 DEF FreshPages, Beginning
<1> QED  BY <1>1, <1>3, <1>5, <1>6, <1>7, <1>11

LEMMA NothingBegins == ASSUME NEW T, NEW V \in Seq(T) PROVE Beginning(<<>>, V) /\ Loaded(<<>>) = 0
<1>1. Rows(<<>>) = <<>> /\ Loaded(<<>>) = 0
  BY NoRows DEF Loaded
<1>2. SubSeq(V, 1, 0) = <<>>
  BY SubSeqEmpty
<1>3. 0 <= Len(V)
  BY LenProperties
<1> QED  BY <1>1, <1>2, <1>3 DEF Beginning

LEMMA OffsetType ==
  ASSUME NEW T, NEW e \in Entries(Page(T)), Fetching(e)
  PROVE  Offset(e) \in Nat
<1>1. e.data \in Seq(Page(T)) /\ e.fetch.got \in Seq(Page(T))
  BY EntryFields, FetchFields
<1> QED  BY <1>1, RowsType DEF Offset

\* The page the server answers has the rows from an offset on, up to some number.
LEMMA ListedPage ==
  ASSUME NEW T, NEW V \in Seq(T), NEW offset \in Nat, NEW to \in Nat, to <= Len(V),
         ~(offset <= Len(V)) => to <= offset
  PROVE  [items |-> SubSeq(V, offset + 1, to), total |-> Len(V)] \in Page(T)
<1>1. Len(V) \in Nat
  BY LenProperties
<1>2. SubSeq(V, offset + 1, to) \in Seq(T)
  <2>1. CASE offset <= Len(V)
    <3>1. \A i \in (offset + 1)..to : V[i] \in T
      <4>1. \A i \in (offset + 1)..to : i \in 1..Len(V)
        BY <1>1
      <4> QED  BY <4>1, ElementOfSeq
    <3>2. PICK from \in Int : from = offset + 1
      OBVIOUS
    <3>3. to \in Int /\ \A i \in from..to : V[i] \in T
      BY <3>1, <3>2
    <3>4. SubSeq(V, from, to) \in Seq(T)
      BY <3>3, SubSeqProperties, Zenon
    <3> QED  BY <3>2, <3>4
  <2>2. CASE ~(offset <= Len(V))
    <3>1. PICK from \in Nat : from = offset + 1
      OBVIOUS
    <3>2. SubSeq(V, from, to) = <<>>
      BY <1>1, <2>2, <3>1
    <3>3. <<>> \in Seq(T)
      OBVIOUS
    <3> QED  BY <3>1, <3>2, <3>3
  <2> QED  BY <2>1, <2>2
<1> QED  BY <1>1, <1>2 DEF Page

\* The server's answer to a fetch keeps a list fresh.
LEMMA AnswerAgrees ==
  ASSUME NEW T, NEW V \in Seq(T), NEW e \in Entries(Page(T)), Fetching(e), ~Answered(e), Paged(e),
         NEW to \in Nat, Offset(e) <= Len(V) => Offset(e) <= to /\ to <= Len(V),
         NEW page \in Page(T), page = [items |-> SubSeq(V, Offset(e) + 1, to), total |-> Len(V)]
  PROVE  LET n == Answer(e, page)
         IN /\ n \in Entries(Page(T)) /\ Paged(n)
            /\ Agrees(e, FreshPages(T, V)) => Agrees(n, FreshPages(T, V))
<1>1. PICK n : n = Answer(e, page)
  OBVIOUS
<1>2. /\ n \in Entries(Page(T)) /\ n.data = e.data /\ n.invalid = e.invalid /\ n.missed = e.missed
      /\ Fetching(n) /\ n.fetch.got = Append(e.fetch.got, page)
      /\ n.fetch.more = e.fetch.more /\ n.fetch.late = e.fetch.late
  BY <1>1, AnswerEntry
<1>3. PICK before \in Seq(Page(T)) : before = IF e.fetch.more THEN e.data ELSE e.fetch.got
  BY EntryFields, FetchFields
<1>4. Offset(e) = Loaded(before)
  BY <1>3 DEF Offset
<1>5. Beginning(before, V) => Append(before, page) \in FreshPages(T, V)
  <2> HAVE Beginning(before, V)
  <2>1. Loaded(before) <= to /\ to <= Len(V)
    BY <1>4 DEF Beginning
  <2> QED  BY <1>4, <2>1, NextPageBegins
<1>6. e.fetch.more => e.fetch.got = <<>>
  BY DEF Answered
<1>7. ASSUME Agrees(e, FreshPages(T, V)) PROVE Agrees(n, FreshPages(T, V))
  <2>1. Kept(n) => Kept(e)
    BY <1>2 DEF Kept, HasData
  <2>2. Kept(n) => n.data \in FreshPages(T, V)
    BY <1>2, <1>7, <2>1 DEF Agrees
  <2>3. ASSUME e.fetch.more, Kept(n) PROVE n.data \o n.fetch.got \in FreshPages(T, V)
    <3>1. e.data \in FreshPages(T, V) /\ e.data \in Seq(Page(T))
      BY <1>7, <2>1, <2>3, EntryFields DEF Agrees
    <3>2. Append(e.data, page) \in FreshPages(T, V)
      BY <1>3, <1>5, <2>3, <3>1 DEF FreshPages
    <3>3. n.fetch.got = <<page>>
      <4>1. n.fetch.got = Append(<<>>, page)
        BY <1>2, <1>6, <2>3
      <4> QED  BY <4>1
    <3>4. e.data \o <<page>> = Append(e.data, page)
      BY <3>1, AppendIsConcat
    <3> QED  BY <1>2, <3>2, <3>3, <3>4
  <2>4. ASSUME ~e.fetch.more, ~e.fetch.late PROVE n.fetch.got \in FreshPages(T, V)
    <3>1. e.fetch.got = <<>> => Beginning(e.fetch.got, V)
      BY NothingBegins
    <3>2. e.fetch.got # <<>> => Beginning(e.fetch.got, V)
      BY <1>7, <2>4 DEF Agrees, FreshPages
    <3> QED  BY <1>2, <1>3, <1>5, <2>4, <3>1, <3>2
  <2> QED  BY <1>2, <2>2, <2>3, <2>4 DEF Agrees
<1>8. Paged(n)
  BY <1>2 DEF Paged, HasData
<1> QED  BY <1>1, <1>2, <1>7, <1>8

-----------------------------------------------------------------------------
(* An ordinary query: one page, which is what the server answers.          *)

IsSingle(pages) == pages # <<>> => pages = <<Single(pages[1].items[1])>>
SinglePage(e) == IsSingle(e.data) /\ (Fetching(e) => ~e.fetch.more /\ IsSingle(e.fetch.got))

\* Its data is one value of the type of its rows.
LEMMA SingleType ==
  ASSUME NEW T, NEW pages \in Seq(Page(T)), pages # <<>>, IsSingle(pages)
  PROVE  pages[1].items[1] \in T /\ pages = <<Single(pages[1].items[1])>>
<1>1. PICK x : pages = <<Single(x)>>
  BY DEF IsSingle
<1>2. pages[1] = Single(x) /\ pages[1] \in Page(T)
  BY <1>1
<1>3. Single(x).items = <<x>>
  BY DEF Single
<1>4. <<x>> \in Seq(T)
  BY <1>2, <1>3 DEF Page
<1> QED  BY <1>1, <1>2, <1>3, <1>4

LEMMA SingleInPage == ASSUME NEW T, NEW x \in T PROVE Single(x) \in Page(T)
BY DEF Single, Page

LEMMA SingleIsPaged == ASSUME NEW e, SinglePage(e) PROVE Paged(e)
BY DEF SinglePage, Paged

LEMMA AnswerSingle ==
  ASSUME NEW P, NEW e \in Entries(P), SinglePage(e), Fetching(e), ~Answered(e),
         NEW page \in P, \E x : page = Single(x)
  PROVE  LET n == Answer(e, page)
         IN /\ n \in Entries(P) /\ SinglePage(n)
            /\ \A G : Agrees(e, G) /\ <<page>> \in G => Agrees(n, G)
<1>1. PICK n : n = Answer(e, page)
  OBVIOUS
<1>2. /\ n \in Entries(P) /\ n.data = e.data /\ n.invalid = e.invalid /\ n.missed = e.missed
      /\ Fetching(n) /\ n.fetch.got = Append(e.fetch.got, page)
      /\ n.fetch.more = e.fetch.more /\ n.fetch.late = e.fetch.late
  BY <1>1, AnswerEntry
<1>3. e.fetch.got = <<>>
  <2>1. SUFFICES ASSUME e.fetch.got # <<>> PROVE FALSE
    OBVIOUS
  <2>2. Len(e.fetch.got) = 1 /\ (Len(e.data) = 1 \/ Len(e.data) = 0)
    BY <2>1 DEF SinglePage, IsSingle
  <2>3. Len(e.fetch.got) >= Len(e.data)
    <3>1. \A k, l : k = 1 /\ (l = 1 \/ l = 0) => k >= l
      OBVIOUS
    <3> QED  BY <2>2, <3>1, Zenon
  <2> QED  BY <2>1, <2>3, Zenon DEF Answered
<1>4. n.fetch.got = <<page>>
  BY <1>2, <1>3
<1>5. ~n.fetch.more
  BY <1>2 DEF SinglePage
<1>8. IsSingle(<<page>>)
  BY DEF IsSingle, Single
<1>6. SinglePage(n)
  BY <1>2, <1>4, <1>5, <1>8 DEF SinglePage
<1>7. ASSUME NEW G, Agrees(e, G), <<page>> \in G PROVE Agrees(n, G)
  <2>1. Kept(n) => n.data \in G
    BY <1>2, <1>7 DEF Agrees, Kept, HasData
  <2> QED  BY <1>4, <1>5, <1>7, <2>1 DEF Agrees
<1> QED  BY <1>1, <1>2, <1>6, <1>7

LEMMA SinglesStay ==
  ASSUME NEW P, NEW e \in Entries(P), SinglePage(e)
  PROVE  /\ \A expired : SinglePage(Mount(e, expired))
         /\ SinglePage(Refetch(e))
         /\ SinglePage(Cancel(e))
         /\ SinglePage(Overlooked(e))
         /\ \A active \in BOOLEAN : SinglePage(Invalidate(e, active))
<1>1. PICK more \in BOOLEAN : more = FALSE
  OBVIOUS
<1>2. SinglePage(Begin(e, more))
  BY <1>1, BeginEntry DEF SinglePage, IsSingle
<1>3. \A expired : SinglePage(Mount(e, expired))
  BY <1>1, <1>2 DEF Mount
<1>4. SinglePage(Refetch(e))
  BY <1>1, <1>2 DEF Refetch
<1>5. SinglePage(Cancel(e))
  BY CancelEntry DEF SinglePage, IsSingle
<1>6. SinglePage(Overlooked(e))
  BY OverlookedEntry DEF SinglePage
<1>7. \A active \in BOOLEAN : SinglePage(Invalidate(e, active))
  BY InvalidateEntry DEF SinglePage, IsSingle
<1> QED  BY <1>3, <1>4, <1>5, <1>6, <1>7

LEMMA SingleLands ==
  ASSUME NEW P, NEW e \in Entries(P), SinglePage(e), Fetching(e)
  PROVE  /\ SinglePage(Land(e))
         /\ \A err \in Errors : SinglePage(Refuse(e, err))
<1>1. SinglePage(Land(e))
  BY LandEntry DEF SinglePage
<1>2. \A err \in Errors : SinglePage(Refuse(e, err))
  BY RefuseEntry DEF SinglePage
<1> QED  BY <1>1, <1>2
=============================================================================
