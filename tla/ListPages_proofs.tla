-------------------------- MODULE ListPages_proofs --------------------------
(***************************************************************************)
(* What the paged lists of the admin interface show, for any number of     *)
(* rows, any page size and any page asked for, however rows are added      *)
(* between the statements of a request and between the pages of a reader.  *)
(***************************************************************************)
EXTENDS ListPages, FiniteSetTheorems, SequenceTheorems, TLAPS
-----------------------------------------------------------------------------
\* The rows an ordered list has before r.
Ahead(r) == {s \in Where : OrderBy(s, r)}

\* created_at and the id tell any two rows apart.
RowsAreApart ==
    /\ IsFiniteSet(rows)
    /\ rows \subseteq ListRow
    /\ \A r, s \in rows : r.id = s.id => r = s

\* The page of a request that is being served is that of its count: there may be more
\* rows by now, never fewer, and as many if nothing has moved.
Counted ==
    request # NoPage =>
        \E n \in 0 .. Cardinality(Where), p \in Nat \ {0} :
            /\ request = ClampPagination(p, PageSize, n)
            /\ wanted >= 0
            /\ wanted > 0 => p = wanted
            /\ ~moved => n = Cardinality(Where)

\* What a reader has not seen yet comes after the pages that were read.
Unread ==
    list.kind = "traces" /\ wanted > 0 =>
        \A r \in first \ shown : Cardinality(Ahead(r)) >= (wanted - 1) * PageSize

ListIInv ==
    /\ wanted \in Int
    /\ moved \in BOOLEAN
    /\ RowsAreApart
    /\ first \subseteq Where
    /\ Counted
    /\ Unread
    /\ NoGhostPages
    /\ SweepShowsAll
-----------------------------------------------------------------------------
\* Multiples of the page size.
LEMMA Multiples ==
    ASSUME NEW L \in Nat \ {0}
    PROVE  /\ \A a \in Nat : a * L \in Nat
           /\ \A a \in Nat : (a + 1) * L = a * L + L
           /\ \A a, b \in Nat : a <= b => a * L <= b * L
<1>1. \A a \in Nat : a * L \in Nat
  OBVIOUS
<1>2. \A a \in Nat : (a + 1) * L = a * L + L
  OBVIOUS
<1>3. ASSUME NEW a \in Nat, NEW b \in Nat, a <= b PROVE a * L <= b * L
  <2>1. PICK d \in Nat : b = a + d
    <3>1. b - a \in Nat /\ b = a + (b - a)
      BY <1>3
    <3> QED
      BY <3>1
  <2>2. (a + d) * L = a * L + d * L
    OBVIOUS
  <2> QED
    BY <1>1, <2>1, <2>2
<1> QED
  BY <1>1, <1>2, <1>3

\* ceil(n / L), as ClampPagination computes it.
LEMMA PagesHold ==
    ASSUME NEW L \in Nat \ {0}, NEW n \in Nat \ {0}
    PROVE  \E k \in Nat : /\ (n + L - 1) \div L = k + 1
                          /\ k * L < n
                          /\ n <= (k + 1) * L
<1> DEFINE m == n + L - 1
           k == m \div L
<1>1. m \in Nat /\ m >= L
  OBVIOUS
<1> HIDE DEF m
<1>2. k \in Nat
  BY <1>1
<1>3. k * L <= m
  BY <1>1, <1>2
<1>4. m < (k + 1) * L
  BY <1>1, <1>2
<1> HIDE DEF k
<1>5. (k + 1) * L = k * L + L /\ k * L \in Nat /\ 0 * L = 0
  BY <1>2, Multiples
<1>6. k # 0
  BY <1>1, <1>4, <1>5
<1>7. PICK j \in Nat : k = j + 1
  <2>1. k - 1 \in Nat /\ k = (k - 1) + 1
    BY <1>2, <1>6
  <2> QED
    BY <2>1
<1>8. (j + 1) * L = j * L + L /\ j * L \in Nat
  BY Multiples
<1>9. j * L < n /\ n <= (j + 1) * L
  BY <1>3, <1>4, <1>5, <1>7, <1>8 DEF m
<1> QED
  BY <1>7, <1>9 DEF k, m

\* A page that is counted is there: it begins before the end of the rows, only a page
\* that was asked for has a next one, and a page without a next one holds the last row,
\* or comes for a page past it.
LEMMA ClampHolds ==
    ASSUME NEW p \in Nat \ {0}, NEW L \in Nat \ {0}, NEW n \in Nat,
           NEW c, c = ClampPagination(p, L, n)
    PROVE  /\ c.page \in Nat \ {0}
           /\ c.total_items = n
           /\ n > 0 => (c.page - 1) * L < n
           /\ c.has_next => c.page = p /\ p * L < n
           /\ ~c.has_next => n <= c.page * L
           /\ c.page # p => n <= (p - 1) * L
<1>1. p - 1 \in Nat /\ (p - 1) * L \in Nat /\ p * L = (p - 1) * L + L
  <2>1. p - 1 \in Nat /\ p = (p - 1) + 1
    OBVIOUS
  <2> QED
    BY <2>1, Multiples
<1>2. CASE n = 0
  <2>1. c.page = 1 /\ c.total_items = n /\ ~c.has_next
    <3>1. c.page = 1 /\ c.total_items = n
      BY <1>2 DEF ClampPagination
    <3>2. c.total_pages = 0
      BY <1>2 DEF ClampPagination
    <3>3. c.has_next <=> c.total_pages > 0 /\ c.page < c.total_pages
      BY Zenon DEF ClampPagination
    <3> QED
      BY <3>1, <3>2, <3>3
  <2>2. 1 * L \in Nat
    BY Multiples
  <2> QED
    BY <1>1, <1>2, <2>1, <2>2
<1>3. CASE n # 0
  <2>1. PICK k \in Nat : /\ (n + L - 1) \div L = k + 1
                         /\ k * L < n
                         /\ n <= (k + 1) * L
    BY <1>3, PagesHold, Zenon
  <2>2. /\ c.page = IF p > k + 1 THEN k + 1 ELSE p
        /\ c.total_items = n
        /\ c.has_next <=> c.page < k + 1
    <3>1. n > 0 /\ k + 1 > 0
      BY <1>3
    <3>2. c.page = IF p > k + 1 THEN k + 1 ELSE p
      BY <1>3, <2>1, <3>1 DEF ClampPagination
    <3>3. c.total_items = n
      BY DEF ClampPagination
    <3>4. c.has_next <=> c.page < k + 1
      BY <1>3, <2>1, <3>1, Zenon DEF ClampPagination
    <3> QED
      BY <3>2, <3>3, <3>4
  <2>3. k * L \in Nat /\ (k + 1) * L \in Nat
    BY Multiples
  <2>4. (k + 1) - 1 = k
    OBVIOUS
  <2>5. CASE p > k + 1
    <3>1. c.page = k + 1 /\ ~c.has_next /\ (c.page - 1) * L = k * L
      BY <2>2, <2>4, <2>5
    <3>2. (k + 1) * L <= (p - 1) * L
      <4>1. k + 1 <= p - 1
        BY <2>5
      <4> QED
        BY <1>1, <4>1, Multiples
    <3> QED
      BY <1>1, <2>1, <2>2, <2>3, <3>1, <3>2
  <2>6. CASE p = k + 1
    <3>1. c.page = p /\ ~c.has_next /\ (c.page - 1) * L = k * L
      BY <2>2, <2>4, <2>6
    <3> QED
      BY <2>1, <2>2, <2>6, <3>1
  <2>7. CASE p < k + 1
    <3>1. c.page = p /\ c.has_next
      BY <2>2, <2>7
    <3>2. p * L <= k * L
      <4>1. p <= k
        BY <2>7
      <4> QED
        BY <4>1, Multiples
    <3> QED
      BY <1>1, <2>1, <2>2, <2>3, <3>1, <3>2, SMTT(30)
  <2> QED
    BY <2>5, <2>6, <2>7
<1> QED
  BY <1>2, <1>3
-----------------------------------------------------------------------------
LEMMA LimitIs ==
    PageSize \in Nat \ {0} /\ NormalizeListLimit(PageSize) = PageSize
BY PagesAssumption DEF NormalizeListLimit

\* LIMIT and OFFSET take the rows from the first to the last place of the page.
LEMMA SliceHolds ==
    ASSUME NEW S, NEW seq \in Seq(S), NEW page \in Nat \ {0}, NEW L \in Nat \ {0},
           NEW o, o = (page - 1) * L
    PROVE  /\ o \in Nat
           /\ o < Len(seq) => Slice(seq, page, L) # <<>>
           /\ o + L <= Len(seq) => Len(Slice(seq, page, L)) = L
           /\ \A i \in 1 .. Len(seq) :
                  o < i /\ i <= o + L => seq[i] \in ToSet(Slice(seq, page, L))
<1>1. o \in Nat
  BY Multiples
<1>2. PICK end : end = IF o + L < Len(seq) THEN o + L ELSE Len(seq)
  OBVIOUS
<1>3. end \in 0 .. Len(seq)
  BY <1>1, <1>2
<1>4. PICK s : s = Slice(seq, page, L)
  OBVIOUS
<1>5. s = SubSeq(seq, o + 1, end)
  BY <1>2, <1>4 DEF Slice
<1>6. CASE o < Len(seq)
  <2>1. o + 1 \in 1 .. Len(seq) /\ o + 1 <= end /\ o + 1 \in 1 .. end + 1
    BY <1>1, <1>2, <1>6
  <2>2. /\ Len(s) = end - o
        /\ \A k \in 1 .. end - o : s[k] = seq[o + k]
    BY <1>1, <1>3, <1>5, <2>1
  <2>3. s \in Seq(S) /\ s # <<>>
    <3>1. \A k \in o + 1 .. end : seq[k] \in S
      BY <1>1, <1>3
    <3>2. s \in Seq(S)
      BY <1>1, <1>3, <1>5, <3>1, SubSeqProperties
    <3> QED
      BY <1>1, <1>3, <2>1, <2>2, <3>2
  <2>4. o + L <= Len(seq) => Len(s) = L
    BY <1>1, <1>2, <2>2
  <2>5. ASSUME NEW i \in 1 .. Len(seq), o < i, i <= o + L PROVE seq[i] \in ToSet(s)
    <3>1. i - o \in 1 .. end - o /\ i = o + (i - o)
      BY <1>1, <1>2, <2>5
    <3>2. i - o \in DOMAIN s /\ s[i - o] = seq[i]
      BY <2>2, <2>3, <3>1
    <3> QED
      BY <3>2 DEF ToSet
  <2> QED
    BY <1>1, <1>4, <2>3, <2>4, <2>5, Zenon
<1>7. CASE ~(o < Len(seq))
  BY <1>1, <1>7
<1> QED
  BY <1>6, <1>7

\* A list has every row that matches, once.
LEMMA OrdersList ==
    ASSUME NEW set, IsFiniteSet(set), NEW kind, NEW seq \in Orders(kind, set)
    PROVE  /\ seq \in Seq(set)
           /\ Len(seq) = Cardinality(set)
           /\ Cardinality(set) \in Nat
           /\ \A i, j \in 1 .. Len(seq) : seq[i] = seq[j] => i = j
           /\ \A r \in set : \E i \in 1 .. Len(seq) : seq[i] = r
<1>1. Cardinality(set) \in Nat
  BY FS_CardinalityType
<1>2. /\ seq \in [1 .. Cardinality(set) -> set]
      /\ \A i, j \in 1 .. Cardinality(set) : i # j => seq[i] # seq[j]
  BY DEF Orders, SetToSeqs
<1>3. seq \in Seq(set) /\ Len(seq) = Cardinality(set)
  BY <1>1, <1>2
<1>4. seq \in Injection(1 .. Cardinality(set), set)
  BY <1>2 DEF Injection, IsInjective
<1>5. Cardinality(1 .. Cardinality(set)) = Cardinality(set)
  BY <1>1, FS_Interval
<1>6. seq \in Surjection(1 .. Cardinality(set), set)
  BY <1>4, <1>5, FS_Injection
<1> QED
  BY <1>1, <1>2, <1>3, <1>6 DEF Surjection

\* The order of the traces is total: a row's place is told by the rows before it.
LEMMA PlaceIs ==
    ASSUME RowsAreApart, NEW seq \in Orders("traces", Where), NEW i \in 1 .. Len(seq)
    PROVE  Cardinality(Ahead(seq[i])) = i - 1
<1>1. IsFiniteSet(Where) /\ Where \subseteq rows
  BY FS_Subset DEF RowsAreApart, Where
<1>2. /\ seq \in Seq(Where) /\ Len(seq) \in Nat
      /\ \A j, k \in 1 .. Len(seq) : seq[j] = seq[k] => j = k
      /\ \A r \in Where : \E j \in 1 .. Len(seq) : seq[j] = r
  BY <1>1, OrdersList
<1>3. \A j, k \in 1 .. Len(seq) : OrderBy(seq[j], seq[k]) => j < k
  <2>1. \A j, k \in DOMAIN seq : OrderBy(seq[j], seq[k]) => j < k
    BY DEF Orders
  <2>2. DOMAIN seq = 1 .. Len(seq)
    BY <1>2
  <2> QED
    BY <2>1, <2>2, Zenon
<1>4. \A j, k \in 1 .. Len(seq) :
          j # k => OrderBy(seq[j], seq[k]) \/ OrderBy(seq[k], seq[j])
  <2> SUFFICES ASSUME NEW j \in 1 .. Len(seq), NEW k \in 1 .. Len(seq), j # k
               PROVE  OrderBy(seq[j], seq[k]) \/ OrderBy(seq[k], seq[j])
    OBVIOUS
  <2>1. seq[j] \in rows /\ seq[k] \in rows /\ seq[j] # seq[k]
    <3>0. seq \in [1 .. Len(seq) -> Where]
      BY <1>2
    <3>1. seq[j] \in Where /\ seq[k] \in Where
      BY <3>0, Zenon
    <3>2. seq[j] # seq[k]
      BY <1>2, Zenon
    <3> QED
      BY <1>1, <3>1, <3>2, Zenon
  <2>2. seq[j].id # seq[k].id
    BY <2>1 DEF RowsAreApart
  <2>3. /\ seq[j].id \in Nat /\ seq[j].at \in Nat
        /\ seq[k].id \in Nat /\ seq[k].at \in Nat
    <3>1. \A r \in ListRow : r.id \in Nat /\ r.at \in Nat
      <4>1. Ids \subseteq Nat /\ MaxStamp \in Nat
        BY PagesAssumption
      <4>2. \A r \in ListRow : r.id \in Ids /\ r.at \in 0 .. MaxStamp
        BY DEF ListRow
      <4>3. \A r \in ListRow : r.id \in Nat
        BY <4>1, <4>2, Zenon
      <4>4. \A r \in ListRow : r.at \in Nat
        BY <4>1, <4>2
      <4> QED
        BY <4>3, <4>4
    <3> QED
      BY <2>1, <3>1 DEF RowsAreApart
  <2> QED
    BY <2>2, <2>3 DEF OrderBy
<1>5. \A j \in 1 .. Len(seq) : OrderBy(seq[j], seq[i]) <=> j < i
  <2> SUFFICES ASSUME NEW j \in 1 .. Len(seq), j < i PROVE OrderBy(seq[j], seq[i])
    BY <1>3
  <2> QED
    BY <1>3, <1>4
<1>6. Ahead(seq[i]) = {seq[j] : j \in 1 .. i - 1}
  <2>1. ASSUME NEW r \in Ahead(seq[i]) PROVE \E j \in 1 .. i - 1 : r = seq[j]
    <3>1. PICK j \in 1 .. Len(seq) : seq[j] = r
      BY <1>2, <2>1 DEF Ahead
    <3>2. j < i
      BY <1>5, <2>1, <3>1, Zenon DEF Ahead
    <3> QED
      BY <3>1, <3>2
  <2>2. ASSUME NEW j \in 1 .. i - 1 PROVE seq[j] \in Ahead(seq[i])
    <3>1. j \in 1 .. Len(seq) /\ j < i
      BY <1>2
    <3> QED
      BY <1>2, <1>5, <3>1, SMTT(30) DEF Ahead
  <2> QED
    BY <2>1, <2>2
<1>7. PICK f : f = [j \in 1 .. i - 1 |-> seq[j]]
  BY Zenon
<1>8. f \in Bijection(1 .. i - 1, Ahead(seq[i]))
  <2>1. \A j \in 1 .. i - 1 : j \in 1 .. Len(seq) /\ f[j] = seq[j]
    BY <1>2, <1>7
  <2>2. f \in [1 .. i - 1 -> Ahead(seq[i])]
    BY <1>6, <1>7
  <2>3. \A j, k \in 1 .. i - 1 : f[j] = f[k] => j = k
    BY <1>2, <2>1, Zenon
  <2>4. \A r \in Ahead(seq[i]) : \E j \in 1 .. i - 1 : f[j] = r
    BY <1>6, <2>1
  <2> QED
    BY <2>2, <2>3, <2>4 DEF Bijection, Injection, IsInjective, Surjection
<1>9. IsFiniteSet(1 .. i - 1) /\ Cardinality(1 .. i - 1) = i - 1
  BY FS_Interval
<1> QED
  BY <1>8, <1>9, FS_Bijection DEF ExistsBijection

LEMMA ListInitIInv == ListInit => ListIInv
<1> SUFFICES ASSUME ListInit PROVE ListIInv
  OBVIOUS
<1>1. RowsAreApart
  BY FS_EmptySet DEF ListInit, RowsAreApart
<1>2. wanted \in Int /\ moved \in BOOLEAN
  <2>1. wanted \in Int
    BY DEF ListInit, NoReader
  <2>2. moved \in BOOLEAN
    BY Zenon DEF ListInit
  <2> QED
    BY <2>1, <2>2
<1>3. first \subseteq Where /\ Counted
  BY DEF ListInit, Counted
<1>4. Unread /\ SweepShowsAll
  BY DEF ListInit, Unread, SweepShowsAll, Through, NoReader
<1>5. NoGhostPages
  BY DEF ListInit, NoGhostPages, NoAnswer, NoPage
<1> QED
  BY <1>1, <1>2, <1>3, <1>4, <1>5, Zenon DEF ListIInv

\* More rows match: those that were ahead of a row still are.
LEMMA GrowthStep ==
    ASSUME ListIInv, RowsAreApart', rows \subseteq rows', reviewed \subseteq reviewed',
           moved' = (moved \/ request # NoPage),
           UNCHANGED <<list, request, wanted, answer, first, shown>>
    PROVE  ListIInv'
<1>1. Where \subseteq Where' /\ IsFiniteSet(Where')
  <2>1. Where \subseteq Where' /\ Where' \subseteq rows'
    BY DEF Where
  <2> QED
    BY <2>1, FS_Subset DEF RowsAreApart
<1>2. /\ Cardinality(Where) \in Nat /\ Cardinality(Where') \in Nat
      /\ Cardinality(Where) <= Cardinality(Where')
  BY <1>1, FS_Subset, FS_CardinalityType, Zenon
<1>3. Counted'
  <2> SUFFICES ASSUME request # NoPage
               PROVE  \E n \in 0 .. Cardinality(Where'), p \in Nat \ {0} :
                          /\ request = ClampPagination(p, PageSize, n)
                          /\ wanted >= 0
                          /\ wanted > 0 => p = wanted
                          /\ ~moved' => n = Cardinality(Where')
    BY DEF Counted
  <2>1. moved'
    BY Zenon
  <2>2. PICK n \in 0 .. Cardinality(Where), p \in Nat \ {0} :
            /\ request = ClampPagination(p, PageSize, n)
            /\ wanted >= 0
            /\ wanted > 0 => p = wanted
    BY DEF ListIInv, Counted
  <2>3. n \in 0 .. Cardinality(Where')
    BY <1>2
  <2> QED
    BY <2>1, <2>2, <2>3, Zenon
<1>4. Unread'
  <2> SUFFICES ASSUME list.kind = "traces", wanted > 0, NEW r \in first \ shown
               PROVE  Cardinality(Ahead(r)') >= (wanted - 1) * PageSize
    BY DEF Unread, Ahead
  <2>1. Cardinality(Ahead(r)) >= (wanted - 1) * PageSize
    BY DEF ListIInv, Unread
  <2>2. Ahead(r) \subseteq Ahead(r)' /\ Ahead(r)' \subseteq Where'
    BY <1>1 DEF Ahead
  <2>3. IsFiniteSet(Ahead(r)')
    BY <1>1, <2>2, FS_Subset, Zenon
  <2>4. /\ Cardinality(Ahead(r)) \in Nat /\ Cardinality(Ahead(r)') \in Nat
        /\ Cardinality(Ahead(r)) <= Cardinality(Ahead(r)')
    BY <2>2, <2>3, FS_Subset, FS_CardinalityType, Zenon
  <2>5. (wanted - 1) * PageSize \in Int
    BY LimitIs DEF ListIInv
  <2> QED
    BY <2>1, <2>4, <2>5
<1>5. SweepShowsAll' /\ NoGhostPages'
  BY DEF ListIInv, SweepShowsAll, NoGhostPages
<1>6. wanted' \in Int /\ moved' \in BOOLEAN /\ (first \subseteq Where)'
  BY <1>1 DEF ListIInv
<1> QED
  BY <1>3, <1>4, <1>5, <1>6, Zenon DEF ListIInv

LEMMA AdditionStep ==
    ASSUME ListIInv, NEW r \in ListRow, Insert(r) \/ Review(r)
    PROVE  ListIInv'
<1>1. CASE Insert(r)
  <2>1. RowsAreApart'
    <3>1. IsFiniteSet(rows')
      BY <1>1, FS_AddElement DEF Insert, ListIInv, RowsAreApart
    <3> QED
      BY <1>1, <3>1 DEF Insert, ListIInv, RowsAreApart
  <2> QED
    BY <1>1, <2>1, GrowthStep DEF Insert
<1>2. CASE Review(r)
  <2>1. RowsAreApart'
    BY <1>2 DEF Review, ListIInv, RowsAreApart
  <2> QED
    BY <1>2, <2>1, GrowthStep, Zenon DEF Review
<1> QED
  BY <1>1, <1>2

LEMMA BrowseStep ==
    ASSUME ListIInv, NEW l \in Lists, Browse(l)
    PROVE  ListIInv'
<1>1. wanted' = 1 /\ request' = NoPage /\ first' = Where'
  BY DEF Browse, Where
<1>2. RowsAreApart'
  BY DEF Browse, ListIInv, RowsAreApart
<1>3. Counted' /\ SweepShowsAll'
  BY <1>1 DEF Counted, SweepShowsAll, Through
<1>4. Unread'
  <2> SUFFICES ASSUME NEW r \in first'
               PROVE  Cardinality(Ahead(r)') >= (wanted' - 1) * PageSize
    BY DEF Unread
  <2>1. IsFiniteSet(Ahead(r)')
    BY <1>2, FS_Subset DEF RowsAreApart, Ahead, Where
  <2>2. Cardinality(Ahead(r)') \in Nat
    BY <2>1, FS_CardinalityType
  <2>3. (wanted' - 1) * PageSize = 0
    BY <1>1, LimitIs
  <2> QED
    BY <2>2, <2>3
<1>5. NoGhostPages'
  BY DEF Browse, NoGhostPages, NoAnswer, NoPage
<1>6. moved' \in BOOLEAN
  BY Zenon DEF Browse
<1> QED
  BY <1>1, <1>2, <1>3, <1>4, <1>5, <1>6, SMTT(30) DEF ListIInv

LEMMA CountStep ==
    ASSUME ListIInv, NEW raw \in Asked, Count(raw)
    PROVE  ListIInv'
<1>1. Where' = Where /\ RowsAreApart'
  BY DEF Count, Where, ListIInv, RowsAreApart
<1>2. Cardinality(Where) \in Nat
  BY FS_Subset, FS_CardinalityType DEF ListIInv, RowsAreApart, Where
<1>3. PICK p : p = NormalizeListPage(ParsePageParam(raw))
  OBVIOUS
<1>4. raw \in Int
  BY PagesAssumption DEF Asked
<1>5. p \in Nat \ {0} /\ (raw > 0 => p = raw)
  BY <1>3, <1>4 DEF NormalizeListPage, ParsePageParam
<1>6. wanted' = (IF wanted > 0 THEN wanted ELSE 0) /\ (wanted > 0 => raw = wanted)
  BY DEF Count, NoReader
<1>7. Counted'
  <2>1. request' = ClampPagination(p, PageSize, Cardinality(Where))
    BY <1>3, LimitIs DEF Count
  <2>2. wanted' >= 0 /\ (wanted' > 0 => p = wanted')
    BY <1>5, <1>6 DEF ListIInv
  <2>3. Cardinality(Where) \in 0 .. Cardinality(Where')
    BY <1>1, <1>2
  <2> QED
    BY <1>1, <1>5, <2>1, <2>2, <2>3, Zenon DEF Counted
<1>8. Unread' /\ SweepShowsAll'
  <2>1. wanted' # Through
    BY <1>6 DEF Through, ListIInv
  <2>2. wanted' > 0 => wanted' = wanted
    BY <1>6
  <2>3. \A r : Ahead(r)' = Ahead(r)
    BY <1>1 DEF Ahead
  <2>4. UNCHANGED <<list, first, shown>>
    BY DEF Count
  <2>5. Unread'
    BY <2>2, <2>3, <2>4, Zenon DEF Unread, ListIInv
  <2> QED
    BY <2>1, <2>5 DEF SweepShowsAll
<1>9. NoGhostPages' /\ (first \subseteq Where)'
  BY <1>1 DEF Count, ListIInv, NoGhostPages
<1>10. wanted' \in Int
  BY <1>6 DEF ListIInv
<1>11. moved' \in BOOLEAN
  BY Zenon DEF Count
<1> QED
  BY <1>1, <1>7, <1>8, <1>9, <1>10, <1>11, Zenon DEF ListIInv

\* The rows of the table may have grown since the count, so that the page is as full as
\* it was counted; and what it leaves of the rows a reader has not seen comes after it.
LEMMA SelectStep ==
    ASSUME ListIInv, Select
    PROVE  ListIInv'
<1>0. PICK seq \in Orders(list.kind, Where) :
          LET page == Slice(seq, request.page, PageSize)
          IN  /\ answer' = [pagination |-> request, rows |-> page]
              /\ shown' = IF wanted = NoReader THEN shown ELSE shown \cup ToSet(page)
  BY LimitIs, Zenon DEF Select
<1>1. PICK s : /\ s = Slice(seq, request.page, PageSize)
               /\ answer' = [pagination |-> request, rows |-> s]
               /\ shown' = IF wanted = NoReader THEN shown ELSE shown \cup ToSet(s)
  BY <1>0
<1>2. PICK n \in 0 .. Cardinality(Where), p \in Nat \ {0} :
          /\ request = ClampPagination(p, PageSize, n)
          /\ wanted >= 0
          /\ wanted > 0 => p = wanted
          /\ ~moved => n = Cardinality(Where)
  BY DEF Select, ListIInv, Counted
<1>3. Where' = Where /\ RowsAreApart' /\ IsFiniteSet(Where)
  <2>1. Where' = Where /\ RowsAreApart'
    BY DEF Select, Where, ListIInv, RowsAreApart
  <2>2. IsFiniteSet(Where)
    BY FS_Subset DEF ListIInv, RowsAreApart, Where
  <2> QED
    BY <2>1, <2>2, Zenon
<1>4. /\ seq \in Seq(Where)
      /\ Len(seq) = Cardinality(Where)
      /\ Cardinality(Where) \in Nat
      /\ \A r \in Where : \E i \in 1 .. Len(seq) : seq[i] = r
  BY <1>3, OrdersList
<1>5. n \in Nat /\ n <= Len(seq)
  BY <1>4
<1>6. /\ request.page \in Nat \ {0}
      /\ request.total_items = n
      /\ n > 0 => (request.page - 1) * PageSize < n
      /\ request.has_next => request.page = p /\ p * PageSize < n
      /\ ~request.has_next => n <= request.page * PageSize
      /\ request.page # p => n <= (p - 1) * PageSize
  BY <1>2, <1>5, LimitIs, ClampHolds, SMTT(30)
<1>7. PICK o : o = (request.page - 1) * PageSize
  OBVIOUS
<1>8. o \in Nat /\ request.page * PageSize = o + PageSize
  <2>1. request.page - 1 \in Nat /\ request.page = (request.page - 1) + 1
    BY <1>6
  <2> QED
    BY <1>7, <2>1, LimitIs, Multiples
<1>9. /\ o < Len(seq) => s # <<>>
      /\ o + PageSize <= Len(seq) => Len(s) = PageSize
      /\ \A i \in 1 .. Len(seq) : o < i /\ i <= o + PageSize => seq[i] \in ToSet(s)
  BY <1>1, <1>4, <1>6, <1>7, LimitIs, SliceHolds, ZenonT(30)
<1>10. NoGhostPages'
  <2>1. answer'.pagination = request /\ answer'.rows = s
    BY <1>1
  <2>2. n > 0 => s # <<>>
    BY <1>5, <1>6, <1>7, <1>8, <1>9, LimitIs, SMTT(30)
  <2>3. request.has_next => Len(s) = PageSize
    BY <1>5, <1>6, <1>8, <1>9, LimitIs, SMTT(30)
  <2> QED
    BY <1>6, <2>1, <2>2, <2>3, ZenonT(30) DEF NoGhostPages
<1>11. wanted' = (IF wanted = 0 THEN 0 ELSE IF request.has_next THEN wanted + 1 ELSE -1)
  BY DEF Select, NoReader, Through
<1>12. ASSUME list.kind = "traces", wanted > 0, NEW r \in first \ shown'
       PROVE  \E i \in 1 .. Len(seq) :
                  /\ r = seq[i]
                  /\ Cardinality(Ahead(r)) = i - 1
                  /\ (wanted - 1) * PageSize <= i - 1
                  /\ ~(o < i /\ i <= o + PageSize)
  <2>1. r \in Where /\ r \notin shown /\ r \notin ToSet(s)
    BY <1>1, <1>12 DEF ListIInv, NoReader
  <2>2. PICK i \in 1 .. Len(seq) : r = seq[i]
    BY <1>4, <2>1
  <2>3. Cardinality(Ahead(r)) = i - 1
    BY <1>12, <2>2, PlaceIs, Zenon DEF ListIInv
  <2>4. Cardinality(Ahead(r)) >= (wanted - 1) * PageSize
    BY <1>12, <2>1, Zenon DEF ListIInv, Unread
  <2>5. ~(o < i /\ i <= o + PageSize)
    BY <1>9, <2>1, <2>2, Zenon
  <2>6. (wanted - 1) * PageSize \in Int
    BY LimitIs DEF ListIInv
  <2> QED
    BY <2>2, <2>3, <2>4, <2>5, <2>6, ZenonT(30)
<1>13. \A r : Ahead(r)' = Ahead(r)
  BY <1>3 DEF Ahead
<1>14. UNCHANGED <<list, first, moved>>
  BY DEF Select
<1>15. Unread'
  <2> SUFFICES ASSUME list.kind = "traces", wanted' > 0, NEW r \in first \ shown'
               PROVE  Cardinality(Ahead(r)) >= (wanted' - 1) * PageSize
    BY <1>13, <1>14 DEF Unread
  <2>1. CASE wanted > 0
    <3>1. request.has_next /\ wanted' - 1 = wanted /\ p = wanted
      BY <1>2, <1>11, <2>1 DEF ListIInv
    <3>2. request.page = wanted /\ o = (wanted - 1) * PageSize
          /\ (wanted' - 1) * PageSize = o + PageSize
      BY <1>6, <1>7, <1>8, <3>1, ZenonT(30)
    <3>3. PICK i \in 1 .. Len(seq) : /\ Cardinality(Ahead(r)) = i - 1
                                     /\ (wanted - 1) * PageSize <= i - 1
                                     /\ ~(o < i /\ i <= o + PageSize)
      BY <1>12, <2>1
    <3> QED
      BY <1>8, <3>2, <3>3, LimitIs, SMTT(30)
  <2>2. CASE ~(wanted > 0)
    BY <1>2, <1>11, <2>2 DEF ListIInv
  <2> QED
    BY <2>1, <2>2
<1>16. SweepShowsAll'
  <2> SUFFICES ASSUME list.kind = "traces", wanted' = -1, ~moved, NEW r \in first,
                      r \notin shown'
               PROVE  FALSE
    BY <1>14 DEF SweepShowsAll, Through
  <2>1. CASE wanted > 0
    <3>1. ~request.has_next /\ p = wanted /\ n = Len(seq)
      BY <1>2, <1>4, <1>11, <2>1 DEF ListIInv
    <3>2. PICK i \in 1 .. Len(seq) : /\ (wanted - 1) * PageSize <= i - 1
                                     /\ ~(o < i /\ i <= o + PageSize)
      BY <1>12, <2>1
    <3>3. CASE request.page = p
      <4>1. o = (wanted - 1) * PageSize /\ n <= o + PageSize
        BY <1>6, <1>7, <1>8, <3>1, <3>3, ZenonT(30)
      <4> QED
        BY <1>5, <1>8, <3>1, <3>2, <4>1, LimitIs, SMTT(30)
    <3>4. CASE request.page # p
      <4>1. n <= (wanted - 1) * PageSize
        BY <1>6, <3>1, <3>4, Zenon
      <4>2. (wanted - 1) * PageSize \in Int
        BY LimitIs DEF ListIInv
      <4> QED
        BY <1>5, <3>1, <3>2, <4>1, <4>2, SMTT(30)
    <3> QED
      BY <3>3, <3>4
  <2>2. CASE ~(wanted > 0)
    BY <1>2, <1>11, <2>2 DEF ListIInv
  <2> QED
    BY <2>1, <2>2
<1>17. Counted' /\ wanted' \in Int /\ moved' \in BOOLEAN /\ (first \subseteq Where)'
  <2>1. Counted'
    BY DEF Select, Counted
  <2>2. wanted' \in Int
    BY <1>11 DEF ListIInv
  <2>3. moved' \in BOOLEAN /\ (first \subseteq Where)'
    BY <1>3, <1>14 DEF ListIInv
  <2> QED
    BY <2>1, <2>2, <2>3, Zenon
<1> QED
  BY <1>3, <1>10, <1>15, <1>16, <1>17, Zenon DEF ListIInv
LEMMA ListNextIInv == ListIInv /\ [ListNext]_listVars => ListIInv'
<1> SUFFICES ASSUME ListIInv, [ListNext]_listVars PROVE ListIInv'
  OBVIOUS
<1>1. CASE \E r \in ListRow : Insert(r) \/ Review(r)
  BY <1>1, AdditionStep
<1>2. CASE \E l \in Lists : Browse(l)
  BY <1>2, BrowseStep
<1>3. CASE \E raw \in Asked : Count(raw)
  BY <1>3, CountStep
<1>4. CASE Select
  BY <1>4, SelectStep
<1>5. CASE UNCHANGED listVars
  <2>1. Where' = Where /\ \A r : Ahead(r)' = Ahead(r)
    BY <1>5 DEF listVars, Where, Ahead
  <2>2. RowsAreApart' /\ NoGhostPages' /\ SweepShowsAll'
    BY <1>5 DEF listVars, ListIInv, RowsAreApart, NoGhostPages, SweepShowsAll
  <2>3. Counted' /\ Unread'
    BY <1>5, <2>1 DEF listVars, ListIInv, Counted, Unread
  <2>4. wanted' \in Int /\ moved' \in BOOLEAN /\ (first \subseteq Where)'
    BY <1>5, <2>1 DEF listVars, ListIInv
  <2> QED
    BY <2>2, <2>3, <2>4 DEF ListIInv
<1> QED
  BY <1>1, <1>2, <1>3, <1>4, <1>5, Zenon DEF ListNext

\* ClampPagination keeps a list from showing an empty page of rows it counts, and a page
\* that is said to have a next one is full: for every number of rows, every page size from
\* 1 to 100 and every page asked for, also when rows come between the count and the SELECT.
THEOREM NoPageIsAGhost == ListSpec => []NoGhostPages
<1>1. ListIInv => NoGhostPages
  BY Zenon DEF ListIInv
<1> QED
  BY ListInitIInv, ListNextIInv, <1>1, PTL DEF ListSpec

\* A reader who goes through the pages of ListTraces sees every trace that matched when
\* the reading began, however many come in meanwhile: the rows not seen yet are always
\* behind those of the pages read, because ORDER BY created_at DESC, trace_id DESC is total.
THEOREM SweepsShowAll == ListSpec => []SweepShowsAll
<1>1. ListIInv => SweepShowsAll
  BY DEF ListIInv
<1> QED
  BY ListInitIInv, ListNextIInv, <1>1, PTL DEF ListSpec
=============================================================================
