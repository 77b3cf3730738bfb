------------------------- MODULE StreamUsage_proofs -------------------------
(***************************************************************************)
(* What is read from streamed answers, whatever their lines hold and       *)
(* wherever their chunks end.                                              *)
(*                                                                         *)
(* ReadLines is a fold, and a fold is a recursive function on the subsets  *)
(* of its places.  FoldsExist and FoldsAgree say that there is one such    *)
(* function, by a least counterexample; FoldStep is the recursion that the *)
(* rest uses.  StreamIInv says what buf and the extractor hold after every *)
(* chunk.                                                                  *)
(***************************************************************************)
EXTENDS StreamUsage, FiniteSetTheorems, SequenceTheorems, WellFoundedInduction, TLAPS

LEMMA LeastNatural ==
    ASSUME NEW T, T \subseteq Nat, T # {}
    PROVE  \E x \in T : \A y \in T : x <= y
<1>1. PICK x \in T : \A y \in T : <<y, x>> \notin OpToRel(<, Nat)
  BY NatLessThanWellFounded, WFMin, Zenon
<1>2. ASSUME NEW y \in T PROVE x <= y
  <2>1. <<y, x>> \in Nat \X Nat
    OBVIOUS
  <2>2. ~(y < x)
    BY <1>1, <2>1 DEF OpToRel
  <2> QED
    BY <2>2
<1> QED
  BY <1>2

LEMMA MaxIs ==
    ASSUME NEW T, T \subseteq Int, T # {}, NEW bound \in Int, \A x \in T : x <= bound
    PROVE  Max(T) \in T /\ \A y \in T : Max(T) >= y
<1> DEFINE D == {bound - x : x \in T}
<1>1. D \subseteq Nat /\ D # {}
  <2>1. \A x \in T : x \in Int /\ x <= bound
    OBVIOUS
  <2>2. \A x \in T : bound - x \in Nat
    BY <2>1
  <2> QED
    BY <2>2, Zenon
<1>2. PICK d \in D : \A e \in D : d <= e
  BY <1>1, LeastNatural, Zenon
<1>3. PICK x \in T : d = bound - x
  OBVIOUS
<1>4. ASSUME NEW y \in T PROVE x >= y
  <2>1. bound - y \in D
    OBVIOUS
  <2>2. bound - x <= bound - y
    BY <1>2, <1>3, <2>1, Zenon
  <2>3. x \in Int /\ y \in Int
    OBVIOUS
  <2> QED
    BY <2>2, <2>3
<1> QED
  BY <1>4, Zenon DEF Max

-----------------------------------------------------------------------------
(* ReadLines is the fold of ReadAt over the numbers of the lines *)

LEMMA SmallestSet ==
    ASSUME NEW U, IsFiniteSet(U), NEW B, B \subseteq SUBSET U, B # {}
    PROVE  \E s \in B : \A t \in B : t \subseteq s => t = s
<1>1. B \subseteq FiniteSubsetsOf(U)
  BY FS_Subset DEF FiniteSubsetsOf
<1>2. PICK s \in B : \A t \in B : <<t, s>> \notin StrictSubsetOrdering(U)
  BY <1>1, FS_StrictSubsetOrderingWellFounded, WFMin
<1>3. ASSUME NEW t \in B, t \subseteq s PROVE t = s
  BY <1>2, <1>3, Zenon DEF StrictSubsetOrdering
<1> QED
  BY <1>3

\* The place a fold comes to last.
Top(s) == Max(s)

LEMMA TopIs ==
    ASSUME NEW n \in Nat, NEW s, s \subseteq 1 .. n, s # {}
    PROVE  Top(s) \in s /\ \A y \in s : Top(s) >= y
<1>1. s \subseteq Int /\ n \in Int /\ \A x \in s : x <= n
  OBVIOUS
<1>2. Max(s) \in s /\ \A y \in s : Max(s) >= y
  BY <1>1, MaxIs, Zenon
<1> QED
  BY <1>2 DEF Top

\* g has what the fold makes of the places in every subset of 1 .. n.
Folds(n, e, q, g) ==
    g = [s \in SUBSET (1 .. n) |->
            IF s = {} THEN e ELSE ReadAt(g[s \ {Top(s)}], q[Top(s)])]

Fold(n, e, q) == (CHOOSE g : Folds(n, e, q, g))[1 .. n]

LEMMA ReadLinesIs ==
    ASSUME NEW n \in Nat, NEW e, NEW q, DOMAIN q = 1 .. n
    PROVE  ReadLines(e, q) = Fold(n, e, q)
BY DEF ReadLines, FoldLeft, MapThenFoldSet, Folds, Fold, Top

LEMMA FoldsOf ==
    ASSUME NEW n \in Nat, NEW e, NEW q, NEW g, Folds(n, e, q, g)
    PROVE  /\ g[{}] = e
           /\ \A s \in SUBSET (1 .. n) :
                  s # {} => g[s] = ReadAt(g[s \ {Top(s)}], q[Top(s)])
<1>1. g[{}] = e
  BY DEF Folds
<1>2. ASSUME NEW s \in SUBSET (1 .. n), s # {}
      PROVE  g[s] = ReadAt(g[s \ {Top(s)}], q[Top(s)])
  BY <1>2, Zenon DEF Folds
<1> QED
  BY <1>1, <1>2

\* The first n places of q and of r have the same lines.
Alike(n, q, r) == \A i \in 1 .. n : q[i] = r[i]

\* The fold over the first places does not depend on what comes after them.
LEMMA FoldsAgree ==
    ASSUME NEW n \in Nat, NEW m \in Nat, n <= m, NEW e, NEW q, NEW r,
           Alike(n, q, r),
           NEW g, NEW h, Folds(n, e, q, g), Folds(m, e, r, h)
    PROVE  \A s \in SUBSET (1 .. n) : g[s] = h[s]
<1>1. PICK B : B = {s \in SUBSET (1 .. n) : g[s] # h[s]}
  BY Zenon
<1> SUFFICES ASSUME B # {} PROVE FALSE
  BY <1>1, Zenon
<1>2. PICK U : U = 1 .. n
  OBVIOUS
<1>3. PICK s \in B : \A t \in B : t \subseteq s => t = s
  <2>1. IsFiniteSet(U) /\ B \subseteq SUBSET U
    BY <1>1, <1>2, FS_Interval
  <2> QED
    BY <2>1, SmallestSet
<1>4. s \in SUBSET (1 .. n) /\ s \in SUBSET (1 .. m) /\ g[s] # h[s]
  BY <1>1
<1>5. s # {}
  <2>1. g[{}] = e
    BY FoldsOf
  <2>2. h[{}] = e
    BY FoldsOf
  <2> QED
    BY <1>4, <2>1, <2>2
<1>6. PICK x \in s : x = Top(s)
  BY <1>4, <1>5, TopIs, Zenon
<1>7. g[s] = ReadAt(g[s \ {x}], q[x]) /\ h[s] = ReadAt(h[s \ {x}], r[x])
  <2>1. g[s] = ReadAt(g[s \ {Top(s)}], q[Top(s)])
    BY <1>4, <1>5, FoldsOf
  <2>2. h[s] = ReadAt(h[s \ {Top(s)}], r[Top(s)])
    BY <1>4, <1>5, FoldsOf
  <2> QED
    BY <1>6, <2>1, <2>2, Zenon
<1>8. s \ {x} \notin B
  BY <1>3, <1>6, Zenon
<1>9. g[s \ {x}] = h[s \ {x}]
  BY <1>1, <1>4, <1>8, Zenon
<1>10. q[x] = r[x]
  BY <1>4, <1>6 DEF Alike
<1> QED
  BY <1>4, <1>7, <1>9, <1>10

LEMMA FoldsExist ==
    ASSUME NEW n \in Nat, NEW e, NEW q
    PROVE  \E g : Folds(n, e, q, g)
<1>1. PICK N : N = {m \in Nat : ~ \E g : Folds(m, e, q, g)}
  BY Zenon
<1> SUFFICES ASSUME N # {} PROVE FALSE
  BY <1>1
<1>2. PICK m \in N : \A k \in N : m <= k
  BY <1>1, LeastNatural, Zenon
<1>3. m \in Nat /\ ~ \E g : Folds(m, e, q, g)
  BY <1>1
<1>4. CASE m = 0
  <2>1. PICK g : g = [s \in SUBSET (1 .. 0) |-> e]
    BY Zenon
  <2>2. \A s \in SUBSET (1 .. 0) : s = {}
    OBVIOUS
  <2>3. Folds(0, e, q, g)
    BY <2>1, <2>2 DEF Folds
  <2> QED
    BY <1>3, <1>4, <2>3
<1>5. CASE m # 0
  <2>1. PICK p \in Nat : m = p + 1
    <3>1. m - 1 \in Nat /\ m = (m - 1) + 1
      BY <1>3, <1>5
    <3> QED
      BY <3>1
  <2>2. p \notin N
    BY <1>2, <2>1
  <2>3. PICK h : Folds(p, e, q, h)
    BY <1>1, <2>2
  <2>4. PICK g : g = [s \in SUBSET (1 .. m) |->
                        IF s = {} THEN e ELSE ReadAt(h[s \ {Top(s)}], q[Top(s)])]
    BY Zenon
  <2>5. ASSUME NEW s \in SUBSET (1 .. p) PROVE g[s] = h[s]
    <3>1. s \in SUBSET (1 .. m)
      BY <2>1
    <3>2. h[{}] = e
      BY <2>3, FoldsOf
    <3>3. s # {} => h[s] = ReadAt(h[s \ {Top(s)}], q[Top(s)])
      BY <2>3, FoldsOf
    <3> QED
      BY <2>4, <3>1, <3>2, <3>3, Zenon
  <2>6. ASSUME NEW s \in SUBSET (1 .. m), s # {}
        PROVE  h[s \ {Top(s)}] = g[s \ {Top(s)}]
    <3>1. Top(s) \in s /\ \A y \in s : Top(s) >= y
      BY <1>3, <2>6, TopIs, Zenon
    <3>2. ASSUME NEW y \in s, y # Top(s) PROVE y \in 1 .. p
      <4>1. y \in 1 .. m /\ Top(s) \in 1 .. m /\ y <= Top(s)
        BY <3>1, Zenon
      <4> QED
        BY <2>1, <3>2, <4>1
    <3>3. s \ {Top(s)} \in SUBSET (1 .. p)
      BY <3>2, Zenon
    <3> QED
      BY <2>5, <3>3
  <2>7. g = [s \in SUBSET (1 .. m) |->
                IF s = {} THEN e ELSE ReadAt(g[s \ {Top(s)}], q[Top(s)])]
    BY <2>4, <2>6, Zenon
  <2>8. Folds(m, e, q, g)
    BY <2>7, Zenon DEF Folds
  <2> QED
    BY <1>3, <2>8
<1> QED
  BY <1>4, <1>5

LEMMA FoldIs ==
    ASSUME NEW n \in Nat, NEW e, NEW q
    PROVE  \E g : Folds(n, e, q, g) /\ Fold(n, e, q) = g[1 .. n]
<1>1. PICK g : g = CHOOSE h : Folds(n, e, q, h)
  OBVIOUS
<1>2. Folds(n, e, q, g)
  BY <1>1, FoldsExist, Zenon
<1> QED
  BY <1>1, <1>2, Zenon DEF Fold

\* No line read leaves the extractor as it was, and one line more is read after the rest.
LEMMA FoldStep ==
    ASSUME NEW n \in Nat, NEW e, NEW q, NEW r, Alike(n, r, q)
    PROVE  /\ Fold(0, e, q) = e
           /\ Fold(n + 1, e, q) = ReadAt(Fold(n, e, r), q[n + 1])
<1>1. Fold(0, e, q) = e
  <2>1. PICK g : Folds(0, e, q, g) /\ Fold(0, e, q) = g[1 .. 0]
    BY FoldIs
  <2>2. g[{}] = e
    BY <2>1, FoldsOf
  <2>3. 1 .. 0 = {}
    OBVIOUS
  <2> QED
    BY <2>1, <2>2, <2>3, Zenon
<1>2. PICK m \in Nat : m = n + 1
  OBVIOUS
<1>3. PICK g : Folds(m, e, q, g) /\ Fold(m, e, q) = g[1 .. m]
  BY FoldIs
<1>4. PICK h : Folds(n, e, r, h) /\ Fold(n, e, r) = h[1 .. n]
  BY FoldIs
<1>5. PICK s : s = 1 .. m
  OBVIOUS
<1>6. s # {} /\ s \in SUBSET (1 .. m) /\ m \in s
  <2>1. m \in 1 .. m
    BY <1>2
  <2> QED
    BY <1>5, <2>1, Zenon
<1>7. Top(s) = m
  <2>1. Top(s) \in s /\ \A y \in s : Top(s) >= y
    BY <1>6, TopIs, Zenon
  <2> QED
    BY <1>5, <1>6, <2>1
<1>8. g[s] = ReadAt(g[s \ {Top(s)}], q[Top(s)])
  BY <1>3, <1>6, FoldsOf
<1>9. s \ {m} = 1 .. n
  BY <1>2, <1>5
<1>10. h[1 .. n] = g[1 .. n]
  <2>1. n <= m
    BY <1>2
  <2>2. \A t \in SUBSET (1 .. n) : h[t] = g[t]
    BY <1>3, <1>4, <2>1, FoldsAgree, SMTT(30)
  <2> QED
    BY <2>2
<1>11. Fold(m, e, q) = ReadAt(h[1 .. n], q[m])
  BY <1>3, <1>5, <1>7, <1>8, <1>9, <1>10, Zenon
<1> QED
  BY <1>1, <1>2, <1>4, <1>11, Zenon
-----------------------------------------------------------------------------
(* The tokens of a stream, and the lines they make *)

LEMMA TokenIs ==
    ASSUME NEW a \in Nat
    PROVE  /\ Token(3 * a + 1) = <<a + 1, "head">>
           /\ Token(3 * a + 2) = <<a + 1, "tail">>
           /\ Token(3 * a + 3) = <<a + 1, "eol">>
<1>1. /\ ((3 * a + 1) - 1) \div 3 = a /\ ((3 * a + 1) - 1) % 3 = 0
      /\ ((3 * a + 2) - 1) \div 3 = a /\ ((3 * a + 2) - 1) % 3 = 1
      /\ ((3 * a + 3) - 1) \div 3 = a /\ ((3 * a + 3) - 1) % 3 = 2
  OBVIOUS
<1>2. PICK f : f = <<"head", "tail", "eol">>
  BY Zenon
<1>3. f[1] = "head" /\ f[2] = "tail" /\ f[3] = "eol"
  BY <1>2
<1>4. \A n : Token(n) = <<(n - 1) \div 3 + 1, f[((n - 1) % 3) + 1]>>
  BY <1>2 DEF Token
<1> QED
  BY <1>1, <1>3, <1>4

\* Where a place of the stream is in its line.
LEMMA ThirdOf ==
    ASSUME NEW k \in Nat \ {0}
    PROVE  \E b \in Nat : k = 3 * b + 1 \/ k = 3 * b + 2 \/ k = 3 * b + 3
<1>1. PICK b : b = (k - 1) \div 3
  OBVIOUS
<1>2. b \in Nat /\ (k = 3 * b + 1 \/ k = 3 * b + 2 \/ k = 3 * b + 3)
  BY <1>1
<1> QED
  BY <1>2

\* Every third token ends a line, and the line is whole.
LEMMA LinesAre ==
    ASSUME NEW a \in Nat, NEW to \in Nat, 3 * a <= to,
           NEW w, w = WholeLines(Tokens(3 * a, to))
    PROVE  /\ DOMAIN w = 1 .. to - 3 * a
           /\ \A k \in 1 .. to - 3 * a : w[k] = IF k % 3 = 0 THEN a + k \div 3 ELSE 0
<1>1. PICK n \in Nat : n = to - 3 * a
  OBVIOUS
<1>2. PICK t : t = Tokens(3 * a, to)
  OBVIOUS
<1>3. DOMAIN t = 1 .. n /\ \A k \in 1 .. n : t[k] = Token(3 * a + k)
  BY <1>1, <1>2, Zenon DEF Tokens
<1>4. w = WholeLines(t)
  BY <1>2
<1>5. DOMAIN w = 1 .. n
  BY <1>3, <1>4 DEF WholeLines
<1>6. \A k \in 1 .. n :
         w[k] = IF /\ k > 2 /\ IsEnd(t[k])
                   /\ t[k - 1] = <<t[k][1], "tail">>
                   /\ t[k - 2] = <<t[k][1], "head">>
                THEN t[k][1] ELSE 0
  BY <1>3, <1>4, Zenon DEF WholeLines
<1>7. ASSUME NEW k \in 1 .. n
      PROVE  w[k] = IF k % 3 = 0 THEN a + k \div 3 ELSE 0
  <2>1. PICK b \in Nat : k = 3 * b + 1 \/ k = 3 * b + 2 \/ k = 3 * b + 3
    <3>1. k \in Nat \ {0}
      BY <1>1
    <3> QED
      BY <3>1, ThirdOf, Zenon
  <2>2. PICK c \in Nat : c = a + b
    OBVIOUS
  <2>3. /\ Token(3 * c + 1) = <<c + 1, "head">>
        /\ Token(3 * c + 2) = <<c + 1, "tail">>
        /\ Token(3 * c + 3) = <<c + 1, "eol">>
    BY TokenIs
  <2>4. CASE k = 3 * b + 1
    <3>1. t[k] = <<c + 1, "head">> /\ k % 3 = 1
      <4>1. 3 * a + k = 3 * c + 1 /\ k % 3 = 1
        BY <2>2, <2>4
      <4> QED
        BY <1>3, <2>3, <4>1, Zenon
    <3>2. ~ IsEnd(t[k])
      BY <3>1 DEF IsEnd
    <3> QED
      BY <1>6, <3>1, <3>2
  <2>5. CASE k = 3 * b + 2
    <3>1. t[k] = <<c + 1, "tail">> /\ k % 3 = 2
      <4>1. 3 * a + k = 3 * c + 2 /\ k % 3 = 2
        BY <2>2, <2>5
      <4> QED
        BY <1>3, <2>3, <4>1, Zenon
    <3>2. ~ IsEnd(t[k])
      BY <3>1 DEF IsEnd
    <3> QED
      BY <1>6, <3>1, <3>2
  <2>6. CASE k = 3 * b + 3
    <3>1. /\ 3 * a + k = 3 * c + 3 /\ 3 * a + (k - 1) = 3 * c + 2
          /\ 3 * a + (k - 2) = 3 * c + 1
          /\ k - 1 \in 1 .. n /\ k - 2 \in 1 .. n /\ k > 2
          /\ k % 3 = 0 /\ a + k \div 3 = c + 1
      BY <2>2, <2>6
    <3>2. /\ t[k] = <<c + 1, "eol">> /\ t[k - 1] = <<c + 1, "tail">>
          /\ t[k - 2] = <<c + 1, "head">>
      BY <1>3, <2>3, <3>1, Zenon
    <3>3. IsEnd(t[k]) /\ t[k][1] = c + 1
      BY <3>2 DEF IsEnd
    <3> QED
      BY <1>6, <3>1, <3>2, <3>3, Zenon
  <2> QED
    BY <2>1, <2>4, <2>5, <2>6, Zenon
<1> QED
  BY <1>1, <1>5, <1>7, Zenon

\* The lines of a stream from the first to the j-th, and what they leave the extractor.
FirstLines(j) == [i \in 1 .. j |-> i]
ReadUpTo(j) == Fold(j, Fresh, FirstLines(j))

LEMMA ReadUpToIs ==
    ASSUME NEW j \in Nat
    PROVE  /\ ReadUpTo(0) = Fresh
           /\ ReadUpTo(j + 1) = ReadAt(ReadUpTo(j), j + 1)
           /\ ReadUpTo(j) = ReadLines(Fresh, FirstLines(j))
<1>1. Alike(j, FirstLines(j), FirstLines(j + 1)) /\ FirstLines(j + 1)[j + 1] = j + 1
  BY DEF Alike, FirstLines
<1>2. Alike(0, FirstLines(0), FirstLines(0))
  BY DEF Alike
<1>3. Fold(0, Fresh, FirstLines(0)) = Fresh
  BY <1>2, FoldStep
<1>4. Fold(j + 1, Fresh, FirstLines(j + 1))
        = ReadAt(Fold(j, Fresh, FirstLines(j)), FirstLines(j + 1)[j + 1])
  BY <1>1, FoldStep
<1>5. DOMAIN FirstLines(j) = 1 .. j
  BY DEF FirstLines
<1> QED
  BY <1>1, <1>3, <1>4, <1>5, ReadLinesIs, Zenon DEF ReadUpTo

\* An extractor that has read a lines and is given the tokens after them reads on.
LEMMA ReadsOn ==
    ASSUME NEW a \in Nat, NEW n \in Nat, NEW w,
           \A k \in 1 .. n : w[k] = IF k % 3 = 0 THEN a + k \div 3 ELSE 0
    PROVE  Fold(n, ReadUpTo(a), w) = ReadUpTo(a + n \div 3)
<1>1. PICK e : e = ReadUpTo(a)
  OBVIOUS
<1>2. PICK N : N = {m \in 0 .. n : Fold(m, e, w) # ReadUpTo(a + m \div 3)}
  BY Zenon
<1> SUFFICES ASSUME N # {} PROVE FALSE
  BY <1>1, <1>2
<1>3. PICK m \in N : \A k \in N : m <= k
  <2>1. N \subseteq Nat
    BY <1>2
  <2> QED
    BY <2>1, LeastNatural, Zenon
<1>4. m \in 0 .. n /\ Fold(m, e, w) # ReadUpTo(a + m \div 3)
  BY <1>2
<1>5. \A k \in Nat : Alike(k, w, w)
  BY DEF Alike
<1>6. CASE m = 0
  <2>1. Fold(0, e, w) = e
    BY <1>5, FoldStep
  <2>2. a + 0 \div 3 = a
    OBVIOUS
  <2> QED
    BY <1>1, <1>4, <1>6, <2>1, <2>2, ZenonT(30)
<1>7. CASE m # 0
  <2>1. PICK p \in Nat : m = p + 1
    <3>1. m - 1 \in Nat /\ m = (m - 1) + 1
      BY <1>4, <1>7
    <3> QED
      BY <3>1
  <2>2. p \in 0 .. n /\ p \notin N
    BY <1>3, <1>4, <2>1
  <2>3. PICK b \in Nat : b = a + p \div 3
    OBVIOUS
  <2>4. Fold(p, e, w) = ReadUpTo(b)
    BY <1>2, <2>2, <2>3, Zenon
  <2>5. Fold(m, e, w) = ReadAt(ReadUpTo(b), w[m])
    BY <1>5, <2>1, <2>4, FoldStep, SMTT(30)
  <2>6. m \in 1 .. n
    BY <1>4, <1>7
  <2>7. CASE m % 3 = 0
    <3>1. a + m \div 3 = b + 1
      BY <2>1, <2>3, <2>7
    <3>2. w[m] = b + 1
      BY <2>6, <2>7, <3>1, Zenon
    <3>3. ReadUpTo(b + 1) = ReadAt(ReadUpTo(b), b + 1)
      BY ReadUpToIs
    <3> QED
      BY <1>4, <2>5, <3>1, <3>2, <3>3, ZenonT(30)
  <2>8. CASE m % 3 # 0
    <3>1. a + m \div 3 = b
      BY <2>1, <2>3, <2>8
    <3>2. w[m] = 0
      BY <2>6, <2>8, Zenon
    <3>3. ReadAt(ReadUpTo(b), 0) = ReadUpTo(b)
      BY DEF ReadAt
    <3> QED
      BY <1>4, <2>5, <3>1, <3>2, <3>3, ZenonT(30)
  <2> QED
    BY <2>7, <2>8
<1> QED
  BY <1>6, <1>7, Zenon

TokenSet == {Token(i) : i \in Int}

LEMMA TokensAre ==
    ASSUME NEW from \in Nat, NEW to \in Nat, from <= to, NEW t, t = Tokens(from, to)
    PROVE  /\ t \in Seq(TokenSet) /\ Len(t) = to - from
           /\ \A k \in 1 .. to - from : t[k] = Token(from + k)
<1>1. PICK n \in Nat : n = to - from
  OBVIOUS
<1>2. DOMAIN t = 1 .. n /\ \A k \in 1 .. n : t[k] = Token(from + k)
  BY <1>1 DEF Tokens
<1>3. \A k \in 1 .. n : t[k] \in TokenSet
  BY <1>2 DEF TokenSet
<1>4. t \in [1 .. n -> TokenSet]
  BY <1>1, <1>2, <1>3, Zenon DEF Tokens
<1>5. t \in Seq(TokenSet) /\ Len(t) = n
  BY <1>4
<1> QED
  BY <1>1, <1>2, <1>5, ZenonT(30)

\* What buf holds of the chunks before and a chunk make one run of tokens.
LEMMA TokensJoin ==
    ASSUME NEW a \in Nat, NEW b \in Nat, NEW c \in Nat, a <= b, b <= c
    PROVE  Tokens(a, b) \o Tokens(b, c) = Tokens(a, c)
<1>1. PICK s, t, u : s = Tokens(a, b) /\ t = Tokens(b, c) /\ u = Tokens(a, c)
  OBVIOUS
<1>2. /\ s \in Seq(TokenSet) /\ Len(s) = b - a
      /\ \A k \in 1 .. b - a : s[k] = Token(a + k)
  BY <1>1, TokensAre, ZenonT(30)
<1>3. /\ t \in Seq(TokenSet) /\ Len(t) = c - b
      /\ \A k \in 1 .. c - b : t[k] = Token(b + k)
  BY <1>1, TokensAre, ZenonT(30)
<1>4. /\ u \in Seq(TokenSet) /\ Len(u) = c - a
      /\ \A k \in 1 .. c - a : u[k] = Token(a + k)
  <2>1. a <= c
    OBVIOUS
  <2> QED
    BY <1>1, <2>1, TokensAre, Zenon
<1>5. PICK v : v = s \o t
  BY Zenon
<1>6. /\ v \in Seq(TokenSet) /\ Len(v) = Len(s) + Len(t)
      /\ \A i \in 1 .. Len(s) + Len(t) : v[i] = IF i <= Len(s) THEN s[i] ELSE t[i - Len(s)]
  BY <1>2, <1>3, <1>5, ConcatProperties, Zenon
<1>7. Len(v) = Len(u)
  BY <1>2, <1>3, <1>4, <1>6
<1>8. ASSUME NEW i \in 1 .. Len(v) PROVE v[i] = u[i]
  <2>1. i \in 1 .. c - a /\ u[i] = Token(a + i)
    BY <1>4, <1>7, Zenon
  <2>2. CASE i <= b - a
    <3>1. v[i] = s[i] /\ s[i] = Token(a + i)
      BY <1>2, <1>3, <1>6, <2>1, <2>2, SMTT(30)
    <3> QED
      BY <2>1, <3>1, Zenon
  <2>3. CASE ~(i <= b - a)
    <3>1. i - (b - a) \in 1 .. c - b /\ b + (i - (b - a)) = a + i
      BY <2>1, <2>3
    <3>2. v[i] = t[i - (b - a)]
      BY <1>2, <1>3, <1>6, <2>1, <2>3, ZenonT(30)
    <3> QED
      BY <1>3, <2>1, <3>1, <3>2, ZenonT(30)
  <2> QED
    BY <2>2, <2>3, Zenon
<1>9. v = u
  BY <1>4, <1>6, <1>7, <1>8, SeqEqual, ZenonT(30)
<1> QED
  BY <1>1, <1>5, <1>9, Zenon

\* After a chunk buf holds the line that has begun.
LEMMA RestIs ==
    ASSUME NEW a \in Nat, NEW to \in Nat, 3 * a <= to, NEW t, t = Tokens(3 * a, to)
    PROVE  Rest(t) = Tokens(3 * (to \div 3), to)
<1>1. PICK n \in Nat : n = to - 3 * a
  OBVIOUS
<1>2. PICK m \in Nat : m = 3 * (to \div 3)
  OBVIOUS
<1>3. 3 * a <= m /\ m <= to /\ to < m + 3 /\ m % 3 = 0
  BY <1>2
<1>4. PICK last \in Nat : last = m - 3 * a
  BY <1>3
<1>5. /\ t \in Seq(TokenSet) /\ Len(t) = n
      /\ \A k \in 1 .. n : t[k] = Token(3 * a + k)
  <2>1. t = [k \in 1 .. n |-> Token(3 * a + k)]
    BY <1>1 DEF Tokens
  <2>2. \A k \in 1 .. n : t[k] \in TokenSet /\ t[k] = Token(3 * a + k)
    BY <2>1 DEF TokenSet
  <2>3. t \in [1 .. n -> TokenSet]
    BY <2>1, <2>2, Zenon
  <2> QED
    BY <2>2, <2>3
<1>6. ASSUME NEW k \in 1 .. n PROVE IsEnd(t[k]) <=> k % 3 = 0
  <2>1. PICK b \in Nat : k = 3 * b + 1 \/ k = 3 * b + 2 \/ k = 3 * b + 3
    <3>1. k \in Nat \ {0}
      BY <1>1
    <3> QED
      BY <3>1, ThirdOf, Zenon
  <2>2. PICK c \in Nat : c = a + b
    OBVIOUS
  <2>3. /\ Token(3 * c + 1) = <<c + 1, "head">>
        /\ Token(3 * c + 2) = <<c + 1, "tail">>
        /\ Token(3 * c + 3) = <<c + 1, "eol">>
    BY TokenIs
  <2>4. \/ 3 * a + k = 3 * c + 1 /\ k % 3 = 1
        \/ 3 * a + k = 3 * c + 2 /\ k % 3 = 2
        \/ 3 * a + k = 3 * c + 3 /\ k % 3 = 0
    BY <2>1, <2>2
  <2>5. \/ t[k] = <<c + 1, "head">> /\ k % 3 = 1
        \/ t[k] = <<c + 1, "tail">> /\ k % 3 = 2
        \/ t[k] = <<c + 1, "eol">> /\ k % 3 = 0
    <3>1. t[k] = Token(3 * a + k)
      BY <1>5
    <3> QED
      BY <2>3, <2>4, <3>1, Zenon
  <2> QED
    BY <2>5 DEF IsEnd
<1>7. LastEnd(t) = last
  <2>1. PICK ends : ends = {0} \cup {k \in DOMAIN t : IsEnd(t[k])}
    BY Zenon
  <2>2. DOMAIN t = 1 .. n
    BY <1>5
  <2>3. last \in ends
    <3>1. last = 0 \/ (last \in 1 .. n /\ last % 3 = 0)
      BY <1>1, <1>3, <1>4
    <3> QED
      BY <1>6, <2>1, <2>2, <3>1, Zenon
  <2>4. ASSUME NEW y \in ends PROVE y \in Nat /\ last >= y
    <3>1. y = 0 \/ (y \in 1 .. n /\ y % 3 = 0)
      BY <1>6, <2>1, <2>2, Zenon
    <3> QED
      BY <1>1, <1>3, <1>4, <3>1
  <2>5. Max(ends) \in ends /\ \A y \in ends : Max(ends) >= y
    BY <2>3, <2>4, Zenon DEF Max
  <2>6. PICK x : x = Max(ends)
    OBVIOUS
  <2>7. x \in Nat /\ x >= last /\ last >= x
    BY <2>3, <2>4, <2>5, <2>6, Zenon
  <2>8. x = last
    BY <2>7
  <2> QED
    BY <2>1, <2>6, <2>8, Zenon DEF LastEnd
<1>8. PICK s : s = SubSeq(t, last + 1, n)
  BY Zenon
<1>9. /\ s \in Seq(TokenSet)
      /\ Len(s) = to - m
      /\ \A i \in 1 .. to - m : s[i] = Token(m + i)
  <2>1. \A i \in last + 1 .. n : t[i] \in TokenSet
    BY <1>5
  <2>2. /\ s \in Seq(TokenSet)
        /\ Len(s) = IF last + 1 <= n THEN n - (last + 1) + 1 ELSE 0
        /\ \A i \in 1 .. n - (last + 1) + 1 : s[i] = t[(last + 1) + i - 1]
    BY <1>8, <2>1, SubSeqProperties
  <2>3. Len(s) = to - m /\ n - (last + 1) + 1 = to - m
    BY <1>1, <1>3, <1>4, <2>2
  <2>4. ASSUME NEW i \in 1 .. to - m PROVE s[i] = Token(m + i)
    <3>1. /\ (last + 1) + i - 1 = last + i /\ last + i \in 1 .. n
          /\ 3 * a + (last + i) = m + i
      BY <1>1, <1>3, <1>4, <2>4, SMTT(30)
    <3> QED
      BY <1>5, <2>2, <2>3, <3>1, ZenonT(30)
  <2> QED
    BY <2>2, <2>3, <2>4, Zenon
<1>10. PICK u : u = Tokens(m, to)
  OBVIOUS
<1>11. /\ u \in Seq(TokenSet) /\ Len(u) = to - m
       /\ \A k \in 1 .. to - m : u[k] = Token(m + k)
  BY <1>3, <1>10, TokensAre, ZenonT(30)
<1>12. s = u
  <2>1. \A i \in 1 .. Len(s) : s[i] = u[i]
    BY <1>9, <1>11
  <2> QED
    BY <1>9, <1>11, <2>1, SeqEqual
<1> QED
  BY <1>2, <1>5, <1>7, <1>8, <1>10, <1>12, ZenonT(30) DEF Rest
-----------------------------------------------------------------------------
StreamIInv ==
    /\ taken \in Nat
    /\ buf = Tokens(3 * (taken \div 3), taken)
    /\ ext = ReadUpTo(taken \div 3)
    /\ phase = "idle" => taken = 0

LEMMA NothingIsRead == ReadUpTo(0) = Fresh
BY ReadUpToIs

LEMMA StreamInitIInv == StreamInit => StreamIInv
<1> SUFFICES ASSUME StreamInit PROVE StreamIInv
  OBVIOUS
<1>1. taken = 0 /\ buf = <<>> /\ ext = Fresh
  BY DEF StreamInit
<1>2. 3 * (0 \div 3) = 0 /\ 0 \div 3 = 0
  OBVIOUS
<1>3. Tokens(0, 0) = <<>>
  BY DEF Tokens
<1> QED
  BY <1>1, <1>2, <1>3, NothingIsRead DEF StreamIInv

LEMMA SameStream ==
    ASSUME stream' = stream, NEW j
    PROVE  ReadUpTo(j)' = ReadUpTo(j)
BY DEF ReadUpTo, Fold, Folds, ReadAt

\* A step that reads nothing of the stream.
LEMMA StreamRests ==
    ASSUME StreamIInv, UNCHANGED <<stream, taken, buf, ext>>, phase' # "idle" \/ phase' = phase
    PROVE  StreamIInv'
<1>1. PICK j : j = taken \div 3
  OBVIOUS
<1>2. ReadUpTo(j)' = ReadUpTo(j)
  BY SameStream
<1>3. ext' = ReadUpTo(taken \div 3)'
  BY <1>1, <1>2, Zenon DEF StreamIInv
<1>4. /\ taken' \in Nat /\ buf' = Tokens(3 * (taken' \div 3), taken')
      /\ phase' = "idle" => taken' = 0
  BY DEF StreamIInv
<1> QED
  BY <1>3, <1>4, Zenon DEF StreamIInv

LEMMA OpenStep ==
    ASSUME StreamIInv, NEW s, Open(s)
    PROVE  StreamIInv'
<1>1. taken = 0 /\ taken' = 0 /\ buf' = buf /\ ext' = ext /\ phase' # "idle"
  BY DEF StreamIInv, Open
<1>2. 3 * (0 \div 3) = 0 /\ 0 \div 3 = 0
  OBVIOUS
<1>3. ext = ReadUpTo(0) /\ buf = Tokens(0, 0)
  BY <1>1, <1>2, Zenon DEF StreamIInv
<1>4. (ReadUpTo(0) = Fresh)'
  BY NothingIsRead, PTL
<1>5. ext' = ReadUpTo(0)'
  BY <1>1, <1>3, <1>4, NothingIsRead, Zenon
<1>6. ext' = ReadUpTo(taken \div 3)'
  BY <1>1, <1>2, <1>5, Zenon
<1> QED
  BY <1>1, <1>2, <1>3, <1>6, Zenon DEF StreamIInv

LEMMA ChunkStep ==
    ASSUME StreamIInv, NEW to \in Nat, Chunk(to)
    PROVE  StreamIInv'
<1>1. PICK a \in Nat : a = taken \div 3
  BY DEF StreamIInv
<1>2. PICK b \in Nat : b = 3 * a
  OBVIOUS
<1>3. PICK p \in Nat : p = taken
  BY DEF StreamIInv
<1>4. to >= p /\ taken' = to /\ stream' = stream /\ phase' = phase /\ phase = "copy"
  BY <1>3 DEF Chunk
<1>5. PICK t : t = buf \o Tokens(taken, to)
  BY Zenon
<1>6. ext' = ReadLines(ext, WholeLines(t)) /\ buf' = Rest(t)
  BY <1>5 DEF Chunk
<1>7. b <= p /\ 3 * a <= to
  BY <1>1, <1>2, <1>3, <1>4, SMTT(30)
<1>8. t = Tokens(b, to)
  <2>1. t = Tokens(b, p) \o Tokens(p, to)
    BY <1>1, <1>2, <1>3, <1>5, ZenonT(30) DEF StreamIInv
  <2> QED
    BY <1>4, <1>7, <2>1, TokensJoin, ZenonT(30)
<1>9. t = Tokens(3 * a, to)
  BY <1>2, <1>8, Zenon
<1>10. PICK w : w = WholeLines(t)
  OBVIOUS
<1>11. PICK n \in Nat : n = to - 3 * a
  BY <1>7
<1>12. /\ DOMAIN w = 1 .. n
       /\ \A k \in 1 .. n : w[k] = IF k % 3 = 0 THEN a + k \div 3 ELSE 0
  BY <1>7, <1>9, <1>10, <1>11, LinesAre, SMTT(30)
<1>13. ReadLines(ReadUpTo(a), w) = Fold(n, ReadUpTo(a), w)
  BY <1>12, ReadLinesIs, Zenon
<1>14. Fold(n, ReadUpTo(a), w) = ReadUpTo(a + n \div 3)
  BY <1>12, ReadsOn, ZenonT(30)
<1>15. a + n \div 3 = to \div 3
  BY <1>7, <1>11
<1>16. ext = ReadUpTo(a)
  BY <1>1, Zenon DEF StreamIInv
<1>17. PICK j : j = to \div 3
  OBVIOUS
<1>18. ext' = ReadUpTo(j)
  BY <1>6, <1>10, <1>13, <1>14, <1>15, <1>16, <1>17, ZenonT(30)
<1>19. ReadUpTo(j)' = ReadUpTo(j)
  BY <1>4, SameStream, Zenon
<1>20. ext' = ReadUpTo(taken \div 3)'
  BY <1>4, <1>17, <1>18, <1>19, Zenon
<1>21. buf' = Tokens(3 * (to \div 3), to)
  BY <1>6, <1>7, <1>9, RestIs, ZenonT(30)
<1> QED
  BY <1>4, <1>20, <1>21, Zenon DEF StreamIInv

LEMMA StreamNextIInv == StreamIInv /\ [StreamNext]_streamVars => StreamIInv'
<1> SUFFICES ASSUME StreamIInv, [StreamNext]_streamVars PROVE StreamIInv'
  OBVIOUS
<1>1. ASSUME NEW s \in Streams, Open(s) PROVE StreamIInv'
  BY <1>1, OpenStep, Zenon
<1>2. ASSUME NEW to \in 0 .. Size, Chunk(to) PROVE StreamIInv'
  <2>1. to \in Nat
    BY <1>2
  <2> QED
    BY <1>2, <2>1, ChunkStep, Zenon
<1>3. ASSUME NEW to \in 0 .. Size, ClientGone(to) PROVE StreamIInv'
  <2>1. UNCHANGED <<stream, taken, buf, ext>> /\ phase' # "idle"
    BY <1>3 DEF ClientGone
  <2> QED
    BY <2>1, StreamRests, Zenon
<1>4. CASE UpstreamEnds
  <2>1. UNCHANGED <<stream, taken, buf, ext>> /\ phase' # "idle"
    BY <1>4 DEF UpstreamEnds
  <2> QED
    BY <2>1, StreamRests, Zenon
<1>5. ASSUME NEW ok \in BOOLEAN, Store(ok) PROVE StreamIInv'
  <2>1. UNCHANGED <<stream, taken, buf, ext>> /\ phase' # "idle"
    BY <1>5 DEF Store
  <2> QED
    BY <2>1, StreamRests, Zenon
<1>6. CASE Panic
  <2>1. UNCHANGED <<stream, taken, buf, ext>> /\ phase' # "idle"
    BY <1>6 DEF Panic
  <2> QED
    BY <2>1, StreamRests, Zenon
<1>7. CASE UNCHANGED streamVars
  <2>1. UNCHANGED <<stream, taken, buf, ext>> /\ phase' = phase
    BY <1>7 DEF streamVars
  <2> QED
    BY <2>1, StreamRests, Zenon
<1> QED
  BY <1>1, <1>2, <1>3, <1>4, <1>5, <1>6, <1>7, ZenonT(30) DEF StreamNext

\* sseUsageExtractor.Write: wherever the chunks of a stream end, and whatever its lines
\* hold, the extractor has read every whole line once, in order, and nothing else.
THEOREM ChunksDoNotMatter == StreamSpec => []ChunkingIsIrrelevant
<1>1. StreamIInv => ChunkingIsIrrelevant
  <2> SUFFICES ASSUME StreamIInv PROVE ChunkingIsIrrelevant
    OBVIOUS
  <2>1. PICK j \in Nat : j = taken \div 3
    BY DEF StreamIInv
  <2>2. ReadUpTo(j) = ReadLines(Fresh, FirstLines(j))
    BY ReadUpToIs
  <2> QED
    BY <2>1, <2>2, Zenon DEF StreamIInv, ChunkingIsIrrelevant, FirstLines
<1> QED
  BY <1>1, StreamInitIInv, StreamNextIInv, PTL DEF StreamSpec
-----------------------------------------------------------------------------
(* The usage in the answer that is assembled *)

ExtFields == {"acc", "mdl", "id", "role", "parts", "tools", "finish", "usage", "blocks",
              "completed"}

\* The usage an extractor puts into the answer is the one it has counted.
ChatCoherent(e) ==
    \/ e.usage = Empty /\ e.acc = NoUsage
    \/ \E u : /\ e.acc = ChatUsage(u)
              /\ e.usage = [prompt_tokens |-> Num(u, "prompt_tokens"),
                            completion_tokens |-> Num(u, "completion_tokens"),
                            total_tokens |-> Num(u, "total_tokens")]

ClaudeCoherent(e) == e.acc.total = e.acc.prompt + e.acc.completion

Coherent(e) ==
    /\ DOMAIN e = ExtFields
    /\ stream.family = "openai_chat" => ChatCoherent(e)
    /\ stream.family = "claude_messages" => ClaudeCoherent(e)

LEMMA FreshCoherent == Coherent(Fresh)
<1>1. DOMAIN Fresh = ExtFields
  BY DEF Fresh, ExtFields
<1>2. ChatCoherent(Fresh)
  BY DEF Fresh, ChatCoherent
<1>3. ClaudeCoherent(Fresh)
  BY DEF Fresh, ClaudeCoherent, NoUsage, Usage
<1> QED
  BY <1>1, <1>2, <1>3, ZenonT(30) DEF Coherent

LEMMA ProcessChatCoherent ==
    ASSUME NEW e, NEW v, DOMAIN e = ExtFields, ChatCoherent(e)
    PROVE  DOMAIN ProcessChat(e, v) = ExtFields /\ ChatCoherent(ProcessChat(e, v))
<1>1. PICK f : f = ProcessChat(e, v)
  OBVIOUS
<1>2. PICK u : u = Obj(v, "usage")
  OBVIOUS
<1>3. /\ DOMAIN f = ExtFields
      /\ f.acc = IF Num(u, "total_tokens") > 0 THEN ChatUsage(u) ELSE e.acc
      /\ f.usage = IF Num(u, "total_tokens") > 0
                   THEN [prompt_tokens |-> Num(u, "prompt_tokens"),
                         completion_tokens |-> Num(u, "completion_tokens"),
                         total_tokens |-> Num(u, "total_tokens")] ELSE e.usage
  BY <1>1, <1>2, Zenon DEF ProcessChat, ExtFields
<1>4. CASE Num(u, "total_tokens") > 0
  BY <1>1, <1>3, <1>4, Zenon DEF ChatCoherent
<1>5. CASE ~(Num(u, "total_tokens") > 0)
  BY <1>1, <1>3, <1>5, ZenonT(30) DEF ChatCoherent
<1> QED
  BY <1>4, <1>5, Zenon

LEMMA ProcessClaudeCoherent ==
    ASSUME NEW e, NEW v, DOMAIN e = ExtFields
    PROVE  DOMAIN ProcessClaude(e, v) = ExtFields /\ ClaudeCoherent(ProcessClaude(e, v))
<1>1. PICK f : f = ProcessClaude(e, v)
  OBVIOUS
<1>2. PICK p, c, k : f.acc = Usage(p, c, p + c, 0, k)
  BY <1>1 DEF ProcessClaude, ExtFields
<1>3. DOMAIN f = ExtFields
  BY <1>1, Zenon DEF ProcessClaude
<1> QED
  BY <1>1, <1>2, <1>3 DEF ClaudeCoherent, Usage

LEMMA ReadAtCoherent ==
    ASSUME NEW e, NEW i, Coherent(e)
    PROVE  Coherent(ReadAt(e, i))
<1>1. CASE i = 0 \/ stream.lines[i].kind # "json"
  BY <1>1 DEF ReadAt, ReadLine
<1>2. CASE i # 0 /\ stream.lines[i].kind = "json"
  <2>1. PICK v : v = stream.lines[i].json
    OBVIOUS
  <2>2. ReadAt(e, i) = ProcessSSE(stream.family, e, v)
    BY <1>2, <2>1, Zenon DEF ReadAt, ReadLine
  <2>3. CASE stream.family = "openai_chat"
    <3>1. ReadAt(e, i) = ProcessChat(e, v)
      BY <2>2, <2>3, Zenon DEF ProcessSSE
    <3> QED
      BY <2>3, <3>1, ProcessChatCoherent, Zenon DEF Coherent
  <2>4. CASE stream.family = "claude_messages"
    <3>1. ReadAt(e, i) = ProcessClaude(e, v)
      BY <2>2, <2>4, Zenon DEF ProcessSSE
    <3> QED
      BY <2>4, <3>1, ProcessClaudeCoherent, Zenon DEF Coherent
  <2>5. CASE stream.family \notin {"openai_chat", "claude_messages"}
    <3>1. ReadAt(e, i) \in {ProcessResponses(e, v), ProcessGemini(e, v),
                            ProcessImages(e, v), e}
      BY <2>2, <2>5, Zenon DEF ProcessSSE
    <3>2. /\ DOMAIN ProcessResponses(e, v) = DOMAIN e /\ DOMAIN ProcessGemini(e, v) = DOMAIN e
          /\ DOMAIN ProcessImages(e, v) = DOMAIN e
      BY DEF ProcessResponses, ProcessGemini, ProcessImages
    <3> QED
      BY <2>5, <3>1, <3>2, Zenon DEF Coherent
  <2> QED
    BY <2>3, <2>4, <2>5, Zenon
<1> QED
  BY <1>1, <1>2, Zenon

LEMMA ReadUpToCoherent ==
    ASSUME NEW j \in Nat
    PROVE  Coherent(ReadUpTo(j))
<1>1. PICK N : N = {m \in Nat : ~ Coherent(ReadUpTo(m))}
  BY Zenon
<1> SUFFICES ASSUME N # {} PROVE FALSE
  BY <1>1
<1>2. PICK m \in N : \A k \in N : m <= k
  BY <1>1, LeastNatural, Zenon
<1>3. m \in Nat /\ ~ Coherent(ReadUpTo(m))
  BY <1>1
<1>4. m # 0
  BY <1>3, NothingIsRead, FreshCoherent, Zenon
<1>5. PICK p \in Nat : m = p + 1
  <2>1. m - 1 \in Nat /\ m = (m - 1) + 1
    BY <1>3, <1>4
  <2> QED
    BY <2>1
<1>6. p \notin N
  BY <1>2, <1>5
<1>7. Coherent(ReadUpTo(p))
  BY <1>1, <1>6, Zenon
<1>8. ReadUpTo(m) = ReadAt(ReadUpTo(p), m)
  BY <1>5, ReadUpToIs, Zenon
<1> QED
  BY <1>3, <1>7, <1>8, ReadAtCoherent, ZenonT(30)

\* What is stored is what the extractor had when the stream ended.
StoredIs ==
    /\ phase # "stored" => trace.object = "none"
    /\ trace.object = "assembled" =>
           /\ trace.body # Empty
           /\ trace.body = AssembleSSE(stream.family, ext)
           /\ trace.usage = ext.acc /\ trace.model = ext.mdl

\* The assembled answers of the two families that put their own usage together.
AssembledUsageAgrees ==
    trace.object = "assembled" /\ stream.family \in {"openai_chat", "claude_messages"} =>
        UsageAgrees

LEMMA AssembledIs ==
    StreamIInv /\ StoredIs => AssembledUsageAgrees
<1> SUFFICES ASSUME StreamIInv, StoredIs, trace.object = "assembled",
                    stream.family \in {"openai_chat", "claude_messages"}
             PROVE  UsageAgrees
  BY DEF AssembledUsageAgrees
<1>1. PICK e : e = ext
  OBVIOUS
<1>2. Coherent(e)
  <2>1. PICK j \in Nat : j = taken \div 3
    BY DEF StreamIInv
  <2>2. e = ReadUpTo(j)
    BY <1>1, <2>1, Zenon DEF StreamIInv
  <2> QED
    BY <2>2, ReadUpToCoherent, Zenon
<1>3. PICK body : body = trace.body
  OBVIOUS
<1>4. /\ body # Empty /\ body = AssembleSSE(stream.family, e)
      /\ trace.usage = e.acc /\ trace.model = e.mdl
  BY <1>1, <1>3, ZenonT(30) DEF StoredIs
<1>5. PICK again : again = ExtractResponse(stream.family, body)
  BY Zenon
<1> SUFFICES /\ again[1].prompt = e.acc.prompt
             /\ again[1].completion = e.acc.completion
             /\ again[1].total = e.acc.total
             /\ again[2] = e.mdl
  BY <1>3, <1>4, <1>5, ZenonT(30) DEF UsageAgrees
<1>6. CASE stream.family = "openai_chat"
  <2>1. body = AssembleChat(e) /\ again = ExtractChat(body)
    BY <1>4, <1>5, <1>6, ZenonT(30) DEF AssembleSSE, ExtractResponse
  <2>2. Obj(body, "usage") = e.usage /\ Str(body, "model") = e.mdl
    <3>1. body = [id |-> e.id, model |-> e.mdl, role |-> e.role, content |-> e.parts,
                  tool_calls |-> e.tools, finish_reason |-> e.finish, usage |-> e.usage]
      BY <1>4, <2>1, Zenon DEF AssembleChat
    <3>2. /\ "usage" \in DOMAIN body /\ body["usage"] = e.usage
          /\ "model" \in DOMAIN body /\ body["model"] = e.mdl
      BY <3>1
    <3> QED
      BY <3>2 DEF Obj, Str, Get
  <2>3. again[1] = ChatUsage(e.usage) /\ again[2] = e.mdl
    BY <2>1, <2>2, Zenon DEF ExtractChat
  <2>4. CASE e.usage = Empty /\ e.acc = NoUsage
    <3>1. /\ Num(e.usage, "prompt_tokens") = 0 /\ Num(e.usage, "completion_tokens") = 0
          /\ Num(e.usage, "total_tokens") = 0
      BY <2>4 DEF Num, Get, Empty
    <3> QED
      BY <2>3, <2>4, <3>1 DEF ChatUsage, Usage, NoUsage
  <2>5. ASSUME NEW u, e.acc = ChatUsage(u),
               e.usage = [prompt_tokens |-> Num(u, "prompt_tokens"),
                          completion_tokens |-> Num(u, "completion_tokens"),
                          total_tokens |-> Num(u, "total_tokens")]
        PROVE  /\ again[1].prompt = e.acc.prompt
               /\ again[1].completion = e.acc.completion
               /\ again[1].total = e.acc.total
    <3>1. PICK p, c, t : /\ p = Num(u, "prompt_tokens") /\ c = Num(u, "completion_tokens")
                         /\ t = Num(u, "total_tokens")
      BY Zenon
    <3>2. e.acc.prompt = p /\ e.acc.completion = c /\ e.acc.total = t
      BY <2>5, <3>1 DEF ChatUsage, Usage
    <3>3. e.usage = [prompt_tokens |-> p, completion_tokens |-> c, total_tokens |-> t]
      BY <2>5, <3>1, Zenon
    <3>4. /\ Num(e.usage, "prompt_tokens") = p /\ Num(e.usage, "completion_tokens") = c
          /\ Num(e.usage, "total_tokens") = t
      BY <3>3 DEF Num, Get
    <3> QED
      BY <2>3, <3>2, <3>4 DEF ChatUsage, Usage
  <2> QED
    BY <1>2, <1>6, <2>3, <2>4, <2>5, ZenonT(30) DEF Coherent, ChatCoherent
<1>7. CASE stream.family = "claude_messages"
  <2>1. body = AssembleClaude(e) /\ again = ExtractClaude(body)
    BY <1>4, <1>5, <1>7, Zenon DEF AssembleSSE, ExtractResponse
  <2>2. PICK u : u = [input_tokens |-> e.acc.prompt, output_tokens |-> e.acc.completion]
    BY Zenon
  <2>3. Obj(body, "usage") = u /\ Str(body, "model") = e.mdl
    <3>1. body = [id |-> e.id, model |-> e.mdl, content |-> e.blocks,
                  stop_reason |-> e.finish, usage |-> u]
      BY <1>4, <2>1, <2>2, Zenon DEF AssembleClaude
    <3>2. /\ "usage" \in DOMAIN body /\ body["usage"] = u
          /\ "model" \in DOMAIN body /\ body["model"] = e.mdl
      BY <3>1, Zenon
    <3> QED
      BY <3>2 DEF Obj, Str, Get
  <2>4. Num(u, "input_tokens") = e.acc.prompt /\ Num(u, "output_tokens") = e.acc.completion
    BY <2>2, Zenon DEF Num, Get
  <2>5. e.acc.total = e.acc.prompt + e.acc.completion
    BY <1>2, <1>7, Zenon DEF Coherent, ClaudeCoherent
  <2> QED
    BY <2>1, <2>3, <2>4, <2>5, ZenonT(30) DEF ExtractClaude, Usage
<1> QED
  BY <1>6, <1>7, Zenon

LEMMA StoredInit == StreamInit => StoredIs
<1>1. StreamInit => trace = NoTrace
  BY Zenon DEF StreamInit
<1>2. NoTrace.object = "none"
  BY Zenon DEF NoTrace
<1> QED
  BY <1>1, <1>2, Zenon DEF StoredIs

LEMMA StoredNext == StoredIs /\ [StreamNext]_streamVars => StoredIs'
<1> SUFFICES ASSUME StoredIs, [StreamNext]_streamVars PROVE StoredIs'
  OBVIOUS
<1>1. ASSUME phase # "stored", phase' # "stored", trace' = trace PROVE StoredIs'
  BY <1>1 DEF StoredIs
<1>2. ASSUME NEW s \in Streams, Open(s) PROVE StoredIs'
  BY <1>1, <1>2, Zenon DEF Open
<1>3. ASSUME NEW to \in 0 .. Size, Chunk(to) PROVE StoredIs'
  BY <1>1, <1>3, Zenon DEF Chunk
<1>4. ASSUME NEW to \in 0 .. Size, ClientGone(to) PROVE StoredIs'
  BY <1>1, <1>4, Zenon DEF ClientGone
<1>5. CASE UpstreamEnds
  BY <1>1, <1>5, Zenon DEF UpstreamEnds
<1>6. ASSUME NEW ok \in BOOLEAN, Store(ok) PROVE StoredIs'
  <2>1. PICK body : body = AssembleSSE(stream.family, ext)
    OBVIOUS
  <2>2. /\ phase' = "stored" /\ stream' = stream /\ ext' = ext
        /\ trace' = [usage |-> ext.acc, model |-> ext.mdl, size |-> delivered,
                     object |-> Kept(body, ok), body |-> body]
    BY <1>6, <2>1, Zenon DEF Store
  <2>3. /\ trace'.usage = ext.acc /\ trace'.model = ext.mdl /\ trace'.body = body
        /\ trace'.object = Kept(body, ok)
    BY <2>2, Zenon
  <2>4. trace'.object = "assembled" => body # Empty
    BY <2>3, Zenon DEF Kept
  <2>5. AssembleSSE(stream.family, ext)' = body
    BY <2>1, <2>2, Zenon
  <2> QED
    BY <2>2, <2>3, <2>4, <2>5, ZenonT(30) DEF StoredIs
<1>7. CASE Panic
  BY <1>1, <1>7, Zenon DEF Panic
<1>8. CASE UNCHANGED streamVars
  <2>1. stream' = stream /\ ext' = ext /\ trace' = trace /\ phase' = phase
    BY <1>8, Zenon DEF streamVars
  <2>2. AssembleSSE(stream.family, ext)' = AssembleSSE(stream.family, ext)
    BY <2>1
  <2> QED
    BY <2>1, <2>2, Zenon DEF StoredIs
<1> QED
  BY <1>2, <1>3, <1>4, <1>5, <1>6, <1>7, <1>8, SMTT(30) DEF StreamNext

\* assembleSSE: of every stream of the chat and the Claude families, also one that broke
\* off, the assembled answer that replaces it as evidence says the tokens and the model of
\* the trace's row.
THEOREM AssembledAnswersCountAlike == StreamSpec => []AssembledUsageAgrees
<1> QED
  BY AssembledIs, StreamInitIInv, StreamNextIInv, StoredInit, StoredNext, PTL DEF StreamSpec
=============================================================================
