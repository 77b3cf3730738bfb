------------------------- MODULE UsageTrend_proofs --------------------------
(***************************************************************************)
(* How the sums of a usage page agree, for any number of models, days and  *)
(* tokens.                                                                 *)
(***************************************************************************)
EXTENDS UsageTrend, FiniteSetTheorems, WellFoundedInduction, TLAPS
-----------------------------------------------------------------------------
(* Sums: what MapThenSumSet computes *)

\* A family of finite sets that is not empty has a member with no smaller one in it.
LEMMA SmallestSet ==
    ASSUME NEW U, IsFiniteSet(U), NEW B, B \subseteq SUBSET U, B # {}
    PROVE  \E s \in B : IsFiniteSet(s) /\ \A t \in B : t \subseteq s => t = s
<1>1. B \subseteq FiniteSubsetsOf(U)
  BY FS_Subset DEF FiniteSubsetsOf
<1>2. PICK s \in B : \A t \in B : <<t, s>> \notin StrictSubsetOrdering(U)
  BY <1>1, FS_StrictSubsetOrderingWellFounded, WFMin
<1>3. ASSUME NEW t \in B, t \subseteq s PROVE t = s
  BY <1>2, <1>3, Zenon DEF StrictSubsetOrdering
<1> QED
  BY <1>3, FS_Subset

\* The element a fold takes first.
Chosen(s) == CHOOSE x \in s : TRUE

\* g has the sums of f over the subsets of S, as the fold makes them.
Sums(S, f, g) ==
    g = [s \in SUBSET S |-> IF s = {} THEN 0 ELSE f[Chosen(s)] + g[s \ {Chosen(s)}]]

LEMMA TotalIs ==
    ASSUME NEW S, NEW f
    PROVE  Total(S, f) = (CHOOSE g : Sums(S, f, g))[S]
BY DEF Total, MapThenSumSet, MapThenFoldSet, Sums, Chosen

LEMMA ChosenIsIn ==
    ASSUME NEW s, s # {}
    PROVE  Chosen(s) \in s
BY DEF Chosen

LEMMA SumsOf ==
    ASSUME NEW S, NEW f, NEW g, Sums(S, f, g)
    PROVE  /\ g[{}] = 0
           /\ \A s \in SUBSET S : s # {} => g[s] = f[Chosen(s)] + g[s \ {Chosen(s)}]
<1>1. g[{}] = 0
  BY DEF Sums
<1>2. ASSUME NEW s \in SUBSET S, s # {} PROVE g[s] = f[Chosen(s)] + g[s \ {Chosen(s)}]
  BY <1>2, Zenon DEF Sums
<1> QED
  BY <1>1, <1>2

LEMMA SumsAgree ==
    ASSUME NEW S, IsFiniteSet(S), NEW T, NEW f, NEW g, NEW h, Sums(S, f, g), Sums(T, f, h)
    PROVE  \A s \in SUBSET (S \cap T) : g[s] = h[s]
<1>1. PICK B : B = {s \in SUBSET (S \cap T) : g[s] # h[s]}
  BY Zenon
<1> SUFFICES ASSUME B # {} PROVE FALSE
  BY <1>1
<1>2. PICK s \in B : \A t \in B : t \subseteq s => t = s
  BY <1>1, SmallestSet
<1>3. s \in SUBSET S /\ s \in SUBSET T /\ g[s] # h[s]
  BY <1>1
<1>4. s # {}
  BY <1>3, SumsOf, Zenon
<1>5. PICK x \in s : x = Chosen(s)
  BY <1>4, ChosenIsIn
<1>6. g[s] = f[x] + g[s \ {x}] /\ h[s] = f[x] + h[s \ {x}]
  BY <1>3, <1>4, <1>5, SumsOf
<1>7. s \ {x} \notin B
  BY <1>2, <1>5
<1>8. g[s \ {x}] = h[s \ {x}]
  BY <1>1, <1>3, <1>7
<1> QED
  BY <1>3, <1>6, <1>8

LEMMA SumsExist ==
    ASSUME NEW S, IsFiniteSet(S), NEW f
    PROVE  \E g : Sums(S, f, g)
<1>1. PICK B : B = {s \in SUBSET S : ~ \E g : Sums(s, f, g)}
  BY Zenon
<1> SUFFICES ASSUME B # {} PROVE FALSE
  BY <1>1
<1>2. B \subseteq SUBSET S
  BY <1>1
<1>3. PICK s \in B : IsFiniteSet(s) /\ \A t \in B : t \subseteq s => t = s
  BY <1>2, SmallestSet
<1>4. s \in SUBSET S /\ ~ \E g : Sums(s, f, g)
  BY <1>1
<1>5. ASSUME NEW t \in SUBSET s, t # s
      PROVE  IsFiniteSet(t) /\ \E h : Sums(t, f, h) /\ Total(t, f) = h[t]
  <2>1. \E h : Sums(t, f, h)
    BY <1>1, <1>3, <1>4, <1>5
  <2>2. PICK h : h = CHOOSE k : Sums(t, f, k)
    OBVIOUS
  <2>3. Sums(t, f, h)
    BY <2>1, <2>2
  <2>4. Total(t, f) = h[t]
    BY <2>2, TotalIs
  <2>5. IsFiniteSet(t)
    BY <1>3, FS_Subset
  <2> QED
    BY <2>3, <2>4, <2>5
<1>6. PICK g : g = [t \in SUBSET s |->
                       IF t = {} THEN 0 ELSE f[Chosen(t)] + Total(t \ {Chosen(t)}, f)]
  BY Zenon
<1>7. ASSUME NEW t \in SUBSET s, t # s PROVE g[t] = Total(t, f)
  <2>1. PICK h : Sums(t, f, h) /\ Total(t, f) = h[t]
    BY <1>5, <1>7
  <2>2. CASE t = {}
    BY <1>6, <2>1, <2>2, SumsOf
  <2>3. CASE t # {}
    <3>1. PICK x \in t : x = Chosen(t)
      BY <2>3, ChosenIsIn
    <3>2. h[t] = f[x] + h[t \ {x}]
      BY <2>1, <2>3, <3>1, SumsOf
    <3>3. PICK k : Sums(t \ {x}, f, k) /\ Total(t \ {x}, f) = k[t \ {x}]
      <4>1. t \ {x} \in SUBSET s /\ t \ {x} # s
        BY <1>7, <3>1
      <4> QED
        BY <1>5, <4>1
    <3>4. k[t \ {x}] = h[t \ {x}]
      <4>1. IsFiniteSet(t) /\ t \ {x} \in SUBSET (t \cap (t \ {x}))
        BY <1>5, <1>7
      <4> QED
        BY <2>1, <3>3, <4>1, SumsAgree
    <3>5. g[t] = f[x] + Total(t \ {x}, f)
      BY <1>6, <2>3, <3>1
    <3> QED
      BY <2>1, <3>2, <3>3, <3>4, <3>5
  <2> QED
    BY <2>2, <2>3
<1>8. Sums(s, f, g)
  <2>1. ASSUME NEW t \in SUBSET s, t # {}
        PROVE  Total(t \ {Chosen(t)}, f) = g[t \ {Chosen(t)}]
    <3>1. Chosen(t) \in t
      BY <2>1, ChosenIsIn
    <3>2. t \ {Chosen(t)} \in SUBSET s /\ t \ {Chosen(t)} # s
      BY <3>1
    <3> QED
      BY <1>7, <3>2
  <2>2. g = [t \in SUBSET s |->
                IF t = {} THEN 0 ELSE f[Chosen(t)] + g[t \ {Chosen(t)}]]
    BY <1>6, <2>1, Zenon
  <2> QED
    BY <2>2, Zenon DEF Sums
<1> QED
  BY <1>4, <1>8

LEMMA TotalStep ==
    ASSUME NEW S, IsFiniteSet(S), NEW f
    PROVE  /\ S = {} => Total(S, f) = 0
           /\ S # {} => Total(S, f) = f[Chosen(S)] + Total(S \ {Chosen(S)}, f)
<1>1. PICK g : g = CHOOSE h : Sums(S, f, h)
  OBVIOUS
<1>2. Sums(S, f, g) /\ Total(S, f) = g[S]
  BY <1>1, SumsExist, TotalIs
<1>3. CASE S = {}
  BY <1>2, <1>3, SumsOf
<1>4. CASE S # {}
  <2>1. PICK T : T = S \ {Chosen(S)}
    BY Zenon
  <2>2. g[S] = f[Chosen(S)] + g[T]
    BY <1>2, <1>4, <2>1, SumsOf
  <2>3. IsFiniteSet(T)
    BY <2>1, FS_Subset
  <2>4. PICK h : h = CHOOSE k : Sums(T, f, k)
    OBVIOUS
  <2>5. Sums(T, f, h) /\ Total(T, f) = h[T]
    BY <2>3, <2>4, SumsExist, TotalIs
  <2>6. T \in SUBSET (S \cap T)
    BY <2>1
  <2>7. g[T] = h[T]
    BY <1>2, <2>5, <2>6, SumsAgree
  <2> QED
    BY <1>2, <1>4, <2>1, <2>2, <2>5, <2>7
<1> QED
  BY <1>3, <1>4

LEMMA TotalIsNat ==
    ASSUME NEW S, IsFiniteSet(S), NEW f, \A x \in S : f[x] \in Nat
    PROVE  Total(S, f) \in Nat
<1>1. PICK B : B = {s \in SUBSET S : Total(s, f) \notin Nat}
  BY Zenon
<1> SUFFICES ASSUME B # {} PROVE FALSE
  BY <1>1
<1>2. B \subseteq SUBSET S
  BY <1>1
<1>3. PICK s \in B : IsFiniteSet(s) /\ \A t \in B : t \subseteq s => t = s
  BY <1>2, SmallestSet
<1>4. s # {}
  <2>1. s = {} => Total(s, f) = 0
    BY <1>3, TotalStep
  <2> QED
    BY <1>1, <2>1
<1>5. PICK x \in s : x = Chosen(s)
  BY <1>4, ChosenIsIn
<1>6. Total(s, f) = f[x] + Total(s \ {x}, f)
  BY <1>3, <1>4, <1>5, TotalStep, Zenon
<1>7. s \ {x} \notin B /\ s \ {x} \in SUBSET S /\ x \in S
  BY <1>2, <1>3
<1>8. Total(s \ {x}, f) \in Nat
  BY <1>1, <1>7
<1>9. Total(s, f) \in Nat
  BY <1>6, <1>7, <1>8
<1> QED
  BY <1>1, <1>9

\* A sum is that of any element and of the rest: the order of the fold does not matter.
LEMMA TotalRemove ==
    ASSUME NEW S, IsFiniteSet(S), NEW f, \A x \in S : f[x] \in Nat, NEW x \in S
    PROVE  Total(S, f) = f[x] + Total(S \ {x}, f)
<1>1. PICK B : B = {s \in SUBSET S : \E y \in s : Total(s, f) # f[y] + Total(s \ {y}, f)}
  BY Zenon
<1> SUFFICES ASSUME B # {} PROVE FALSE
  BY <1>1, Zenon
<1>2. B \subseteq SUBSET S
  BY <1>1
<1>3. PICK s \in B : IsFiniteSet(s) /\ \A t \in B : t \subseteq s => t = s
  BY <1>2, SmallestSet
<1>4. PICK y \in s : Total(s, f) # f[y] + Total(s \ {y}, f)
  BY <1>1
<1>5. PICK c \in s : c = Chosen(s)
  BY <1>4, ChosenIsIn
<1>6. Total(s, f) = f[c] + Total(s \ {c}, f)
  BY <1>3, <1>4, <1>5, TotalStep, Zenon
<1>7. y # c
  BY <1>4, <1>6
<1>8. s \ {c} \in SUBSET S /\ s \ {c} \notin B /\ s \ {y} \in SUBSET S /\ s \ {y} \notin B
  BY <1>2, <1>3, <1>4, <1>5
<1>9. PICK rest : rest = (s \ {c}) \ {y}
  BY Zenon
<1>10. rest = (s \ {y}) \ {c}
  BY <1>9
<1>11. Total(s \ {c}, f) = f[y] + Total(rest, f)
  BY <1>1, <1>4, <1>7, <1>8, <1>9, Zenon
<1>12. Total(s \ {y}, f) = f[c] + Total(rest, f)
  BY <1>1, <1>5, <1>7, <1>8, <1>10, Zenon
<1>13. Total(rest, f) \in Nat /\ f[c] \in Nat /\ f[y] \in Nat
  <2>1. IsFiniteSet(rest) /\ rest \subseteq S /\ c \in S /\ y \in S
    BY <1>2, <1>3, <1>9, FS_Subset
  <2> QED
    BY <2>1, TotalIsNat
<1> QED
  BY <1>4, <1>6, <1>11, <1>12, <1>13

LEMMA TotalOfOne ==
    ASSUME NEW x, NEW f, f[x] \in Nat
    PROVE  Total({x}, f) = f[x]
<1>1. IsFiniteSet({x}) /\ IsFiniteSet({}) /\ {x} \ {x} = {}
  BY FS_Singleton, FS_EmptySet
<1>2. Total({}, f) = 0
  BY <1>1, TotalStep, Zenon
<1>3. Total({x}, f) = f[x] + Total({x} \ {x}, f)
  BY <1>1, TotalRemove
<1> QED
  BY <1>1, <1>2, <1>3

\* Equal summands have equal sums.
LEMMA TotalSame ==
    ASSUME NEW S, IsFiniteSet(S), NEW f, NEW h, \A x \in S : f[x] = h[x]
    PROVE  Total(S, f) = Total(S, h)
<1>1. PICK B : B = {s \in SUBSET S : Total(s, f) # Total(s, h)}
  BY Zenon
<1> SUFFICES ASSUME B # {} PROVE FALSE
  BY <1>1
<1>2. B \subseteq SUBSET S
  BY <1>1
<1>3. PICK s \in B : IsFiniteSet(s) /\ \A t \in B : t \subseteq s => t = s
  BY <1>2, SmallestSet
<1>4. s # {}
  BY <1>1, <1>3, TotalStep
<1>5. PICK x \in s : x = Chosen(s)
  BY <1>4, ChosenIsIn
<1>6. Total(s, f) = f[x] + Total(s \ {x}, f) /\ Total(s, h) = h[x] + Total(s \ {x}, h)
  BY <1>3, <1>4, <1>5, TotalStep, Zenon
<1>7. s \ {x} \notin B /\ s \ {x} \in SUBSET S /\ x \in S
  BY <1>2, <1>3
<1>8. Total(s \ {x}, f) = Total(s \ {x}, h) /\ f[x] = h[x]
  BY <1>1, <1>7
<1> QED
  BY <1>1, <1>6, <1>8

\* Summands of nothing may be left out.
LEMMA TotalWithoutZeros ==
    ASSUME NEW S, IsFiniteSet(S), NEW f, \A x \in S : f[x] \in Nat,
           NEW T \in SUBSET S, \A x \in S \ T : f[x] = 0
    PROVE  Total(S, f) = Total(T, f)
<1>1. PICK B : B = {s \in SUBSET S : T \subseteq s /\ Total(s, f) # Total(T, f)}
  BY Zenon
<1> SUFFICES ASSUME B # {} PROVE FALSE
  BY <1>1
<1>2. B \subseteq SUBSET S
  BY <1>1
<1>3. PICK s \in B : IsFiniteSet(s) /\ \A t \in B : t \subseteq s => t = s
  BY <1>2, SmallestSet
<1>4. PICK x : x \in s \ T
  <2>1. T \subseteq s /\ s # T
    BY <1>1
  <2> QED
    BY <2>1
<1>5. Total(s, f) = f[x] + Total(s \ {x}, f)
  <2>1. \A y \in s : f[y] \in Nat
    BY <1>2
  <2> QED
    BY <1>3, <1>4, <2>1, TotalRemove
<1>6. s \ {x} \notin B /\ s \ {x} \in SUBSET S /\ T \subseteq s \ {x} /\ x \in S \ T
  BY <1>1, <1>3, <1>4
<1>7. Total(s \ {x}, f) = Total(T, f) /\ f[x] = 0
  BY <1>1, <1>6
<1>8. Total(T, f) \in Nat
  BY FS_Subset, TotalIsNat, Zenon
<1> QED
  BY <1>1, <1>5, <1>7, <1>8

\* A part has no more than the whole.
LEMMA TotalOfPart ==
    ASSUME NEW S, IsFiniteSet(S), NEW f, \A x \in S : f[x] \in Nat, NEW T \in SUBSET S
    PROVE  Total(T, f) <= Total(S, f)
<1>1. PICK B : B = {s \in SUBSET S : T \subseteq s /\ ~(Total(T, f) <= Total(s, f))}
  BY Zenon
<1>2. Total(T, f) \in Nat
  BY FS_Subset, TotalIsNat, Zenon
<1> SUFFICES ASSUME B # {} PROVE FALSE
  BY <1>1
<1>3. B \subseteq SUBSET S
  BY <1>1
<1>4. PICK s \in B : IsFiniteSet(s) /\ \A t \in B : t \subseteq s => t = s
  BY <1>3, SmallestSet
<1>5. PICK x : x \in s \ T
  <2>1. T \subseteq s /\ s # T
    BY <1>1, <1>2
  <2> QED
    BY <2>1
<1>6. (\A y \in s : f[y] \in Nat) /\ IsFiniteSet(s \ {x})
  BY <1>3, <1>4, FS_Subset
<1>7. Total(s, f) = f[x] + Total(s \ {x}, f) /\ Total(s \ {x}, f) \in Nat
  BY <1>4, <1>5, <1>6, TotalRemove, TotalIsNat
<1>8. s \ {x} \notin B /\ s \ {x} \in SUBSET S /\ T \subseteq s \ {x}
  BY <1>1, <1>4, <1>5
<1>9. Total(T, f) <= Total(s \ {x}, f)
  BY <1>1, <1>8
<1>10. f[x] \in Nat
  BY <1>5, <1>6
<1> QED
  BY <1>1, <1>2, <1>7, <1>9, <1>10

LEMMA SumOfIs ==
    ASSUME NEW f
    PROVE  SumOf(f) = Total(DOMAIN f, f)
BY DEF SumOf, Total

\* The groups of S by p, and their sums.
Group(S, p, t) == {x \in S : p[x] = t}
GroupSums(S, f, T, p) == [t \in T |-> Total(Group(S, p, t), f)]

\* GROUP BY: the sums of the groups add up to the sum of all.
LEMMA TotalOfGroups ==
    ASSUME NEW S, IsFiniteSet(S), NEW f, \A x \in S : f[x] \in Nat,
           NEW T, IsFiniteSet(T), NEW p, \A x \in S : p[x] \in T
    PROVE  Total(T, GroupSums(S, f, T, p)) = Total(S, f)
<1> DEFINE Of(s, t) == {x \in s : p[x] = t}
           G(s) == GroupSums(s, f, T, p)
<1>1. PICK B : B = {s \in SUBSET S : Total(T, G(s)) # Total(s, f)}
  BY Zenon
<1> SUFFICES ASSUME B # {} PROVE FALSE
  BY <1>1
<1>2. B \subseteq SUBSET S
  BY <1>1
<1>3. PICK s \in B : IsFiniteSet(s) /\ \A t \in B : t \subseteq s => t = s
  BY <1>2, SmallestSet
<1>4. s \in SUBSET S /\ Total(T, G(s)) # Total(s, f)
  BY <1>1
<1>5. ASSUME NEW r \in SUBSET S, NEW t \in T
      PROVE  /\ IsFiniteSet(Of(r, t))
             /\ \A x \in Of(r, t) : f[x] \in Nat
             /\ G(r)[t] = Total(Of(r, t), f)
             /\ G(r)[t] \in Nat
  <2>1. Of(r, t) \in SUBSET S
    OBVIOUS
  <2>2. IsFiniteSet(Of(r, t)) /\ \A x \in Of(r, t) : f[x] \in Nat
    BY <2>1, FS_Subset
  <2>3. Total(Of(r, t), f) \in Nat
    BY <2>2, TotalIsNat
  <2>4. G(r)[t] = Total(Of(r, t), f)
    BY DEF GroupSums, Group
  <2> QED
    BY <2>2, <2>3, <2>4
<1> HIDE DEF G
<1>6. CASE s = {}
  <2>1. \A t \in T : G(s)[t] = 0
    <3> SUFFICES ASSUME NEW t \in T PROVE G(s)[t] = 0
      OBVIOUS
    <3>1. Of(s, t) = {}
      BY <1>6
    <3> QED
      BY <1>4, <1>5, <3>1, TotalStep, ZenonT(30)
  <2>2. Total(T, G(s)) = Total({}, G(s))
    BY <1>4, <1>5, <2>1, TotalWithoutZeros
  <2>3. Total({}, G(s)) = 0 /\ Total({}, f) = 0
    BY FS_EmptySet, TotalStep, Zenon
  <2> QED
    BY <1>4, <1>6, <2>2, <2>3
<1>7. CASE s # {}
  <2>1. PICK x : x \in s
    BY <1>7
  <2>2. PICK r : r = s \ {x}
    BY Zenon
  <2>3. r \in SUBSET S /\ Total(T, G(r)) = Total(r, f)
    <3>1. r \in SUBSET S /\ r \notin B
      BY <1>3, <1>4, <2>1, <2>2
    <3> QED
      BY <1>1, <3>1
  <2>4. PICK u \in T : u = p[x]
    BY <1>4, <2>1
  <2>5. G(s)[u] = f[x] + G(r)[u]
    <3>1. x \in Of(s, u) /\ Of(s, u) \ {x} = Of(r, u)
      BY <2>1, <2>2, <2>4
    <3>2. Total(Of(s, u), f) = f[x] + Total(Of(s, u) \ {x}, f)
      BY <1>4, <1>5, <3>1, TotalRemove, ZenonT(30)
    <3> QED
      BY <1>4, <1>5, <2>3, <3>1, <3>2, Zenon
  <2>6. \A t \in T \ {u} : G(s)[t] = G(r)[t]
    <3> SUFFICES ASSUME NEW t \in T \ {u} PROVE G(s)[t] = G(r)[t]
      OBVIOUS
    <3>1. Of(s, t) = Of(r, t)
      BY <2>2, <2>4
    <3> QED
      BY <1>4, <1>5, <2>3, <3>1, ZenonT(30)
  <2>7. Total(T \ {u}, G(s)) = Total(T \ {u}, G(r))
    BY <2>6, FS_Subset, TotalSame
  <2>8. /\ Total(T, G(s)) = G(s)[u] + Total(T \ {u}, G(s))
        /\ Total(T, G(r)) = G(r)[u] + Total(T \ {u}, G(r))
    <3>1. \A t \in T : G(s)[t] \in Nat /\ G(r)[t] \in Nat
      BY <1>4, <1>5, <2>3, Zenon
    <3>2. Total(T, G(s)) = G(s)[u] + Total(T \ {u}, G(s))
      BY <3>1, TotalRemove
    <3>3. Total(T, G(r)) = G(r)[u] + Total(T \ {u}, G(r))
      BY <3>1, TotalRemove
    <3> QED
      BY <3>2, <3>3
  <2>9. Total(s, f) = f[x] + Total(r, f)
    BY <1>3, <1>4, <2>1, <2>2, TotalRemove
  <2>10. /\ f[x] \in Nat /\ G(r)[u] \in Nat
         /\ Total(T \ {u}, G(r)) \in Nat
    <3>1. IsFiniteSet(T \ {u}) /\ \A t \in T \ {u} : G(r)[t] \in Nat
      BY <1>5, <2>3, FS_Subset, Zenon
    <3> QED
      BY <1>4, <1>5, <2>1, <2>3, <3>1, TotalIsNat, Zenon
  <2>11. \A a, b, c \in Nat : (a + b) + c = a + (b + c)
    OBVIOUS
  <2>12. Total(T, G(s)) = f[x] + (G(r)[u] + Total(T \ {u}, G(r)))
    BY <2>5, <2>7, <2>8, <2>10, <2>11
  <2>13. Total(T, G(s)) = Total(s, f)
    BY <2>3, <2>8, <2>9, <2>12, Zenon
  <2> QED
    BY <1>4, <2>13
<1> QED
  BY <1>6, <1>7
-----------------------------------------------------------------------------
(* Points and rows *)

\* The times of D that are at a place of pos, and the places of the points that count.
Placed(D, n, pos) == {t \in D : \E i \in 1 .. n : pos[i] = t}
Positive(points, n) == {i \in 1 .. n : points[i] > 0}

\* The sums raw of the times D are laid out as n points, at the places pos.
Laid(D, raw, n, pos, points) ==
    /\ IsFiniteSet(D) /\ \A t \in D : raw[t] \in Nat \ {0}
    /\ n \in Nat /\ \A i, j \in 1 .. n : pos[i] = pos[j] => i = j
    /\ \A i \in 1 .. n : points[i] = IF pos[i] \in D THEN raw[pos[i]] ELSE 0

\* The points of a trend are the sums by bucket, each at its place, and nothing for the
\* other places.
LEMMA PointsOf ==
    ASSUME NEW D, NEW raw, NEW n, NEW pos, NEW points, Laid(D, raw, n, pos, points),
           NEW In, In = Placed(D, n, pos)
    PROVE  /\ IsFiniteSet(In) /\ Total(In, raw) \in Nat /\ Cardinality(In) \in Nat
           /\ Total(1 .. n, points) = Total(In, raw)
           /\ Cardinality(Positive(points, n)) = Cardinality(In)
<1> USE DEF Laid
<1>0. PICK P : P = Positive(points, n)
  OBVIOUS
<1>1. In \in SUBSET D /\ IsFiniteSet(In) /\ IsFiniteSet(1 .. n)
  <2>1. In \in SUBSET D
    BY DEF Placed
  <2> QED
    BY <2>1, FS_Subset, FS_Interval
<1>2. Total(In, raw) \in Nat /\ Cardinality(In) \in Nat
  BY <1>1, TotalIsNat, FS_CardinalityType
<1>3. PICK p : p = [t \in In |-> CHOOSE i \in 1 .. n : pos[i] = t]
  BY Zenon
<1>4. \A t \in In : p[t] \in 1 .. n /\ pos[p[t]] = t
  BY <1>3 DEF Placed
<1>5. \A i \in 1 .. n : pos[i] \in D => pos[i] \in In /\ p[pos[i]] = i
  BY <1>4 DEF Placed
<1>6. Total(1 .. n, points) = Total(In, raw)
  <2>1. PICK groups : groups = GroupSums(In, raw, 1 .. n, p)
    OBVIOUS
  <2>2. Total(1 .. n, groups) = Total(In, raw)
    BY <1>1, <1>4, <2>1, TotalOfGroups
  <2>3. ASSUME NEW i \in 1 .. n PROVE points[i] = groups[i]
    <3>1. CASE pos[i] \in D
      <4>1. Group(In, p, i) = {pos[i]}
        BY <1>4, <1>5, <3>1 DEF Group
      <4>2. Total({pos[i]}, raw) = raw[pos[i]]
        BY <3>1, TotalOfOne
      <4> QED
        BY <2>1, <3>1, <4>1, <4>2, Zenon DEF GroupSums
    <3>2. CASE pos[i] \notin D
      <4>1. Group(In, p, i) = {}
        BY <1>1, <1>4, <3>2 DEF Group
      <4>2. Total({}, raw) = 0
        BY FS_EmptySet, TotalStep, Zenon
      <4> QED
        BY <2>1, <3>2, <4>1, <4>2, Zenon DEF GroupSums
    <3> QED
      BY <3>1, <3>2
  <2> QED
    BY <1>1, <2>2, <2>3, TotalSame
<1>7. Cardinality(P) = Cardinality(In)
  <2>1. \A i : i \in P <=> i \in 1 .. n /\ pos[i] \in D
    BY <1>0 DEF Positive
  <2>2. p \in Bijection(In, P)
    <3>1. p \in [In -> P]
      BY <1>1, <1>3, <1>4, <2>1
    <3>2. \A t, u \in In : p[t] = p[u] => t = u
      BY <1>4
    <3>3. \A i \in P : \E t \in In : p[t] = i
      BY <1>5, <2>1
    <3> QED
      BY <3>1, <3>2, <3>3 DEF Bijection, Injection, IsInjective, Surjection
  <2> QED
    BY <1>1, <2>2, FS_Bijection DEF ExistsBijection
<1> QED
  BY <1>0, <1>1, <1>2, <1>6, <1>7

LEMMA StepsAreNat ==
    /\ Hour \in Nat \ {0} /\ HoursADay \in Nat \ {0}
    /\ Week \in Nat \ {0} /\ Month \in Nat \ {0} /\ Week <= Month
    /\ LastTime \in Nat
    /\ \A size \in Sizes : UsageBucketStep(size) \in Nat \ {0}
<1>1. /\ Hour \in Nat \ {0} /\ HoursADay \in Nat \ {0}
      /\ Week \in Nat \ {0} /\ Month \in Nat \ {0} /\ Week <= Month
      /\ LastTime \in Nat
  BY TrendAssumption
<1>2. Hour * HoursADay \in Nat \ {0}
  BY <1>1
<1> QED
  BY <1>1, <1>2 DEF UsageBucketStep

LEMMA RowKeysFinite ==
    IsFiniteSet(RowKeys)
<1>1. IsFiniteSet(Sizes)
  <2>1. Sizes = {"hour"} \cup {"day"}
    BY DEF Sizes
  <2> QED
    BY <2>1, FS_Singleton, FS_Union, Zenon
<1>2. IsFiniteSet(0 .. LastTime) /\ IsFiniteSet(Models) /\ IsFiniteSet(Usernames)
  BY StepsAreNat, TrendAssumption, FS_Interval
<1>3. PICK U : U = ((Sizes \X (0 .. LastTime)) \X Models) \X Usernames
  BY Zenon
<1>4. IsFiniteSet(U)
  BY <1>1, <1>2, <1>3, FS_Product, Zenon
<1>5. PICK f : f = [k \in RowKeys |-> <<<<<<k[1], k[2]>>, k[3]>>, k[4]>>]
  BY Zenon
<1>6. \A k \in RowKeys : k = <<k[1], k[2], k[3], k[4]>> /\ f[k] \in U
  BY <1>3, <1>5 DEF RowKeys
<1>7. f \in [RowKeys -> U]
  BY <1>5, <1>6
<1>8. \A k, l \in RowKeys : f[k] = f[l] => k = l
  BY <1>5, <1>6, Zenon
<1>9. f \in Injection(RowKeys, U)
  BY <1>7, <1>8 DEF Injection, IsInjective
<1> QED
  BY <1>4, <1>9, FS_Injection

\* A row's bucket starts at a multiple of its size.
LEMMA RowStarts ==
    ASSUME NEW k \in RowKeys
    PROVE  /\ k[1] \in Sizes /\ k[2] \in Nat /\ k[3] \in Models
           /\ \E q \in Int : k[2] = q * UsageBucketStep(k[1])
<1>1. k[1] \in Sizes /\ k[2] \in Starts(k[1]) /\ k[2] \in 0 .. LastTime /\ k[3] \in Models
  BY DEF RowKeys
<1>2. PICK t \in 0 .. LastTime : k[2] = (t \div UsageBucketStep(k[1])) * UsageBucketStep(k[1])
  BY <1>1 DEF Starts, NormalizeUsageBucketStart
<1>3. t \div UsageBucketStep(k[1]) \in Int
  BY <1>1, StepsAreNat
<1> QED
  BY <1>1, <1>2, <1>3, StepsAreNat

\* Multiples of a bucket.
LEMMA Multiples ==
    ASSUME NEW L \in Nat \ {0}
    PROVE  /\ \A a \in Nat : a * L \in Nat
           /\ \A a \in Nat : (a + 1) * L = a * L + L
           /\ \A a, b \in Nat : a <= b => a * L <= b * L
<1>1. \A a \in Nat : a * L \in Nat
  OBVIOUS
<1>2. \A a \in Nat : (a + 1) * L = a * L + L
  OBVIOUS
<1>3. ASSUME NEW a \in Nat, NEW b \in Nat, a <= b PROVE a * L <= b * L
  <2>1. PICK d \in Nat : b = a + d
    <3>1. b - a \in Nat /\ b = a + (b - a)
      BY <1>3
    <3> QED
      BY <3>1
  <2>2. (a + d) * L = a * L + d * L
    OBVIOUS
  <2> QED
    BY <1>1, <2>1, <2>2
<1> QED
  BY <1>1, <1>2, <1>3

LEMMA IntMultiples ==
    ASSUME NEW L \in Nat \ {0}
    PROVE  /\ \A a \in Int : a * L \in Int
           /\ \A a, b \in Int : (a + b) * L = a * L + b * L
           /\ \A a, b \in Int : (a - b) * L = a * L - b * L
           /\ \A a, b \in Int : a * L < b * L => a < b
           /\ \A a, b \in Int : a * L <= b * L => a <= b
           /\ \A a, b \in Int : a * L = b * L => a = b
<1>1. \A a \in Int : a * L \in Int
  OBVIOUS
<1>2. \A a, b \in Int : (a + b) * L = a * L + b * L
  OBVIOUS
<1>3. \A a, b \in Int : (a - b) * L = a * L - b * L
  OBVIOUS
<1>4. \A a, b \in Int : a <= b => a * L <= b * L
  <2> SUFFICES ASSUME NEW a \in Int, NEW b \in Int, a <= b PROVE a * L <= b * L
    OBVIOUS
  <2>1. b - a \in Nat /\ a + (b - a) = b
    OBVIOUS
  <2>2. (b - a) * L \in Nat
    BY <2>1, Multiples
  <2>3. (b - a) * L = b * L - a * L
    BY <1>3
  <2> QED
    BY <1>1, <2>2, <2>3
<1>5. \A a, b \in Int : a < b => a * L < b * L
  <2> SUFFICES ASSUME NEW a \in Int, NEW b \in Int, a < b PROVE a * L < b * L
    OBVIOUS
  <2>1. (a + 1) * L <= b * L /\ (a + 1) * L = a * L + 1 * L /\ 1 * L = L
    BY <1>2, <1>4
  <2> QED
    BY <1>1, <2>1
<1>6. ASSUME NEW a \in Int, NEW b \in Int
      PROVE  /\ a * L < b * L => a < b
             /\ a * L <= b * L => a <= b
             /\ a * L = b * L => a = b
  BY <1>1, <1>4, <1>5
<1> QED
  BY <1>1, <1>2, <1>3, <1>6

\* The bucket a time is in, and no other one.
LEMMA BucketOf ==
    ASSUME NEW L \in Nat \ {0}, NEW s \in Int
    PROVE  /\ s \div L \in Int
           /\ (s \div L) * L <= s /\ s < (s \div L) * L + L
           /\ \A b \in Int : b * L <= s /\ s < b * L + L => s \div L = b
<1>1. PICK a : a = s \div L
  OBVIOUS
<1>2. a \in Int /\ a * L <= s /\ s < (a + 1) * L
  BY <1>1
<1>3. \A b \in Int : (b + 1) * L = b * L + L /\ b * L \in Int
  OBVIOUS
<1>4. ASSUME NEW b \in Int, b * L <= s, s < b * L + L PROVE a = b
  <2>1. a * L < (b + 1) * L /\ b * L < (a + 1) * L
    BY <1>2, <1>3, <1>4
  <2>2. a < b + 1 /\ b < a + 1
    BY <1>2, <2>1, IntMultiples
  <2> QED
    BY <1>2, <2>2
<1> QED
  BY <1>1, <1>2, <1>3, <1>4

\* Where the points of a range of days are: at the buckets c, c + 1, ... c + buckets - 1,
\* and these are the buckets of its rows.
Fits(w, L, c) ==
    /\ w.size \in Sizes /\ L \in Nat \ {0} /\ w.buckets \in Nat \ {0} /\ c \in Int
    /\ w.start \in Int /\ w.end \in Int
    /\ NormalizeUsageBucketStart(w.start, w.size) = c * L
    /\ \A q \in Int : w.start <= q * L /\ q * L < w.end => c <= q /\ q < c + w.buckets

LEMMA WindowOf ==
    ASSUME NEW range \in Ranges \ {"1d"}, NEW now \in Nat,
           NEW w, w = UsageTrendWindow(range, now),
           NEW L, L = UsageBucketStep(w.size),
           NEW c, c = w.start \div L
    PROVE  Fits(w, L, c)
<1>0. DaysOf(range) \in Nat \ {0}
  BY StepsAreNat DEF DaysOf
<1>1. PICK end : end = NormalizeUsageBucketStart(now, "day") + UsageBucketStep("day")
  OBVIOUS
<1>2. w.start = end - DaysOf(range) * UsageBucketStep("day") /\ w.end = end
      /\ w.size = "day" /\ w.buckets = DaysOf(range)
  BY <1>1 DEF UsageTrendWindow
<1>3. L = UsageBucketStep("day") /\ L \in Nat \ {0} /\ w.buckets \in Nat \ {0}
  BY <1>0, <1>2, StepsAreNat DEF Sizes
<1>4. PICK a : a = now \div L
  OBVIOUS
<1>5. PICK n \in Nat \ {0} : n = w.buckets
  BY <1>3
<1>6. a \in Int /\ a * L \in Int /\ n * L \in Int
  BY <1>3, <1>4, BucketOf, IntMultiples
<1>7. end = (a + 1) * L /\ end \in Int
  <2>1. (a + 1) * L = a * L + 1 * L /\ 1 * L = L
    BY <1>3, <1>6, IntMultiples
  <2> QED
    BY <1>1, <1>3, <1>4, <1>6, <2>1 DEF NormalizeUsageBucketStart
<1>8. w.start = (a + 1 - n) * L /\ w.start \in Int
  <2>1. a + 1 \in Int
    BY <1>6
  <2>2. ((a + 1) - n) * L = (a + 1) * L - n * L
    BY <1>3, <2>1, IntMultiples
  <2> QED
    BY <1>2, <1>3, <1>5, <1>6, <1>7, <2>2
<1>9. c = a + 1 - n
  <2>1. a + 1 - n \in Int
    BY <1>6
  <2>2. (a + 1 - n) * L <= w.start /\ w.start < (a + 1 - n) * L + L
    BY <1>3, <1>8
  <2> QED
    BY <1>3, <1>8, <2>1, <2>2, BucketOf
<1>10. ASSUME NEW q \in Int, w.start <= q * L, q * L < w.end
       PROVE  c <= q /\ q < c + n
  <2>1. a + 1 - n \in Int /\ a + 1 \in Int
    BY <1>6
  <2>2. a + 1 - n <= q
    BY <1>3, <1>8, <1>10, <2>1, IntMultiples
  <2>3. q < a + 1
    BY <1>2, <1>3, <1>7, <1>10, <2>1, IntMultiples
  <2> QED
    BY <1>6, <1>9, <2>2, <2>3
<1>11. NormalizeUsageBucketStart(w.start, w.size) = c * L
  BY DEF NormalizeUsageBucketStart
<1>12. c \in Int
  BY <1>6, <1>9
<1>13. \A q \in Int : w.start <= q * L /\ q * L < w.end => c <= q /\ q < c + w.buckets
  BY <1>5, <1>10
<1>14. w.size \in Sizes /\ w.end \in Int
  BY <1>2, <1>7 DEF Sizes
<1> QED
  BY <1>3, <1>8, <1>11, <1>12, <1>13, <1>14, Zenon DEF Fits
-----------------------------------------------------------------------------
(* The statements of a usage page *)

Counts == table \in [RowKeys -> Nat]

\* The rows of a window, by bucket: none of the sums is nothing, and they add up.
LEMMA RawIs ==
    ASSUME Counts, NEW w, w.size \in Sizes, NEW username, NEW model,
           NEW keys, keys = RowsOf(w, username, model),
           NEW raw, raw = RawPoints(keys)
    PROVE  /\ IsFiniteSet(keys) /\ keys \subseteq RowKeys /\ Total(keys, table) \in Nat
           /\ IsFiniteSet(DOMAIN raw)
           /\ \A t \in DOMAIN raw : raw[t] \in Nat \ {0}
           /\ \A t \in DOMAIN raw : \E q \in Int : /\ t = q * UsageBucketStep(w.size)
                                                  /\ w.start <= t /\ t < w.end
           /\ SumOf(raw) = Total(keys, table)
<1>1. keys \in SUBSET RowKeys /\ IsFiniteSet(keys)
  BY RowKeysFinite, FS_Subset, Zenon DEF RowsOf
<1>2. \A k \in keys : table[k] \in Nat /\ table[k] > 0
  BY <1>1, Zenon DEF Counts, RowsOf
<1>3. PICK D : D = {k[2] : k \in keys}
  BY Zenon
<1>4. PICK p : p = [k \in keys |-> k[2]]
  BY Zenon
<1>5. p \in Surjection(keys, D)
  BY <1>3, <1>4 DEF Surjection
<1>6. IsFiniteSet(D)
  BY <1>1, <1>5, FS_Surjection
<1>7. DOMAIN raw = D /\ \A t \in D : raw[t] = Total(Group(keys, p, t), table)
  <2>1. \A t : Group(keys, p, t) = {k \in keys : k[2] = t}
    BY <1>4 DEF Group
  <2>2. raw = [t \in D |-> Total({k \in keys : k[2] = t}, table)]
    BY <1>3 DEF RawPoints
  <2> QED
    BY <2>1, <2>2
<1>8. ASSUME NEW t \in D PROVE raw[t] \in Nat \ {0}
  <2>1. PICK k \in keys : k[2] = t
    BY <1>3
  <2>2. PICK group : group = Group(keys, p, t)
    OBVIOUS
  <2>3. group \in SUBSET keys /\ k \in group
    BY <1>4, <2>1, <2>2 DEF Group
  <2>4. /\ IsFiniteSet(group) /\ IsFiniteSet(group \ {k})
        /\ \A l \in group : table[l] \in Nat
    BY <1>1, <1>2, <2>3, FS_Subset
  <2>5. Total(group, table) = table[k] + Total(group \ {k}, table)
    BY <2>3, <2>4, TotalRemove
  <2>6. Total(group \ {k}, table) \in Nat
    BY <2>4, TotalIsNat
  <2> QED
    BY <1>2, <1>7, <2>2, <2>5, <2>6
<1>9. SumOf(raw) = Total(keys, table)
  <2>1. \A t \in D : raw[t] = GroupSums(keys, table, D, p)[t]
    BY <1>7 DEF GroupSums
  <2>2. Total(D, raw) = Total(D, GroupSums(keys, table, D, p))
    BY <1>6, <2>1, TotalSame
  <2>3. \A k \in keys : p[k] \in D
    BY <1>3, <1>4
  <2>4. Total(D, GroupSums(keys, table, D, p)) = Total(keys, table)
    BY <1>1, <1>2, <1>6, <2>3, TotalOfGroups
  <2> QED
    BY <1>7, <2>2, <2>4, SumOfIs
<1>10. ASSUME NEW t \in D
       PROVE  \E q \in Int : t = q * UsageBucketStep(w.size) /\ w.start <= t /\ t < w.end
  <2>1. PICK k \in keys : k[2] = t
    BY <1>3
  <2>2. k \in RowKeys /\ k[1] = w.size /\ w.start <= t /\ t < w.end
    BY <1>1, <2>1, Zenon DEF RowsOf
  <2> QED
    BY <2>1, <2>2, RowStarts
<1>11. Total(keys, table) \in Nat
  BY <1>1, <1>2, TotalIsNat
<1> QED
  BY <1>1, <1>6, <1>7, <1>8, <1>9, <1>10, <1>11

\* What PointsAddUp says of a page, for a window and its rows.
LEMMA PointsOfWindow ==
    ASSUME Counts, NEW range \in Ranges \ {"1d"}, NEW now \in Nat, NEW username, NEW model,
           NEW w, w = UsageTrendWindow(range, now),
           NEW raw, raw = RawPoints(RowsOf(w, username, model)),
           NEW points, points = FillUsageTrendPoints(w, raw)
    PROVE  /\ SumOf(raw) = SumOf(points)
           /\ Cardinality(DOMAIN raw) = Cardinality({i \in DOMAIN points : points[i] > 0})
<1>1. PICK L : L = UsageBucketStep(w.size)
  OBVIOUS
<1>2. PICK c : c = w.start \div L
  OBVIOUS
<1>3. /\ w.size \in Sizes /\ L \in Nat \ {0} /\ w.buckets \in Nat \ {0} /\ c \in Int
      /\ NormalizeUsageBucketStart(w.start, w.size) = c * L
      /\ \A q \in Int : w.start <= q * L /\ q * L < w.end => c <= q /\ q < c + w.buckets
  <2>1. Fits(w, L, c)
    BY <1>1, <1>2, WindowOf
  <2> QED
    BY <2>1, Zenon DEF Fits
<1>4. PICK n \in Nat \ {0} : n = w.buckets
  BY <1>3
<1>5. PICK D : D = DOMAIN raw
  OBVIOUS
<1>6. /\ IsFiniteSet(D)
      /\ \A t \in D : raw[t] \in Nat \ {0}
      /\ \A t \in D : \E q \in Int : t = q * L /\ w.start <= t /\ t < w.end
  BY <1>1, <1>3, <1>5, RawIs
<1>7. PICK pos : pos = [i \in 1 .. n |-> c * L + (i - 1) * L]
  BY Zenon
<1>8. \A i \in 1 .. n : pos[i] = (c + (i - 1)) * L /\ c + (i - 1) \in Int
  <2> SUFFICES ASSUME NEW i \in 1 .. n
               PROVE  pos[i] = (c + (i - 1)) * L /\ c + (i - 1) \in Int
    OBVIOUS
  <2>1. i - 1 \in Int /\ c + (i - 1) \in Int
    BY <1>3
  <2>2. (c + (i - 1)) * L = c * L + (i - 1) * L
    BY <1>3, <2>1, IntMultiples
  <2> QED
    BY <1>7, <2>1, <2>2
<1>9. \A i, j \in 1 .. n : pos[i] = pos[j] => i = j
  <2> SUFFICES ASSUME NEW i \in 1 .. n, NEW j \in 1 .. n, pos[i] = pos[j] PROVE i = j
    OBVIOUS
  <2>1. c + (i - 1) = c + (j - 1)
    BY <1>3, <1>8, IntMultiples, SMTT(30)
  <2> QED
    BY <1>3, <2>1
<1>10. points = [i \in 1 .. n |-> IF pos[i] \in D THEN raw[pos[i]] ELSE 0]
  BY <1>1, <1>3, <1>4, <1>5, <1>7 DEF FillUsageTrendPoints
<1>11. PICK In : In = Placed(D, n, pos)
  OBVIOUS
<1>12. /\ IsFiniteSet(In) /\ Total(In, raw) \in Nat /\ Cardinality(In) \in Nat
       /\ Total(1 .. n, points) = Total(In, raw)
       /\ Cardinality({i \in 1 .. n : points[i] > 0}) = Cardinality(In)
  <2>1. \A i \in 1 .. n : points[i] = IF pos[i] \in D THEN raw[pos[i]] ELSE 0
    BY <1>10
  <2>2. Positive(points, n) = {i \in 1 .. n : points[i] > 0}
    BY DEF Positive
  <2>3. n \in Nat /\ IsFiniteSet(D) /\ \A t \in D : raw[t] \in Nat \ {0}
    BY <1>6
  <2>4. Laid(D, raw, n, pos, points)
    BY <1>9, <2>1, <2>3, Zenon DEF Laid
  <2>5. /\ IsFiniteSet(In) /\ Total(In, raw) \in Nat /\ Cardinality(In) \in Nat
        /\ Total(1 .. n, points) = Total(In, raw)
        /\ Cardinality(Positive(points, n)) = Cardinality(In)
    BY <1>11, <2>4, PointsOf
  <2> QED
    BY <2>2, <2>5
<1>13. ASSUME NEW t \in D PROVE t \in In
  <2>1. PICK q \in Int : t = q * L /\ w.start <= t /\ t < w.end
    BY <1>6
  <2>2. c <= q /\ q < c + n
    BY <1>3, <1>4, <2>1, Zenon
  <2>3. PICK i \in 1 .. n : q = c + (i - 1)
    <3>1. q - c + 1 \in 1 .. n /\ q = c + ((q - c + 1) - 1)
      BY <1>3, <2>2
    <3> QED
      BY <3>1
  <2>4. pos[i] = t
    BY <1>8, <2>1, <2>3
  <2> QED
    BY <1>11, <2>4 DEF Placed
<1>14. In = D
  BY <1>11, <1>13 DEF Placed
<1>15. DOMAIN points = 1 .. n
  BY <1>10
<1>16. SumOf(raw) = SumOf(points)
  BY <1>5, <1>12, <1>14, <1>15, SumOfIs
<1> QED
  BY <1>5, <1>12, <1>14, <1>15, <1>16, Zenon

\* GROUP BY model, as QueryModelSummary has it.
SumsByModel(keys) == [m \in {k[3] : k \in keys} |-> Total({k \in keys : k[3] = m}, table)]

\* The rows by model add up as well.
LEMMA ByModelIs ==
    ASSUME Counts, NEW w, NEW username, NEW model, NEW keys, keys = RowsOf(w, username, model),
           NEW byModel, byModel = SumsByModel(keys)
    PROVE  SumOf(byModel) = Total(keys, table)
<1>1. keys \in SUBSET RowKeys /\ IsFiniteSet(keys)
  BY RowKeysFinite, FS_Subset, Zenon DEF RowsOf
<1>2. \A k \in keys : table[k] \in Nat
  BY <1>1 DEF Counts
<1>3. PICK D : D = {k[3] : k \in keys}
  BY Zenon
<1>4. PICK p : p = [k \in keys |-> k[3]]
  BY Zenon
<1>5. p \in Surjection(keys, D)
  BY <1>3, <1>4 DEF Surjection
<1>6. IsFiniteSet(D)
  BY <1>1, <1>5, FS_Surjection
<1>7. DOMAIN byModel = D /\ \A m \in D : byModel[m] = GroupSums(keys, table, D, p)[m]
  <2>1. \A m : Group(keys, p, m) = {k \in keys : k[3] = m}
    BY <1>4 DEF Group
  <2>2. byModel = [m \in D |-> Total({k \in keys : k[3] = m}, table)]
    BY <1>3 DEF SumsByModel
  <2> QED
    BY <2>1, <2>2 DEF GroupSums
<1>8. Total(D, byModel) = Total(D, GroupSums(keys, table, D, p))
  <2>1. \A m \in D : byModel[m] = GroupSums(keys, table, D, p)[m]
    BY <1>7
  <2> QED
    BY <1>6, <2>1, TotalSame
<1>9. \A k \in keys : p[k] \in D
  BY <1>3, <1>4
<1>10. Total(D, GroupSums(keys, table, D, p)) = Total(keys, table)
  BY <1>1, <1>2, <1>6, <1>9, TotalOfGroups
<1> QED
  BY <1>7, <1>8, <1>10, SumOfIs

\* The rows of the last 30 days, whoever they are of.
GlobalRows(now) ==
    LET w == UsageTrendWindow("30d", now)
    IN  {k \in RowKeys : k[1] = "day" /\ w.start <= k[2] /\ k[2] < w.end}

\* The total of everyone is that of the rows of the window, and of its days.
LEMMA GlobalIs ==
    ASSUME Counts, NEW now \in Nat
    PROVE  /\ IsFiniteSet(GlobalRows(now)) /\ \A k \in GlobalRows(now) : table[k] \in Nat
           /\ GlobalUsageSummary(now) = SumOf(DailyTokenUsage(now))
           /\ GlobalUsageSummary(now) = Total(GlobalRows(now), table)
<1>0. PICK w : w = UsageTrendWindow("30d", now)
  OBVIOUS
<1>1. PICK L : L = UsageBucketStep("day")
  OBVIOUS
<1>2. PICK a : a = now \div L
  OBVIOUS
<1>3. PICK n : n = Month
  OBVIOUS
<1>4. L \in Nat \ {0} /\ n \in Nat \ {0} /\ a \in Int /\ a * L \in Int
  BY <1>1, <1>2, <1>3, StepsAreNat, BucketOf, IntMultiples DEF Sizes
<1>5. w.size = "day" /\ w.start = (a * L + L) - n * L /\ w.end = a * L + L
  <2>1. PICK end : end = NormalizeUsageBucketStart(now, "day") + UsageBucketStep("day")
    OBVIOUS
  <2>2. w.size = "day" /\ w.start = end - Month * UsageBucketStep("day") /\ w.end = end
    BY <1>0, <2>1 DEF UsageTrendWindow, DaysOf
  <2>3. NormalizeUsageBucketStart(now, "day") = a * L
    BY <1>1, <1>2 DEF NormalizeUsageBucketStart
  <2>4. end = a * L + L
    BY <1>1, <2>1, <2>3
  <2>5. w.start = end - n * L
    BY <1>1, <1>3, <2>2
  <2> QED
    BY <2>2, <2>4, <2>5
<1>6. /\ (a + 1) * L = a * L + L /\ (a + 1) * L \in Int
      /\ ((a + 1) - n) * L = (a + 1) * L - n * L /\ ((a + 1) - n) * L \in Int
      /\ n * L \in Int
  <2>1. (a + 1) * L = a * L + 1 * L /\ 1 * L = L /\ (a + 1) * L \in Int
    BY <1>4, IntMultiples
  <2>2. a + 1 \in Int /\ (a + 1) - n \in Int
    BY <1>4
  <2>3. ((a + 1) - n) * L = (a + 1) * L - n * L /\ ((a + 1) - n) * L \in Int /\ n * L \in Int
    BY <1>4, <2>2, IntMultiples
  <2> QED
    BY <1>4, <2>1, <2>3
<1>7. w.start = ((a + 1) - n) * L /\ w.end = (a + 1) * L
  BY <1>4, <1>5, <1>6
<1>8. PICK G : G = {k \in RowKeys : k[1] = "day" /\ w.start <= k[2] /\ k[2] < w.end}
  BY Zenon
<1>9. GlobalUsageSummary(now) = Total(G, table)
  <2>1. NormalizeUsageBucketStart(now, "day") = a * L
    BY <1>1, <1>2 DEF NormalizeUsageBucketStart
  <2>2. G = {k \in RowKeys : /\ k[1] = "day" /\ (a * L + L) - n * L <= k[2]
                             /\ k[2] < a * L + L}
    BY <1>5, <1>8
  <2>3. GlobalUsageSummary(now) =
            Total({k \in RowKeys : /\ k[1] = "day" /\ (a * L + L) - n * L <= k[2]
                                   /\ k[2] < a * L + L}, table)
    BY <1>1, <1>3, <2>1, Zenon DEF GlobalUsageSummary
  <2> QED
    BY <2>2, <2>3, Zenon
<1>10. G \in SUBSET RowKeys /\ IsFiniteSet(G) /\ \A k \in G : table[k] \in Nat
  BY <1>8, RowKeysFinite, FS_Subset DEF Counts
<1>11. GlobalRows(now) = G
  BY <1>0, <1>8, Zenon DEF GlobalRows
<1>12. PICK at : at = [i \in 1 .. n |-> a * L - (i - 1) * L]
  BY Zenon
<1>13. \A i \in 1 .. n : at[i] = ((a + 1) - i) * L /\ (a + 1) - i \in Int
  <2> SUFFICES ASSUME NEW i \in 1 .. n PROVE at[i] = ((a + 1) - i) * L /\ (a + 1) - i \in Int
    OBVIOUS
  <2>1. i - 1 \in Int /\ a - (i - 1) \in Int /\ a - (i - 1) = (a + 1) - i
    BY <1>4
  <2>2. (a - (i - 1)) * L = a * L - (i - 1) * L
    BY <1>4, <2>1, IntMultiples
  <2> QED
    BY <1>12, <2>1, <2>2
<1>14. \A k \in G : \E i \in 1 .. n : k[2] = at[i]
  <2> SUFFICES ASSUME NEW k \in G PROVE \E i \in 1 .. n : k[2] = at[i]
    OBVIOUS
  <2>1. PICK q \in Int : k[2] = q * L
    BY <1>1, <1>8, RowStarts
  <2>2. ((a + 1) - n) * L <= q * L /\ q * L < (a + 1) * L
    BY <1>7, <1>8, <2>1
  <2>3. (a + 1) - n <= q /\ q < a + 1
    <3>1. a + 1 \in Int /\ (a + 1) - n \in Int
      BY <1>4
    <3> QED
      BY <1>4, <2>2, <3>1, IntMultiples
  <2>4. PICK i \in 1 .. n : q = (a + 1) - i
    <3>1. (a + 1) - q \in 1 .. n /\ q = (a + 1) - ((a + 1) - q)
      BY <1>4, <2>3
    <3> QED
      BY <3>1
  <2> QED
    BY <1>13, <2>1, <2>4
<1>15. \A i, j \in 1 .. n : at[i] = at[j] => i = j
  <2> SUFFICES ASSUME NEW i \in 1 .. n, NEW j \in 1 .. n, at[i] = at[j] PROVE i = j
    OBVIOUS
  <2>1. (a + 1) - i = (a + 1) - j
    BY <1>4, <1>13, IntMultiples
  <2> QED
    BY <1>4, <2>1
<1>16. \A i \in 1 .. n : w.start <= at[i] /\ at[i] < w.end
  <2> SUFFICES ASSUME NEW i \in 1 .. n PROVE w.start <= at[i] /\ at[i] < w.end
    OBVIOUS
  <2>1. n - i \in Nat /\ i \in Nat \ {0} /\ (a + 1) - n \in Int /\ a + 1 \in Int
    BY <1>4
  <2>2. (n - i) * L \in Nat /\ i * L \in Nat /\ i * L # 0
    BY <1>4, <2>1
  <2>3. (((a + 1) - n) + (n - i)) * L = ((a + 1) - n) * L + (n - i) * L
    BY <1>4, <2>1, IntMultiples
  <2>4. ((a + 1) - i) * L = (a + 1) * L - i * L
    BY <1>4, <2>1, IntMultiples
  <2>5. ((a + 1) - n) + (n - i) = (a + 1) - i
    BY <1>4
  <2>6. at[i] = ((a + 1) - n) * L + (n - i) * L /\ at[i] = (a + 1) * L - i * L
    <3>1. at[i] = ((a + 1) - i) * L
      BY <1>13
    <3>2. at[i] = (a + 1) * L - i * L
      BY <2>4, <3>1, Zenon
    <3>3. at[i] = ((a + 1) - n) * L + (n - i) * L
      BY <2>3, <2>5, <3>1, Zenon
    <3> QED
      BY <3>2, <3>3
  <2> QED
    BY <1>6, <1>7, <2>2, <2>6
<1>17. PICK p : p = [k \in G |-> CHOOSE i \in 1 .. n : k[2] = at[i]]
  BY Zenon
<1>18. \A k \in G : p[k] \in 1 .. n /\ k[2] = at[p[k]]
  BY <1>14, <1>17
<1>19. ASSUME NEW i \in 1 .. n
       PROVE  Group(G, p, i) = {k \in RowKeys : k[1] = "day" /\ k[2] = a * L - (i - 1) * L}
  <2>1. at[i] = a * L - (i - 1) * L
    BY <1>12
  <2>2. ASSUME NEW k \in Group(G, p, i) PROVE k \in RowKeys /\ k[1] = "day" /\ k[2] = at[i]
    BY <1>8, <1>18 DEF Group
  <2>3. ASSUME NEW k \in RowKeys, k[1] = "day", k[2] = at[i] PROVE k \in Group(G, p, i)
    <3>1. k \in G
      BY <1>8, <1>16, <2>3
    <3>2. p[k] = i
      BY <1>15, <1>18, <2>3, <3>1
    <3> QED
      BY <3>1, <3>2 DEF Group
  <2> QED
    BY <2>1, <2>2, <2>3
<1>20. PICK daily : daily = DailyTokenUsage(now)
  OBVIOUS
<1>21. DOMAIN daily = 1 .. n /\ \A i \in 1 .. n : daily[i] = GroupSums(G, table, 1 .. n, p)[i]
  <2>1. daily = [i \in 1 .. n |->
                    Total({k \in RowKeys : k[1] = "day" /\ k[2] = a * L - (i - 1) * L}, table)]
    BY <1>1, <1>2, <1>3, <1>20 DEF DailyTokenUsage, NormalizeUsageBucketStart
  <2> QED
    BY <1>19, <2>1 DEF GroupSums
<1>22. IsFiniteSet(1 .. n)
  BY <1>4, FS_Interval
<1>23. Total(1 .. n, daily) = Total(1 .. n, GroupSums(G, table, 1 .. n, p))
  BY <1>21, <1>22, TotalSame, Zenon
<1>24. Total(1 .. n, GroupSums(G, table, 1 .. n, p)) = Total(G, table)
  <2>1. (\A k \in G : table[k] \in Nat) /\ (\A k \in G : p[k] \in 1 .. n)
    BY <1>10, <1>18
  <2> QED
    BY <1>10, <1>22, <2>1, TotalOfGroups, ZenonT(30)
<1>25. SumOf(daily) = Total(1 .. n, daily)
  BY <1>21, SumOfIs
<1> QED
  BY <1>9, <1>10, <1>11, <1>20, <1>23, <1>24, <1>25, Zenon

\* A trend of days is within the total of everyone.
LEMMA DaysInGlobal ==
    ASSUME Counts, NEW range \in Ranges \ {"1d"}, NEW now \in Nat, NEW username, NEW model,
           NEW keys, keys = RowsOf(UsageTrendWindow(range, now), username, model)
    PROVE  /\ Total(keys, table) <= GlobalUsageSummary(now)
           /\ range = "30d" /\ NoOtherRows(username, model)
                  => Total(keys, table) = GlobalUsageSummary(now)
<1>1. PICK G : G = GlobalRows(now)
  OBVIOUS
<1>2. /\ IsFiniteSet(G) /\ \A k \in G : table[k] \in Nat
      /\ GlobalUsageSummary(now) = Total(G, table)
  BY <1>1, GlobalIs, Zenon
<1>3. PICK w : w = UsageTrendWindow(range, now)
  OBVIOUS
<1>4. PICK v : v = UsageTrendWindow("30d", now)
  OBVIOUS
<1>5. G = {k \in RowKeys : k[1] = "day" /\ v.start <= k[2] /\ k[2] < v.end}
  BY <1>1, <1>4, Zenon DEF GlobalRows
<1>6. w.size = "day" /\ w.end = v.end /\ v.start <= w.start /\ {v.start, w.start} \subseteq Int
  <2>1. PICK L \in Nat \ {0} : L = UsageBucketStep("day")
    BY StepsAreNat DEF Sizes
  <2>2. PICK end : end = NormalizeUsageBucketStart(now, "day") + L
    OBVIOUS
  <2>3. end \in Int
    <3>1. now \div L \in Int /\ (now \div L) * L \in Int
      BY BucketOf, IntMultiples
    <3> QED
      BY <2>1, <2>2, <3>1 DEF NormalizeUsageBucketStart
  <2>4. PICK d : d = DaysOf(range)
    OBVIOUS
  <2>5. d \in Nat /\ Month \in Nat /\ d <= Month
    BY <2>4, StepsAreNat DEF DaysOf
  <2>6. d * L <= Month * L /\ d * L \in Nat /\ Month * L \in Nat
    BY <2>5, Multiples
  <2>7. w.size = "day" /\ w.end = end /\ w.start = end - d * L
    BY <1>3, <2>1, <2>2, <2>4 DEF UsageTrendWindow
  <2>8. v.end = end /\ v.start = end - Month * L
    BY <1>4, <2>1, <2>2 DEF UsageTrendWindow, DaysOf
  <2> QED
    BY <2>3, <2>6, <2>7, <2>8
<1>7. keys \in SUBSET G
  <2> SUFFICES ASSUME NEW k \in keys PROVE k \in G
    OBVIOUS
  <2>1. k \in RowKeys /\ k[1] = w.size /\ w.start <= k[2] /\ k[2] < w.end
    BY <1>3, Zenon DEF RowsOf
  <2>2. k[2] \in Nat
    BY <2>1, RowStarts
  <2> QED
    BY <1>5, <1>6, <2>1, <2>2
<1>8. Total(keys, table) <= GlobalUsageSummary(now)
  BY <1>2, <1>7, TotalOfPart, Zenon
<1>9. ASSUME range = "30d", NoOtherRows(username, model)
      PROVE  Total(keys, table) = GlobalUsageSummary(now)
  <2>1. w = v
    BY <1>3, <1>4, <1>9
  <2>2. ASSUME NEW k \in G \ keys PROVE table[k] = 0
    <3>1. k \in RowKeys /\ k[1] = w.size /\ w.start <= k[2] /\ k[2] < w.end
      BY <1>5, <1>6, <2>1
    <3>2. k[4] # username \/ (model # "" /\ k[3] # model) \/ ~(table[k] > 0)
      BY <1>3, <3>1, Zenon DEF RowsOf
    <3>3. ~(table[k] > 0)
      BY <1>9, <3>1, <3>2, Zenon DEF NoOtherRows
    <3> QED
      BY <1>2, <3>3
  <2> QED
    BY <1>2, <1>7, <2>2, TotalWithoutZeros, Zenon
<1> QED
  BY <1>8, <1>9

ViewFields == {"at", "range", "username", "model", "now", "global", "models", "points",
               "summary", "active", "by_model"}

\* The rows of the trend on the page.
ShownRows(model) == RowsOf(ShownWindow, view.username, model)

\* What the statements of a page have found is still so while no rebuild commits.
Agreed ==
    /\ view.at \in {"models", "points", "by_model", "done"} =>
           view.global = GlobalUsageSummary(view.now)
    /\ view.at \in {"points", "by_model", "done"} =>
           view.models = {k[3] : k \in ShownRows("")} \ {""}
    /\ view.at \in {"by_model", "done"} =>
           view.summary = Total(ShownRows(view.model), table)
    /\ view.at = "done" => view.by_model = SumsByModel(ShownRows(view.model))

TrendIInv ==
    /\ time \in Nat
    /\ Counts
    /\ DOMAIN view = ViewFields
    /\ view.at \in {"none", "global", "models", "points", "by_model", "done"}
    /\ view.at # "none" => view.range \in Ranges /\ view.now \in Nat
    /\ PointsAddUp
    /\ ~changed => Agreed

\* A page whose statements agree is what QuietPagesAgree asks for.
LEMMA AgreedPages ==
    TrendIInv => QuietPagesAgree
<1> SUFFICES ASSUME TrendIInv, ~changed PROVE QuietPagesAgree
  BY Zenon DEF QuietPagesAgree
<1>1. Counts /\ Agreed
  BY DEF TrendIInv
<1>2. ASSUME view.at \notin {"none", "global"}
      PROVE  view.global = SumOf(DailyTokenUsage(view.now))
  <2>1. view.at \in {"models", "points", "by_model", "done"} /\ view.now \in Nat
    BY <1>2 DEF TrendIInv
  <2> QED
    BY <1>1, <2>1, GlobalIs, Zenon DEF Agreed
<1>3. ASSUME view.at = "done"
      PROVE  /\ SumOf(view.by_model) = view.summary
             /\ view.model = "" => DOMAIN view.by_model \ {""} = view.models
             /\ view.range # "1d" => view.summary <= view.global
             /\ view.range = "30d" /\ NoOtherRows(view.username, view.model)
                    => view.summary = view.global
  <2>1. view.range \in Ranges /\ view.now \in Nat
    BY <1>3 DEF TrendIInv
  <2>2. PICK keys : keys = ShownRows(view.model)
    OBVIOUS
  <2>3. /\ view.global = GlobalUsageSummary(view.now)
        /\ view.models = {k[3] : k \in ShownRows("")} \ {""}
        /\ view.summary = Total(keys, table)
        /\ view.by_model = SumsByModel(keys)
    BY <1>1, <1>3, <2>2, Zenon DEF Agreed
  <2>4. SumOf(view.by_model) = view.summary
    <3>1. PICK w, username, model :
              w = ShownWindow /\ username = view.username /\ model = view.model
      OBVIOUS
    <3>2. keys = RowsOf(w, username, model)
      BY <2>2, <3>1, Zenon DEF ShownRows
    <3>3. PICK byModel : byModel = SumsByModel(keys)
      OBVIOUS
    <3>4. SumOf(byModel) = Total(keys, table)
      BY <1>1, <3>2, <3>3, ByModelIs
    <3> QED
      BY <2>3, <3>3, <3>4
  <2>5. view.model = "" => DOMAIN view.by_model \ {""} = view.models
    BY <2>2, <2>3, Zenon DEF SumsByModel
  <2>6. keys = RowsOf(UsageTrendWindow(view.range, view.now), view.username, view.model)
    BY <2>2, Zenon DEF ShownRows, ShownWindow
  <2>7. ASSUME view.range # "1d"
        PROVE  /\ view.summary <= view.global
               /\ view.range = "30d" /\ NoOtherRows(view.username, view.model)
                      => view.summary = view.global
    <3>1. PICK range \in Ranges \ {"1d"} : range = view.range
      BY <2>1, <2>7
    <3>2. PICK now \in Nat : now = view.now
      BY <2>1
    <3>3. PICK username, model : username = view.username /\ model = view.model
      OBVIOUS
    <3>4. keys = RowsOf(UsageTrendWindow(range, now), username, model)
      BY <2>6, <3>1, <3>2, <3>3
    <3>5. /\ Total(keys, table) <= GlobalUsageSummary(now)
          /\ range = "30d" /\ NoOtherRows(username, model)
                 => Total(keys, table) = GlobalUsageSummary(now)
      BY <1>1, <3>4, DaysInGlobal
    <3> QED
      BY <2>3, <3>1, <3>2, <3>3, <3>5, Zenon
  <2> QED
    BY <2>4, <2>5, <2>7, Zenon
<1> QED
  BY <1>2, <1>3, Zenon DEF QuietPagesAgree

LEMMA TrendInitIInv == TrendInit => TrendIInv
<1> SUFFICES ASSUME TrendInit PROVE TrendIInv
  OBVIOUS
<1>1. view.at = "none" /\ DOMAIN view = ViewFields
  BY Zenon DEF TrendInit, NoView, ViewFields
<1>2. time \in Nat /\ Counts
  BY DEF TrendInit, Counts
<1> QED
  BY <1>1, <1>2 DEF TrendIInv, PointsAddUp, Agreed

\* The statements of a page read the table and change only the page.
LEMMA SameTable ==
    ASSUME table' = table, view'.range = view.range, view'.now = view.now,
           view'.username = view.username, view'.model = view.model
    PROVE  /\ GlobalUsageSummary(view.now)' = GlobalUsageSummary(view.now)
           /\ ShownRows("")' = ShownRows("")
           /\ ShownRows(view.model)' = ShownRows(view.model)
           /\ Total(ShownRows(view.model), table)' = Total(ShownRows(view.model), table)
           /\ SumsByModel(ShownRows(view.model))' = SumsByModel(ShownRows(view.model))
<1>1. ShownWindow' = ShownWindow
  BY DEF ShownWindow
<1>2. GlobalUsageSummary(view.now)' = GlobalUsageSummary(view.now)
  BY DEF GlobalUsageSummary
<1>3. ShownRows("")' = ShownRows("") /\ ShownRows(view.model)' = ShownRows(view.model)
  BY <1>1 DEF ShownRows, RowsOf
<1>4. SumsByModel(ShownRows(view.model))' = SumsByModel(ShownRows(view.model))
  BY <1>3, ZenonT(30) DEF SumsByModel
<1>5. Total(ShownRows(view.model), table)' = Total(ShownRows(view.model), table)
  BY <1>3
<1> QED
  BY <1>2, <1>3, <1>4, <1>5, Zenon

\* listUsage opens a page that has found nothing yet.
LEMMA ListUsageStep ==
    ASSUME TrendIInv, NEW range \in Ranges, NEW username, NEW model,
           ListUsage(range, username, model)
    PROVE  TrendIInv'
<1>1. /\ view'.at = "global" /\ view'.range = range /\ view'.now = time
      /\ DOMAIN view' = ViewFields
  BY DEF ListUsage, NoView, ViewFields
<1>2. time' = time /\ table' = table
  BY Zenon DEF ListUsage
<1> QED
  BY <1>1, <1>2, Zenon DEF TrendIInv, PointsAddUp, Agreed, Counts

LEMMA QueryGlobalStep ==
    ASSUME TrendIInv, QueryGlobal PROVE TrendIInv'
<1>1. /\ view.at = "global" /\ time' = time /\ table' = table /\ changed' = changed
      /\ DOMAIN view' = ViewFields
      /\ view'.at = "models" /\ view'.global = GlobalUsageSummary(view.now)
      /\ view'.range = view.range /\ view'.username = view.username
      /\ view'.model = view.model /\ view'.now = view.now
  BY DEF QueryGlobal, TrendIInv, ViewFields
<1>2. Agreed'
  BY <1>1, SameTable, Zenon DEF Agreed
<1> QED
  BY <1>1, <1>2 DEF TrendIInv, PointsAddUp, Counts

LEMMA QueryModelsStep ==
    ASSUME TrendIInv, QueryModels PROVE TrendIInv'
<1>1. /\ view.at = "models" /\ time' = time /\ table' = table /\ changed' = changed
      /\ DOMAIN view' = ViewFields
      /\ view'.at = "points" /\ view'.global = view.global
      /\ view'.models = {k[3] : k \in ShownRows("")} \ {""}
      /\ view'.range = view.range /\ view'.username = view.username
      /\ view'.model = view.model /\ view'.now = view.now
  BY DEF QueryModels, TrendIInv, ViewFields, ShownRows
<1>2. ~changed => Agreed'
  BY <1>1, SameTable, Zenon DEF TrendIInv, Agreed
<1> QED
  BY <1>1, <1>2, Zenon DEF TrendIInv, PointsAddUp, Counts

\* The points a page shows are those of its window.
LEMMA QueryPointsStep ==
    ASSUME TrendIInv, QueryPoints PROVE TrendIInv'
<1>1. PICK raw : raw = RawPoints(ShownRows(view.model))
  OBVIOUS
<1>2. /\ view.at = "points" /\ time' = time /\ table' = table /\ changed' = changed
      /\ DOMAIN view' = ViewFields
      /\ view'.at = "by_model" /\ view'.global = view.global /\ view'.models = view.models
      /\ view'.range = view.range /\ view'.username = view.username
      /\ view'.model = view.model /\ view'.now = view.now
      /\ view'.points = FillUsageTrendPoints(ShownWindow, raw)
      /\ view'.summary = SumOf(raw)
      /\ view'.active = Cardinality(DOMAIN raw)
  BY <1>1 DEF QueryPoints, TrendIInv, ViewFields, ShownRows
<1>3. PICK range \in Ranges : range = view.range
  BY <1>2 DEF TrendIInv
<1>4. PICK now \in Nat : now = view.now
  BY <1>2 DEF TrendIInv
<1>5. PICK w : w = UsageTrendWindow(range, now)
  OBVIOUS
<1>6. PICK points : points = FillUsageTrendPoints(w, raw)
  OBVIOUS
<1>7. ShownWindow = w
  BY <1>3, <1>4, <1>5 DEF ShownWindow
<1>8. PICK username, model : username = view.username /\ model = view.model
  OBVIOUS
<1>9. ShownRows(view.model) = RowsOf(w, username, model)
  BY <1>7, <1>8 DEF ShownRows
<1>10. Counts
  BY DEF TrendIInv
<1>11. ASSUME range # "1d"
       PROVE  /\ SumOf(raw) = SumOf(points)
              /\ Cardinality(DOMAIN raw) = Cardinality({i \in DOMAIN points : points[i] > 0})
  <2>1. range \in Ranges \ {"1d"} /\ raw = RawPoints(RowsOf(w, username, model))
    BY <1>1, <1>9, <1>11
  <2> QED
    BY <1>5, <1>6, <1>10, <2>1, PointsOfWindow
<1>12. PointsAddUp'
  BY <1>2, <1>3, <1>6, <1>7, <1>11, Zenon DEF PointsAddUp
<1>13. view'.summary = Total(ShownRows(view.model), table)
  <2>1. PICK keys : keys = RowsOf(w, username, model)
    OBVIOUS
  <2>2. w.size \in Sizes
    BY <1>5, Zenon DEF UsageTrendWindow, Sizes
  <2>3. SumOf(raw) = Total(keys, table)
    BY <1>1, <1>9, <1>10, <2>1, <2>2, RawIs
  <2> QED
    BY <1>2, <1>9, <2>1, <2>3
<1>14. ~changed => Agreed'
  BY <1>2, <1>13, SameTable, ZenonT(30) DEF TrendIInv, Agreed
<1> QED
  BY <1>2, <1>3, <1>4, <1>12, <1>14 DEF TrendIInv, Counts

LEMMA QueryModelSummaryStep ==
    ASSUME TrendIInv, QueryModelSummary PROVE TrendIInv'
<1>1. /\ view.at = "by_model" /\ time' = time /\ table' = table /\ changed' = changed
      /\ DOMAIN view' = ViewFields
      /\ view'.at = "done"
      /\ view'.by_model = SumsByModel(ShownRows(view.model))
  BY DEF QueryModelSummary, TrendIInv, ViewFields, SumsByModel, ShownRows
<1>2. /\ view'.global = view.global /\ view'.models = view.models
      /\ view'.range = view.range /\ view'.username = view.username
      /\ view'.model = view.model /\ view'.now = view.now
      /\ view'.points = view.points
      /\ view'.summary = view.summary /\ view'.active = view.active
  BY ZenonT(30) DEF QueryModelSummary, TrendIInv, ViewFields
<1>3. PointsAddUp'
  BY <1>1, <1>2 DEF TrendIInv, PointsAddUp
<1>4. ~changed => Agreed'
  BY <1>1, <1>2, SameTable, ZenonT(30) DEF TrendIInv, Agreed
<1> QED
  BY <1>1, <1>2, <1>3, <1>4 DEF TrendIInv, Counts

LEMMA SendTrendStep ==
    ASSUME TrendIInv, SendTrend PROVE TrendIInv'
<1>1. /\ view'.at = "none" /\ DOMAIN view' = ViewFields
      /\ time' = time /\ table' = table
  BY Zenon DEF SendTrend, NoView, ViewFields
<1> QED
  BY <1>1, ZenonT(30) DEF TrendIInv, PointsAddUp, Agreed, Counts

\* The buckets of the times of the table are in the table.
LEMMA StartsAreTimes ==
    ASSUME NEW size \in Sizes
    PROVE  Starts(size) \subseteq 0 .. LastTime
<1> SUFFICES ASSUME NEW t \in 0 .. LastTime
             PROVE  NormalizeUsageBucketStart(t, size) \in 0 .. LastTime
  BY DEF Starts
<1>1. PICK L \in Nat \ {0} : L = UsageBucketStep(size)
  BY StepsAreNat
<1>2. PICK c : c = t \div L
  OBVIOUS
<1>3. c \in Nat /\ c * L <= t
  BY <1>2, BucketOf
<1>4. c * L \in Nat
  BY <1>3
<1> QED
  BY <1>1, <1>2, <1>3, <1>4, StepsAreNat DEF NormalizeUsageBucketStart

LEMMA KeyOf ==
    ASSUME NEW t \in 0 .. LastTime, NEW size \in Sizes, NEW m \in Models,
           NEW u \in Usernames
    PROVE  <<size, NormalizeUsageBucketStart(t, size), m, u>> \in RowKeys
<1>1. PICK s : s = NormalizeUsageBucketStart(t, size)
  OBVIOUS
<1>2. s \in Starts(size)
  BY <1>1 DEF Starts
<1>3. s \in 0 .. LastTime
  BY <1>2, StartsAreTimes
<1> QED
  BY <1>1, <1>2, <1>3 DEF RowKeys

\* A rebuild keeps the table one of counts, and leaves the page as it is.
LEMMA RebuildStep ==
    ASSUME TrendIInv, NEW t \in Starts("hour"), NEW m \in Models, NEW u \in Usernames, Rebuild(t, m, u)
    PROVE  TrendIInv'
<1>1. time' = time /\ view' = view /\ changed'
  BY DEF Rebuild
<1>2. t \in 0 .. LastTime
  BY StartsAreTimes DEF Sizes
<1>3. Counts'
  <2>1. PICK a : a = <<"hour", NormalizeUsageBucketStart(t, "hour"), m, u>>
    BY Zenon
  <2>2. PICK b : b = <<"day", NormalizeUsageBucketStart(t, "day"), m, u>>
    BY Zenon
  <2>3. a \in RowKeys /\ b \in RowKeys
    BY <1>2, <2>1, <2>2, KeyOf DEF Sizes
  <2>4. table' = [table EXCEPT ![a] = @ + 1, ![b] = @ + 1]
    BY <2>1, <2>2 DEF Rebuild
  <2>5. table \in [RowKeys -> Nat]
    BY Zenon DEF TrendIInv, Counts
  <2> QED
    BY <2>3, <2>4, <2>5 DEF Counts
<1>4. PointsAddUp'
  BY <1>1 DEF TrendIInv, PointsAddUp
<1> QED
  BY <1>1, <1>3, <1>4 DEF TrendIInv

LEMMA ElapseStep ==
    ASSUME TrendIInv, time' \in Nat, UNCHANGED <<table, view, changed>>
    PROVE  TrendIInv'
<1>1. table' = table /\ view' = view /\ changed' = changed
  OBVIOUS
<1>2. PointsAddUp'
  BY <1>1 DEF TrendIInv, PointsAddUp
<1>3. ~changed => Agreed'
  BY <1>1, SameTable, Zenon DEF TrendIInv, Agreed
<1> QED
  BY <1>1, <1>2, <1>3 DEF TrendIInv, Counts

LEMMA TrendNextIInv == TrendIInv /\ [TrendNext]_trendVars => TrendIInv'
<1> SUFFICES ASSUME TrendIInv, [TrendNext]_trendVars PROVE TrendIInv'
  OBVIOUS
<1>1. ASSUME NEW range \in Ranges, NEW username, NEW model, ListUsage(range, username, model)
      PROVE  TrendIInv'
  BY <1>1, ListUsageStep, Zenon
<1>2. CASE QueryGlobal
  BY <1>2, QueryGlobalStep
<1>3. CASE QueryModels
  BY <1>3, QueryModelsStep, Zenon
<1>4. CASE QueryPoints
  BY <1>4, QueryPointsStep
<1>5. CASE QueryModelSummary
  BY <1>5, QueryModelSummaryStep
<1>6. CASE SendTrend
  BY <1>6, SendTrendStep
<1>7. ASSUME NEW t \in Starts("hour"), NEW m \in Models, NEW u \in Usernames, Rebuild(t, m, u)
      PROVE  TrendIInv'
  BY <1>7, RebuildStep
<1>8. CASE Elapse
  <2>1. time' \in Nat /\ UNCHANGED <<table, view, changed>>
    BY <1>8 DEF Elapse, TrendIInv
  <2> QED
    BY <2>1, ElapseStep
<1>9. CASE UNCHANGED trendVars
  <2>1. time' \in Nat /\ UNCHANGED <<table, view, changed>>
    BY <1>9 DEF trendVars, TrendIInv
  <2> QED
    BY <2>1, ElapseStep
<1> QED
  BY <1>1, <1>2, <1>3, <1>4, <1>5, <1>6, <1>7, <1>8, <1>9, Zenon DEF TrendNext

\* EmployeeUsageTrend and fillUsageTrendPoints: the points of a trend of days add up to
\* its summary, and its active days are the points above zero.
THEOREM PointsMakeTheSummary == TrendSpec => []PointsAddUp
<1>1. TrendIInv => PointsAddUp
  BY DEF TrendIInv
<1> QED
  BY <1>1, TrendInitIInv, TrendNextIInv, PTL DEF TrendSpec

\* listUsage: when no rebuild commits between the statements of a page, its totals, its
\* models and its sums by model and by bucket agree, for any number of usernames, models,
\* days and tokens.
THEOREM QuietPagesAddUp == TrendSpec => []QuietPagesAgree
<1> QED
  BY AgreedPages, TrendInitIInv, TrendNextIInv, PTL DEF TrendSpec
=============================================================================
